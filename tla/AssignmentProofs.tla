--------------------------- MODULE AssignmentProofs ---------------------------
(***************************************************************************)
(* What the guild may rely on of its assignments, for any members, skills, *)
(* levels, trials, pins and results.                                       *)
(*                                                                         *)
(* AssignmentIsLegal: the loops of improveBySwaps know a member's trial    *)
(* only by looking for it, so an exchange of two members is one of their   *)
(* seats because each has exactly one; who has two is pinned and is never  *)
(* moved.                                                                  *)
(*                                                                         *)
(* AllocationIsBest: an allocation that agrees with the path up to a       *)
(* choice that has been tried before is no better than the best.  What a   *)
(* cut branch holds is covered by its bound, and isBetter is an order.     *)
(*                                                                         *)
(* SweepNamesTheBest: who stays out of the full runs is beaten by all who  *)
(* are in, and a bold sweep goes down without a gap.                       *)
(*                                                                         *)
(* TeamsStaySound: every script keeps of each row what the others rely on, *)
(* also of a row they have changed, so that they may run in any order and  *)
(* on old copies of the file.                                              *)
(*                                                                         *)
(* TeamsAreSound: who is cut on one side finds the other full or shut to   *)
(* his role; an exchange changes no team's size, and each of a role puts   *)
(* one more member where he belongs, so that as many as a row is long      *)
(* close its gap.                                                          *)
(***************************************************************************)
EXTENDS LifeAssignment, AuraAssignment, RosterLab, KitSweep, WeeklyPipeline,
        FiniteSetTheorems, WellFoundedInduction, TLAPS

\* A set of natural numbers that has a member has a least one.
LEMMA LeastOf ==
    ASSUME NEW S, S \subseteq Nat, S # {}
    PROVE  \E m \in S : \A n \in S : m <= n
<1>1. PICK m \in S : \A n \in S : <<n, m>> \notin OpToRel(<, Nat)
  BY NatLessThanWellFounded, WFMin
<1>2. \A n \in S : ~(n < m)
  BY <1>1 DEF OpToRel
<1> QED
  BY <1>2

-----------------------------------------------------------------------------
(* The inductive invariant *)

\* The members there are.
Member == Listed(Names)

\* Rosters and assigned hold members; pins are of assigned ones.
LifeTypes ==
    /\ input \in LifeInputs
    /\ rosters \in [Trials -> Seq(Member)]
    /\ assigned \in Seq(Member)
    /\ pinned \subseteq Listed(assigned)
    /\ pass.i \in Nat \ {0} /\ pass.j \in Nat

\* What a roster holds fits into it and qualifies for it.
RostersFit ==
    \A t \in Trials :
        /\ Len(rosters[t]) <= Places(t)
        /\ \A m \in Listed(rosters[t]) : Qualifies(m, t) /\ m \notin input.missing

\* Who is assigned has a seat; a second one only as he is pinned twice.
SeatsAreKnown ==
    \A m \in Member :
        /\ m \in Listed(assigned) <=> \E t \in Trials : m \in Listed(rosters[t])
        /\ SeatedOnce(m) \/ (m \in pinned /\ PinnedTwice(m))

\* The pin has been placed: in phase pin those before the one at hand.
Done(i) == phase = "pin" => i < pass.i

\* A pin that is placed is where it was placed, and pins are all that is placed so far.
PinsStay ==
    /\ phase = "pin" => Listed(assigned) = pinned
    /\ \A m \in pinned : \E i \in DOMAIN input.pins : Done(i) /\ Fold[input.pins[i].name] = Fold[m]
    /\ phase # "refused" =>
         \A i \in DOMAIN input.pins : Done(i) =>
             /\ First(input.pins[i]) \in pinned
             /\ First(input.pins[i]) \in Listed(rosters[input.pins[i].trial])

LifeInv ==
    /\ LifeTypes /\ RostersFit /\ SeatsAreKnown /\ PinsStay
    /\ phase \in {"pin", "greedy", "swap", "done", "refused"}
    /\ phase \in {"pin", "greedy"} => pass.j = 2
    /\ phase \in {"greedy", "swap"} => pass.i < pass.j

-----------------------------------------------------------------------------
(* Lemmas *)

LEMMA NamesFacts ==
    /\ Names \in Seq(Member)
    /\ \A k \in DOMAIN Names : Names[k] \in Member /\ k \in Nat
  BY LifeAssumption DEF Member, Listed

LEMMA ListedFacts ==
    ASSUME NEW S, NEW s \in Seq(S)
    PROVE  /\ Listed(s) \subseteq S
           /\ \A m \in S : /\ Append(s, m) \in Seq(S)
                           /\ Len(Append(s, m)) = Len(s) + 1 /\ Len(s) \in Nat
                           /\ DOMAIN Append(s, m) = DOMAIN s \cup {Len(s) + 1}
                           /\ Len(s) + 1 \notin DOMAIN s
                           /\ Append(s, m)[Len(s) + 1] = m
                           /\ \A k \in DOMAIN s : Append(s, m)[k] = s[k]
                           /\ Listed(Append(s, m)) = Listed(s) \cup {m}
<1>1. Listed(s) \subseteq S
  BY DEF Listed
<1>2. ASSUME NEW m \in S
      PROVE  /\ Append(s, m) \in Seq(S)
             /\ Len(Append(s, m)) = Len(s) + 1 /\ Len(s) \in Nat
             /\ DOMAIN Append(s, m) = DOMAIN s \cup {Len(s) + 1}
             /\ Len(s) + 1 \notin DOMAIN s
             /\ Append(s, m)[Len(s) + 1] = m
             /\ \A k \in DOMAIN s : Append(s, m)[k] = s[k]
  OBVIOUS
<1>3. ASSUME NEW m \in S
      PROVE  Listed(Append(s, m)) = Listed(s) \cup {m}
  BY <1>2 DEF Listed
<1> QED
  BY <1>1, <1>2, <1>3

\* Whom a pin means is a candidate with the pin's name.
LEMMA FirstIsMeant ==
    ASSUME NEW pin, Meant(pin) # {}
    PROVE  \E k \in Candidates : First(pin) = Names[k] /\ Fold[Names[k]] = Fold[pin.name]
<1>1. Meant(pin) \subseteq Nat
  BY NamesFacts DEF Meant, Candidates
<1>2. \E k \in Meant(pin) : \A j \in Meant(pin) : k <= j
  BY <1>1, LeastOf
<1>3. (CHOOSE k \in Meant(pin) : \A j \in Meant(pin) : k <= j) \in Meant(pin)
  BY <1>2
<1> QED
  BY <1>3 DEF First, Meant

LEMMA CandidateFacts ==
    ASSUME NEW k \in Candidates
    PROVE  Names[k] \in Member /\ Names[k] \notin input.missing
  BY NamesFacts DEF Candidates

LEMMA PinFacts ==
    ASSUME LifeTypes, NEW i \in DOMAIN input.pins
    PROVE  /\ input.pins \in Seq([name : DOMAIN Fold, trial : Trials])
           /\ input.pins[i] \in [name : DOMAIN Fold, trial : Trials]
           /\ input.pins[i].trial \in Trials /\ i \in Nat
<1> DEFINE P == [name : DOMAIN Fold, trial : Trials]
<1>1. input.pins \in Seq(P)
  BY LifeAssumption DEF LifeTypes
<1>2. \A p \in P : p.trial \in Trials
  OBVIOUS
<1> HIDE DEF P
<1>3. input.pins[i] \in P /\ i \in Nat
  BY <1>1
<1> QED
  BY <1>1, <1>2, <1>3 DEF P

LEMMA PlacesFacts ==
    ASSUME LifeTypes, NEW t \in Trials
    PROVE  Places(t) \in Nat \ {0}
<1>1. input.places[t] \in Nat \ {0} /\ input.reserve[t] \in Nat
  BY LifeAssumption DEF LifeTypes
<1> QED
  BY <1>1 DEF Places

\* A seat more: what it fills, whom it seats and what it leaves alone.
LEMMA AssignKeeps ==
    ASSUME LifeInv, NEW m \in Member, NEW t \in Trials, Assign(m, t), input' = input,
           HasRoom(t), Qualifies(m, t), m \notin input.missing
    PROVE  /\ rosters' \in [Trials -> Seq(Member)] /\ assigned' \in Seq(Member)
           /\ Listed(assigned') = Listed(assigned) \cup {m}
           /\ RostersFit'
           /\ \A n \in Member : n \in Listed(assigned') <=> \E u \in Trials : n \in Listed(rosters'[u])
           /\ \A n \in Member : n # m /\ SeatedOnce(n) => SeatedOnce(n)'
           /\ m \notin Listed(assigned) => SeatedOnce(m)'
           /\ m \in Listed(rosters'[t])
           /\ \A u \in Trials : Listed(rosters[u]) \subseteq Listed(rosters'[u])
<1> USE DEF LifeInv, LifeTypes
<1>1. /\ rosters[t] \in Seq(Member) /\ rosters' = [rosters EXCEPT ![t] = Append(rosters[t], m)]
      /\ rosters'[t] = Append(rosters[t], m) /\ \A u \in Trials \ {t} : rosters'[u] = rosters[u]
      /\ rosters' \in [Trials -> Seq(Member)]
  BY ListedFacts DEF Assign
<1>2. Listed(rosters'[t]) = Listed(rosters[t]) \cup {m}
  BY <1>1, ListedFacts
<1>3. assigned' \in Seq(Member) /\ Listed(assigned') = Listed(assigned) \cup {m}
  BY ListedFacts DEF Assign
<1>4. RostersFit'
  <2> SUFFICES ASSUME NEW u \in Trials
               PROVE  /\ Len(rosters'[u]) <= Places(u)
                      /\ \A n \in Listed(rosters'[u]) : Qualifies(n, u) /\ n \notin input.missing
    BY DEF RostersFit, Places, Qualifies
  <2>1. CASE u = t
    <3>1. Len(rosters'[t]) = Len(rosters[t]) + 1 /\ Len(rosters[t]) \in Nat
      BY <1>1, ListedFacts
    <3> QED
      BY <2>1, <3>1, <1>2, PlacesFacts DEF RostersFit, HasRoom
  <2>2. CASE u # t
    BY <2>2, <1>1 DEF RostersFit
  <2> QED
    BY <2>1, <2>2
<1>5. \A n \in Member : n \in Listed(assigned') <=> \E u \in Trials : n \in Listed(rosters'[u])
  <2>1. \A u \in Trials : Listed(rosters'[u]) = Listed(rosters[u]) \cup (IF u = t THEN {m} ELSE {})
    BY <1>1, <1>2
  <2> QED
    BY <2>1, <1>3 DEF SeatsAreKnown
<1> DEFINE last == Len(rosters[t]) + 1
<1>6. /\ DOMAIN rosters'[t] = DOMAIN rosters[t] \cup {last} /\ last \notin DOMAIN rosters[t]
      /\ rosters'[t][last] = m /\ \A k \in DOMAIN rosters[t] : rosters'[t][k] = rosters[t][k]
  BY <1>1, ListedFacts
<1> HIDE DEF last
<1>7. ASSUME NEW n \in Member, n # m, SeatedOnce(n)
      PROVE  SeatedOnce(n)'
  <2> SUFFICES ASSUME NEW u \in Trials, NEW v \in Trials,
                      NEW j \in DOMAIN rosters'[u], NEW k \in DOMAIN rosters'[v],
                      rosters'[u][j] = n, rosters'[v][k] = n
               PROVE  u = v /\ j = k
    BY DEF SeatedOnce
  <2>1. j \in DOMAIN rosters[u] /\ rosters[u][j] = n
    BY <1>1, <1>6, <1>7
  <2>2. k \in DOMAIN rosters[v] /\ rosters[v][k] = n
    BY <1>1, <1>6, <1>7
  <2> QED
    BY <2>1, <2>2, <1>7 DEF SeatedOnce
<1>8. ASSUME m \notin Listed(assigned)
      PROVE  SeatedOnce(m)'
  <2>1. \A u \in Trials : m \notin Listed(rosters[u])
    BY <1>8 DEF SeatsAreKnown
  <2>2. ASSUME NEW u \in Trials, NEW j \in DOMAIN rosters'[u], rosters'[u][j] = m
        PROVE  u = t /\ j = last
    <3>1. ~(j \in DOMAIN rosters[u] /\ rosters[u][j] = m)
      BY <2>1 DEF Listed
    <3> QED
      BY <3>1, <2>2, <1>1, <1>6
  <2> QED
    BY <2>2 DEF SeatedOnce
<1>9. \A u \in Trials : Listed(rosters[u]) \subseteq Listed(rosters'[u])
  BY <1>1, <1>2
<1> QED
  BY <1>1, <1>2, <1>3, <1>4, <1>5, <1>7, <1>8, <1>9

-----------------------------------------------------------------------------
(* The steps *)

LEMMA LifeInitInv == LifeInit => LifeInv
<1> SUFFICES ASSUME LifeInit
             PROVE  LifeInv
  OBVIOUS
<1>1. /\ input \in LifeInputs /\ rosters = [t \in Trials |-> <<>>] /\ assigned = <<>>
      /\ pinned = {} /\ phase = "pin" /\ pass.i = 1 /\ pass.j = 2
  BY DEF LifeInit
<1>2. Listed(assigned) = {} /\ \A t \in Trials : Listed(rosters[t]) = {} /\ rosters[t] = <<>>
  BY <1>1 DEF Listed
<1>3. LifeTypes
  BY <1>1, <1>2 DEF LifeTypes
<1>4. RostersFit
  <2>1. \A t \in Trials : Len(rosters[t]) = 0
    BY <1>2
  <2> QED
    BY <2>1, <1>2, <1>3, PlacesFacts DEF RostersFit
<1>5. SeatsAreKnown
  <2>1. \A t \in Trials : DOMAIN rosters[t] = {}
    BY <1>2
  <2> QED
    BY <2>1, <1>2 DEF SeatsAreKnown, SeatedOnce
<1>6. PinsStay
  <2>1. input.pins \in Seq([name : DOMAIN Fold, trial : Trials])
    BY <1>1, LifeAssumption
  <2>2. \A i \in DOMAIN input.pins : ~Done(i)
    BY <2>1, <1>1 DEF Done
  <2> QED
    BY <2>2, <1>1, <1>2 DEF PinsStay
<1> QED
  BY <1>1, <1>3, <1>4, <1>5, <1>6 DEF LifeInv

LEMMA PinKeeps == LifeInv /\ Pin => LifeInv'
<1> SUFFICES ASSUME LifeInv, Pin
             PROVE  LifeInv'
  OBVIOUS
<1> DEFINE i == pass.i
           pin == input.pins[i]
<1>1. /\ phase = "pin" /\ i \in DOMAIN input.pins /\ input' = input
      /\ pin \in [name : DOMAIN Fold, trial : Trials] /\ i \in Nat \ {0}
  <2>1. phase = "pin" /\ i \in DOMAIN input.pins /\ input' = input /\ i \in Nat \ {0}
    BY DEF Pin, LifeInv, LifeTypes
  <2> QED
    BY <2>1, PinFacts DEF LifeInv
<1>2. CASE Fails(pin) /\ phase' = "refused" /\ UNCHANGED <<rosters, assigned, pinned, pass>>
  <2>1. LifeTypes' /\ RostersFit' /\ SeatsAreKnown'
    BY <1>1, <1>2 DEF LifeInv, LifeTypes, RostersFit, SeatsAreKnown, SeatedOnce, PinnedTwice, Qualifies, Places
  <2>2. PinsStay'
    BY <1>1, <1>2 DEF LifeInv, PinsStay, Done
  <2> QED
    BY <2>1, <2>2, <1>2 DEF LifeInv
<1>3. CASE /\ ~Fails(pin) /\ Assign(First(pin), pin.trial) /\ pinned' = pinned \cup {First(pin)}
           /\ pass' = [pass EXCEPT !.i = @ + 1] /\ phase' = phase
  <2>0. PICK k \in Candidates : First(pin) = Names[k] /\ Fold[Names[k]] = Fold[pin.name]
    BY <1>3, FirstIsMeant DEF Fails
  <2>1. PICK m \in Member : m = First(pin) /\ m = Names[k]
    BY <2>0, CandidateFacts
  <2>2. /\ m \in Member /\ m \notin input.missing /\ Fold[m] = Fold[pin.name]
        /\ Qualifies(m, pin.trial) /\ HasRoom(pin.trial) /\ pin.trial \in Trials
    BY <2>0, <2>1, <1>1, <1>3, CandidateFacts DEF Fails
  <2>3. /\ rosters' \in [Trials -> Seq(Member)] /\ assigned' \in Seq(Member)
        /\ Listed(assigned') = Listed(assigned) \cup {m}
        /\ RostersFit'
        /\ \A n \in Member : n \in Listed(assigned') <=> \E u \in Trials : n \in Listed(rosters'[u])
        /\ \A n \in Member : n # m /\ SeatedOnce(n) => SeatedOnce(n)'
        /\ m \notin Listed(assigned) => SeatedOnce(m)'
        /\ m \in Listed(rosters'[pin.trial])
        /\ \A u \in Trials : Listed(rosters[u]) \subseteq Listed(rosters'[u])
    <3> DEFINE t == pin.trial
    <3>1. Assign(m, t) /\ t \in Trials /\ HasRoom(t) /\ Qualifies(m, t)
      BY <2>1, <2>2, <1>3
    <3> HIDE DEF t
    <3> QED
      BY <3>1, <2>2, <1>1, AssignKeeps DEF t
  <2>4. pass'.i = i + 1 /\ pass'.j = pass.j
    BY <1>3 DEF LifeInv, LifeTypes
  <2>5. LifeTypes'
    <3>1. pinned' \subseteq Listed(assigned')
      BY <2>1, <2>3, <1>3 DEF LifeInv, LifeTypes
    <3>2. pass'.i \in Nat \ {0} /\ pass'.j \in Nat
      BY <2>4, <1>1 DEF LifeInv, LifeTypes
    <3> QED
      BY <3>1, <3>2, <2>3, <1>1 DEF LifeInv, LifeTypes
  <2>6. SeatsAreKnown'
    <3> SUFFICES ASSUME NEW n \in Member
                 PROVE  SeatedOnce(n)' \/ (n \in pinned' /\ PinnedTwice(n)')
      BY <2>3 DEF SeatsAreKnown, Member
    <3>1. PinnedTwice(n)' <=> PinnedTwice(n)
      BY <1>1 DEF PinnedTwice
    <3>2. CASE n # m
      BY <3>1, <3>2, <2>3, <1>3 DEF LifeInv, SeatsAreKnown
    <3>3. CASE n = m /\ m \notin Listed(assigned)
      BY <3>3, <2>3
    <3>4. CASE n = m /\ m \in Listed(assigned)
      <4>1. PICK j \in DOMAIN input.pins : Done(j) /\ Fold[input.pins[j].name] = Fold[m]
        BY <3>4, <1>1 DEF LifeInv, PinsStay
      <4>2. j # i
        BY <4>1, <1>1 DEF Done
      <4>3. PinnedTwice(m)
        BY <4>1, <4>2, <1>1, <2>2 DEF PinnedTwice
      <4> QED
        BY <4>3, <3>4, <3>1, <1>3, <2>1
    <3> QED
      BY <3>2, <3>3, <3>4
  <2>7. PinsStay'
    <3>1. \A j \in DOMAIN input.pins : Done(j)' <=> Done(j) \/ j = i
      <4>1. input.pins \in Seq([name : DOMAIN Fold, trial : Trials])
        BY LifeAssumption DEF LifeInv, LifeTypes
      <4> QED
        BY <4>1, <2>4, <1>1, <1>3 DEF Done
    <3>2. \A j \in DOMAIN input.pins : First(input.pins[j])' = First(input.pins[j])
      BY <1>1 DEF First, Meant, Candidates, Qualifies
    <3>3. Listed(assigned') = pinned'
      BY <2>1, <2>3, <1>1, <1>3 DEF LifeInv, PinsStay
    <3>4. \A n \in pinned' : \E j \in DOMAIN input.pins : Done(j)' /\ Fold[input.pins[j].name] = Fold[n]
      BY <3>1, <2>1, <2>2, <1>1, <1>3 DEF LifeInv, PinsStay
    <3>5. ASSUME NEW j \in DOMAIN input.pins, Done(j)'
          PROVE  /\ First(input.pins[j]) \in pinned'
                 /\ First(input.pins[j]) \in Listed(rosters'[input.pins[j].trial])
      <4>1. input.pins[j].trial \in Trials
        BY PinFacts DEF LifeInv
      <4>2. CASE j = i
        BY <4>2, <2>1, <2>3, <1>3
      <4>3. CASE j # i
        <5>1. Done(j)
          BY <4>3, <3>1, <3>5
        <5>2. First(input.pins[j]) \in pinned /\ First(input.pins[j]) \in Listed(rosters[input.pins[j].trial])
          BY <5>1, <1>1 DEF LifeInv, PinsStay
        <5> QED
          BY <5>2, <4>1, <2>3, <1>3
      <4> QED
        BY <4>2, <4>3
    <3> QED
      BY <3>2, <3>3, <3>4, <3>5, <1>1 DEF PinsStay
  <2> QED
    BY <2>3, <2>5, <2>6, <2>7, <1>1, <1>3 DEF LifeInv
<1> QED
  BY <1>2, <1>3 DEF Pin

LEMMA StartKeeps == LifeInv /\ StartGreedy => LifeInv'
<1> SUFFICES ASSUME LifeInv, StartGreedy
             PROVE  LifeInv'
  OBVIOUS
<1>1. /\ phase = "pin" /\ phase' = "greedy" /\ UNCHANGED <<input, rosters, assigned, pinned>>
      /\ pass'.i = 1 /\ pass'.j = pass.j
  BY DEF StartGreedy, LifeInv, LifeTypes
<1>2. LifeTypes' /\ RostersFit' /\ SeatsAreKnown'
  BY <1>1 DEF LifeInv, LifeTypes, RostersFit, SeatsAreKnown, SeatedOnce, PinnedTwice, Qualifies, Places
<1>3. \A i \in DOMAIN input.pins : Done(i)
  <2>1. pass.i > Len(input.pins) /\ pass.i \in Nat
    BY DEF StartGreedy, LifeInv, LifeTypes
  <2>2. input.pins \in Seq([name : DOMAIN Fold, trial : Trials])
    BY LifeAssumption DEF LifeInv, LifeTypes
  <2> QED
    BY <2>1, <2>2 DEF Done
<1>4. \A i \in DOMAIN input.pins : First(input.pins[i])' = First(input.pins[i])
  BY <1>1 DEF First, Meant, Candidates, Qualifies
<1>5. PinsStay'
  BY <1>1, <1>3, <1>4 DEF LifeInv, PinsStay, Done
<1> QED
  BY <1>1, <1>2, <1>5 DEF LifeInv

LEMMA GreedyKeeps == LifeInv /\ Greedy => LifeInv'
<1> SUFFICES ASSUME LifeInv, Greedy
             PROVE  LifeInv'
  OBVIOUS
<1>1. phase = "greedy" /\ UNCHANGED <<input, pinned, pass>>
  BY DEF Greedy
<1>2. \A i \in DOMAIN input.pins : First(input.pins[i])' = First(input.pins[i])
  BY <1>1 DEF First, Meant, Candidates, Qualifies
<1>3. CASE phase' = phase /\ \E o \in Options : Assign(Names[o.k], o.t)
  <2>1. PICK o \in Options : Assign(Names[o.k], o.t)
    BY <1>3
  <2>2. PICK t \in Trials, k \in Candidates :
            /\ HasRoom(t) /\ Names[k] \notin Listed(assigned) /\ Qualifies(Names[k], t)
            /\ o.k = k /\ o.t = t
    BY DEF Options
  <2>3. PICK m \in Member : m = Names[k] /\ m \notin input.missing
    BY CandidateFacts
  <2>4. /\ rosters' \in [Trials -> Seq(Member)] /\ assigned' \in Seq(Member)
        /\ Listed(assigned') = Listed(assigned) \cup {m}
        /\ RostersFit'
        /\ \A n \in Member : n \in Listed(assigned') <=> \E u \in Trials : n \in Listed(rosters'[u])
        /\ \A n \in Member : n # m /\ SeatedOnce(n) => SeatedOnce(n)'
        /\ m \notin Listed(assigned) => SeatedOnce(m)'
        /\ \A u \in Trials : Listed(rosters[u]) \subseteq Listed(rosters'[u])
    <3>1. Assign(m, t) /\ HasRoom(t) /\ Qualifies(m, t)
      BY <2>1, <2>2, <2>3
    <3> QED
      BY <3>1, <2>3, <1>1, AssignKeeps
  <2>5. LifeTypes'
    BY <2>4, <1>1 DEF LifeInv, LifeTypes
  <2>6. SeatsAreKnown'
    <3> SUFFICES ASSUME NEW n \in Member
                 PROVE  SeatedOnce(n)' \/ (n \in pinned' /\ PinnedTwice(n)')
      BY <2>4 DEF SeatsAreKnown, Member
    <3>1. PinnedTwice(n)' <=> PinnedTwice(n)
      BY <1>1 DEF PinnedTwice
    <3> QED
      BY <3>1, <2>2, <2>3, <2>4, <1>1 DEF LifeInv, SeatsAreKnown
  <2>7. PinsStay'
    <3>1. \A i \in DOMAIN input.pins : input.pins[i].trial \in Trials
      BY PinFacts DEF LifeInv
    <3> QED
      BY <3>1, <2>4, <1>1, <1>2, <1>3 DEF LifeInv, PinsStay, Done
  <2> QED
    BY <2>4, <2>5, <2>6, <2>7, <1>1, <1>3 DEF LifeInv
<1>4. CASE phase' = "swap" /\ UNCHANGED <<rosters, assigned>>
  <2>1. LifeTypes' /\ RostersFit' /\ SeatsAreKnown'
    BY <1>1, <1>4 DEF LifeInv, LifeTypes, RostersFit, SeatsAreKnown, SeatedOnce, PinnedTwice, Qualifies, Places
  <2>2. PinsStay'
    BY <1>1, <1>2, <1>4 DEF LifeInv, PinsStay, Done
  <2> QED
    BY <2>1, <2>2, <1>1, <1>4 DEF LifeInv
<1> QED
  <2>1. (phase' = "swap" /\ UNCHANGED <<rosters, assigned>>)
           \/ (phase' = phase /\ \E o \in Options : Assign(Names[o.k], o.t))
    BY DEF Greedy
  <2> QED
    BY <2>1, <1>3, <1>4

\* findTrialForMember finds the trial of who has one seat.
LEMMA TrialOfOne ==
    ASSUME LifeTypes, NEW m \in Member, SeatedOnce(m), m \in Listed(assigned), SeatsAreKnown
    PROVE  \E t \in Trials : \E k \in DOMAIN rosters[t] :
               /\ TrialOf(m) = t /\ rosters[t][k] = m
               /\ \A u \in Trials : \A j \in DOMAIN rosters[u] : rosters[u][j] = m => u = t /\ j = k
<1>1. PICK t \in Trials : m \in Listed(rosters[t])
  BY DEF SeatsAreKnown
<1>2. PICK k \in DOMAIN rosters[t] : rosters[t][k] = m
  BY <1>1 DEF Listed
<1>3. \A u \in Trials : \A j \in DOMAIN rosters[u] : rosters[u][j] = m => u = t /\ j = k
  BY <1>2 DEF SeatedOnce
<1>4. {u \in Trials : m \in Listed(rosters[u])} = {t}
  BY <1>1, <1>3 DEF Listed
<1>5. TrialOf(m) = t
  <2>1. t <= t
    BY LifeAssumption
  <2> QED
    BY <1>4, <2>1 DEF TrialOf
<1> QED
  BY <1>2, <1>3, <1>5

LEMMA SwapInFacts ==
    ASSUME NEW r \in Seq(Member), NEW x \in Member, NEW y \in Member
    PROVE  /\ SwapIn(r, x, y) \in Seq(Member) /\ Len(SwapIn(r, x, y)) = Len(r)
           /\ DOMAIN SwapIn(r, x, y) = DOMAIN r
           /\ \A k \in DOMAIN r : SwapIn(r, x, y)[k] = IF r[k] = x THEN y ELSE r[k]
  BY DEF SwapIn

\* Two members who are not pinned change places: each had one seat and has the other's.
LEMMA SwapKeeps == LifeInv /\ Swap => LifeInv'
<1> SUFFICES ASSUME LifeInv, Swap
             PROVE  LifeInv'
  OBVIOUS
<1>1. /\ phase = "swap" /\ pass.j <= Len(assigned) /\ UNCHANGED <<input, assigned, pinned, phase>>
      /\ pass.i \in 1..Len(assigned) /\ pass.j \in 1..Len(assigned)
  BY DEF Swap, LifeInv, LifeTypes
<1>2. PICK a \in Member, b \in Member : a = assigned[pass.i] /\ b = assigned[pass.j]
  BY <1>1 DEF LifeInv, LifeTypes
<1>3. a \in Listed(assigned) /\ b \in Listed(assigned)
  BY <1>1, <1>2 DEF Listed, LifeInv, LifeTypes
<1>4. pass'.i \in Nat \ {0} /\ pass'.j \in Nat /\ pass'.i < pass'.j
  <2> DEFINE next == IF pass.j < Len(assigned) THEN [pass EXCEPT !.j = @ + 1]
                     ELSE [pass EXCEPT !.i = @ + 1, !.j = pass.i + 2]
  <2>1. pass' = [next EXCEPT !.improved = @ \/ (MayMove(a, b) /\ Helps(a, b))]
    BY <1>2 DEF Swap
  <2>2. pass'.i = next.i /\ pass'.j = next.j
    BY <2>1
  <2>3. next.i \in Nat \ {0} /\ next.j \in Nat /\ next.i < next.j
    BY <1>1 DEF LifeInv, LifeTypes
  <2> QED
    BY <2>2, <2>3
<1>5. \A i \in DOMAIN input.pins : First(input.pins[i])' = First(input.pins[i])
  BY <1>1 DEF First, Meant, Candidates, Qualifies
<1>6. \A n : PinnedTwice(n)' <=> PinnedTwice(n)
  BY <1>1 DEF PinnedTwice
<1>7. CASE ~(MayMove(a, b) /\ Helps(a, b))
  <2>1. rosters' = rosters
    BY <1>2, <1>7 DEF Swap
  <2>2. LifeTypes'
    BY <2>1, <1>1, <1>4 DEF LifeInv, LifeTypes
  <2>3. RostersFit' /\ SeatsAreKnown'
    BY <2>1, <1>1 DEF LifeInv, RostersFit, SeatsAreKnown, SeatedOnce, PinnedTwice, Qualifies, Places
  <2>4. PinsStay'
    BY <2>1, <1>1, <1>5 DEF LifeInv, PinsStay, Done
  <2> QED
    BY <2>2, <2>3, <2>4, <1>1, <1>4 DEF LifeInv
<1>8. CASE MayMove(a, b) /\ Helps(a, b)
  <2>1. /\ a \notin pinned /\ b \notin pinned /\ TrialOf(a) # TrialOf(b)
        /\ Qualifies(a, TrialOf(b)) /\ Qualifies(b, TrialOf(a))
        /\ SeatedOnce(a) /\ SeatedOnce(b) /\ rosters' = Swapped(a, b)
    BY <1>2, <1>8 DEF Swap, MayMove, LifeInv, SeatsAreKnown
  <2>2a. PICK t \in Trials : \E p \in DOMAIN rosters[t] :
            /\ TrialOf(a) = t /\ rosters[t][p] = a
            /\ \A v \in Trials : \A j \in DOMAIN rosters[v] : rosters[v][j] = a => v = t /\ j = p
    BY <2>1, <1>3, TrialOfOne DEF LifeInv
  <2>2. PICK p \in DOMAIN rosters[t] :
            /\ TrialOf(a) = t /\ rosters[t][p] = a
            /\ \A v \in Trials : \A j \in DOMAIN rosters[v] : rosters[v][j] = a => v = t /\ j = p
    BY <2>2a
  <2>3a. PICK u \in Trials : \E q \in DOMAIN rosters[u] :
            /\ TrialOf(b) = u /\ rosters[u][q] = b
            /\ \A v \in Trials : \A j \in DOMAIN rosters[v] : rosters[v][j] = b => v = u /\ j = q
    BY <2>1, <1>3, TrialOfOne DEF LifeInv
  <2>3. PICK q \in DOMAIN rosters[u] :
            /\ TrialOf(b) = u /\ rosters[u][q] = b
            /\ \A v \in Trials : \A j \in DOMAIN rosters[v] : rosters[v][j] = b => v = u /\ j = q
    BY <2>3a
  <2>4. t # u /\ a # b
    BY <2>1, <2>2, <2>3
  <2>5. \A v \in Trials :
           /\ rosters'[v] \in Seq(Member) /\ Len(rosters'[v]) = Len(rosters[v])
           /\ DOMAIN rosters'[v] = DOMAIN rosters[v]
           /\ \A k \in DOMAIN rosters[v] :
                 rosters'[v][k] = IF v = t /\ k = p THEN b ELSE IF v = u /\ k = q THEN a ELSE rosters[v][k]
    <3>1. rosters' = [rosters EXCEPT ![t] = SwapIn(rosters[t], a, b), ![u] = SwapIn(rosters[u], b, a)]
      BY <2>1, <2>2, <2>3, <2>4 DEF Swapped, LifeInv, LifeTypes
    <3>2. /\ rosters'[t] = SwapIn(rosters[t], a, b) /\ rosters'[u] = SwapIn(rosters[u], b, a)
          /\ \A v \in Trials : v # t /\ v # u => rosters'[v] = rosters[v]
      BY <3>1, <2>4 DEF LifeInv, LifeTypes
    <3>4. \A v \in Trials : rosters[v] \in Seq(Member)
      BY DEF LifeInv, LifeTypes
    <3>5. \A k \in DOMAIN rosters[t] : (rosters[t][k] = a <=> k = p) /\ rosters[t][k] # b
      BY <2>2, <2>3, <2>4
    <3>6. \A k \in DOMAIN rosters[u] : (rosters[u][k] = b <=> k = q) /\ rosters[u][k] # a
      BY <2>2, <2>3, <2>4
    <3> SUFFICES ASSUME NEW v \in Trials
                 PROVE  /\ rosters'[v] \in Seq(Member) /\ Len(rosters'[v]) = Len(rosters[v])
                        /\ DOMAIN rosters'[v] = DOMAIN rosters[v]
                        /\ \A k \in DOMAIN rosters[v] : rosters'[v][k] =
                              IF v = t /\ k = p THEN b ELSE IF v = u /\ k = q THEN a ELSE rosters[v][k]
      OBVIOUS
    <3>7. CASE v = t
      <4>1. rosters'[t] = SwapIn(rosters[t], a, b) /\ rosters[t] \in Seq(Member)
        BY <3>2, <3>4
      <4> DEFINE r == rosters[t]
      <4>0. r \in Seq(Member)
        BY <4>1
      <4> HIDE DEF r
      <4>3. /\ SwapIn(r, a, b) \in Seq(Member) /\ Len(SwapIn(r, a, b)) = Len(r)
            /\ DOMAIN SwapIn(r, a, b) = DOMAIN r
            /\ \A k \in DOMAIN r : SwapIn(r, a, b)[k] = IF r[k] = a THEN b ELSE r[k]
        BY <4>0, SwapInFacts
      <4>2. /\ rosters'[t] \in Seq(Member) /\ Len(rosters'[t]) = Len(rosters[t])
            /\ DOMAIN rosters'[t] = DOMAIN rosters[t]
            /\ \A k \in DOMAIN rosters[t] : rosters'[t][k] = IF rosters[t][k] = a THEN b ELSE rosters[t][k]
        BY <4>1, <4>3 DEF r
      <4> QED
        BY <4>2, <3>5, <3>7, <2>4
    <3>8. CASE v = u
      <4>1. rosters'[u] = SwapIn(rosters[u], b, a) /\ rosters[u] \in Seq(Member)
        BY <3>2, <3>4
      <4> DEFINE r == rosters[u]
      <4>0. r \in Seq(Member)
        BY <4>1
      <4> HIDE DEF r
      <4>3. /\ SwapIn(r, b, a) \in Seq(Member) /\ Len(SwapIn(r, b, a)) = Len(r)
            /\ DOMAIN SwapIn(r, b, a) = DOMAIN r
            /\ \A k \in DOMAIN r : SwapIn(r, b, a)[k] = IF r[k] = b THEN a ELSE r[k]
        BY <4>0, SwapInFacts
      <4>2. /\ rosters'[u] \in Seq(Member) /\ Len(rosters'[u]) = Len(rosters[u])
            /\ DOMAIN rosters'[u] = DOMAIN rosters[u]
            /\ \A k \in DOMAIN rosters[u] : rosters'[u][k] = IF rosters[u][k] = b THEN a ELSE rosters[u][k]
        BY <4>1, <4>3 DEF r
      <4> QED
        BY <4>2, <3>6, <3>8, <2>4
    <3>9. CASE v # t /\ v # u
      BY <3>9, <3>2, <3>4
    <3> QED
      BY <3>7, <3>8, <3>9
  <2>6. LifeTypes'
    <3>1. rosters' \in [Trials -> Seq(Member)]
      BY <2>1, <2>5 DEF Swapped, LifeInv, LifeTypes
    <3> QED
      BY <3>1, <1>1, <1>4 DEF LifeInv, LifeTypes
  <2>7. \A v \in Trials : \A n \in Member : n \in Listed(rosters'[v]) <=>
           \/ n = b /\ v = t
           \/ n = a /\ v = u
           \/ n \in Listed(rosters[v]) /\ n # a /\ n # b
    BY <2>2, <2>3, <2>4, <2>5 DEF Listed
  <2>8. RostersFit'
    <3>1. a \notin input.missing /\ b \notin input.missing
      <4>1. a \in Listed(rosters[t]) /\ b \in Listed(rosters[u])
        BY <2>2, <2>3 DEF Listed
      <4> QED
        BY <4>1 DEF LifeInv, RostersFit
    <3>2. \A v \in Trials : Listed(rosters'[v]) \subseteq Member
      BY <2>5 DEF Listed
    <3>3. \A v \in Trials : Places(v)' = Places(v) /\ \A n \in Member : Qualifies(n, v)' <=> Qualifies(n, v)
      BY <1>1 DEF Places, Qualifies
    <3> QED
      <4> SUFFICES ASSUME NEW v \in Trials
                   PROVE  /\ Len(rosters'[v]) <= Places(v)
                          /\ \A n \in Listed(rosters'[v]) : Qualifies(n, v) /\ n \notin input.missing
        BY <3>2, <3>3, <1>1 DEF RostersFit
      <4>1. Len(rosters'[v]) <= Places(v)
        BY <2>5 DEF LifeInv, RostersFit
      <4>2. ASSUME NEW n \in Listed(rosters'[v])
            PROVE  Qualifies(n, v) /\ n \notin input.missing
        <5>1. CASE n = b /\ v = t
          BY <5>1, <3>1, <2>1, <2>2
        <5>2. CASE n = a /\ v = u
          BY <5>2, <3>1, <2>1, <2>3
        <5>3. CASE n \in Listed(rosters[v])
          BY <5>3 DEF LifeInv, RostersFit
        <5> QED
          BY <5>1, <5>2, <5>3, <4>2, <3>2, <2>7
      <4> QED
        BY <4>1, <4>2
  <2>9. SeatsAreKnown'
    <3>1. \A n \in Member : (\E v \in Trials : n \in Listed(rosters'[v])) <=> n \in Listed(assigned)
      BY <2>2, <2>3, <2>4, <2>7, <1>3 DEF LifeInv, SeatsAreKnown
    <3>2. SeatedOnce(a)' /\ SeatedOnce(b)'
      <4>1. ASSUME NEW v \in Trials, NEW k \in DOMAIN rosters'[v]
            PROVE  /\ rosters'[v][k] = a => v = u /\ k = q
                   /\ rosters'[v][k] = b => v = t /\ k = p
        BY <4>1, <2>2, <2>3, <2>4, <2>5
      <4> QED
        BY <4>1 DEF SeatedOnce
    <3>3. \A n \in Member : n # a /\ n # b /\ SeatedOnce(n) => SeatedOnce(n)'
      BY <2>4, <2>5 DEF SeatedOnce
    <3> QED
      BY <3>1, <3>2, <3>3, <1>1, <1>6 DEF LifeInv, SeatsAreKnown
  <2>10. PinsStay'
    <3> SUFFICES ASSUME NEW i \in DOMAIN input.pins, Done(i)
                 PROVE  First(input.pins[i]) \in Listed(rosters'[input.pins[i].trial])
      BY <1>1, <1>5 DEF LifeInv, PinsStay, Done
    <3>1. input.pins[i].trial \in Trials
      BY PinFacts DEF LifeInv
    <3>2. First(input.pins[i]) \in pinned /\ First(input.pins[i]) \in Listed(rosters[input.pins[i].trial])
      BY <1>1 DEF LifeInv, PinsStay
    <3>3. First(input.pins[i]) \in Member
      BY <3>1, <3>2 DEF LifeInv, LifeTypes, Listed
    <3> QED
      BY <3>1, <3>2, <3>3, <2>1, <2>7
  <2> QED
    BY <2>6, <2>8, <2>9, <2>10, <1>1, <1>4 DEF LifeInv
<1> QED
  BY <1>7, <1>8

LEMMA EndPassKeeps == LifeInv /\ EndPass => LifeInv'
<1> SUFFICES ASSUME LifeInv, EndPass
             PROVE  LifeInv'
  OBVIOUS
<1>1. /\ phase = "swap" /\ phase' \in {"swap", "done"} /\ UNCHANGED <<input, rosters, assigned, pinned>>
      /\ pass'.i = 1 /\ pass'.j = 2
  BY DEF EndPass
<1>2. LifeTypes' /\ RostersFit' /\ SeatsAreKnown'
  BY <1>1 DEF LifeInv, LifeTypes, RostersFit, SeatsAreKnown, SeatedOnce, PinnedTwice, Qualifies, Places
<1>3. \A i \in DOMAIN input.pins : First(input.pins[i])' = First(input.pins[i])
  BY <1>1 DEF First, Meant, Candidates, Qualifies
<1>4. PinsStay'
  BY <1>1, <1>3 DEF LifeInv, PinsStay, Done
<1> QED
  BY <1>1, <1>2, <1>4 DEF LifeInv

LEMMA LifeNextInv == LifeInv /\ [LifeNext]_lifeVars => LifeInv'
<1> SUFFICES ASSUME LifeInv, [LifeNext]_lifeVars
             PROVE  LifeInv'
  OBVIOUS
<1>1. CASE UNCHANGED lifeVars
  <2>1. LifeTypes' /\ RostersFit' /\ SeatsAreKnown'
    BY <1>1 DEF lifeVars, LifeInv, LifeTypes, RostersFit, SeatsAreKnown, SeatedOnce, PinnedTwice, Qualifies, Places
  <2>2. \A i \in DOMAIN input.pins : First(input.pins[i])' = First(input.pins[i])
    BY <1>1 DEF lifeVars, First, Meant, Candidates, Qualifies
  <2>3. PinsStay'
    BY <1>1, <2>2 DEF lifeVars, LifeInv, PinsStay, Done
  <2> QED
    BY <1>1, <2>1, <2>3 DEF lifeVars, LifeInv
<1> QED
  BY <1>1, PinKeeps, StartKeeps, GreedyKeeps, SwapKeeps, EndPassKeeps DEF LifeNext

\* Whatever the members' skills, the reserves and the pins: what the optimizer is about to
\* answer is legal at every step.
THEOREM AssignmentIsLegalHolds == LifeSpec => []AssignmentIsLegal
<1>1. LifeInv => AssignmentIsLegal
  <2> SUFFICES ASSUME LifeInv
               PROVE  AssignmentIsLegal
    OBVIOUS
  <2>1. \A t \in Trials : /\ Len(rosters[t]) <= Places(t)
                         /\ \A m \in Listed(rosters[t]) : Qualifies(m, t) /\ m \notin input.missing
    BY DEF LifeInv, RostersFit
  <2>2. \A m \in Listed(Names) :
           /\ m \in Listed(assigned) <=> \E t \in Trials : m \in Listed(rosters[t])
           /\ SeatedOnce(m) \/ PinnedTwice(m)
    BY DEF LifeInv, SeatsAreKnown, Member
  <2>3. phase \in {"greedy", "swap", "done"} =>
           \A i \in DOMAIN input.pins : First(input.pins[i]) \in Listed(rosters[input.pins[i].trial])
    BY DEF LifeInv, PinsStay, Done
  <2> QED
    BY <2>1, <2>2, <2>3 DEF AssignmentIsLegal
<1> QED
  BY <1>1, LifeInitInv, LifeNextInv, PTL DEF LifeSpec

-----------------------------------------------------------------------------
(* Unique auras: the pruned search finds the best allocation *)

\* What a function makes of a finite set is finite.
LEMMA ImageIsFinite ==
    ASSUME NEW S, IsFiniteSet(S), NEW f
    PROVE  IsFiniteSet({f[x] : x \in S})
<1> DEFINE T == {f[x] : x \in S}
           g == [x \in S |-> f[x]]
<1>1. g \in Surjection(S, T)
  BY DEF Surjection
<1> HIDE DEF g
<1> QED
  BY <1>1, FS_Surjection

\* What a call of visit tries for an aura: nobody, then its candidates.
ToTry(a) == candidates[a] \cup {Nobody}
AnyChoice == UNION {ToTry(a) : a \in Auras}

\* Of two choices for an aura the one that is tried first.
TriedBefore(a, x, y) == y # Nobody /\ (x = Nobody \/ Sooner(a, x.member, y.member))

\* The allocation agrees with the path.
Follows(c) == \A k \in DOMAIN path : path[k] = c[order[k]]

\* Where it leaves the path, it leaves it for a choice that has been tried before.
Passed(c) ==
    \E k \in DOMAIN path :
        /\ \A j \in DOMAIN path : j < k => path[j] = c[order[j]]
        /\ TriedBefore(order[k], c[order[k]], path[k])

SearchTypes ==
    /\ shown \in AuraInputs /\ candidates = [a \in Auras |-> CandidatesFor(a)]
    /\ order \in Seq(Auras) /\ \A a \in Auras : \E k \in DOMAIN order : order[k] = a
    /\ \A i, j \in DOMAIN order : order[i] = order[j] => i = j
    /\ path \in Seq(AnyChoice) /\ Len(path) <= Len(order)
    /\ \A k \in DOMAIN path : path[k] \in ToTry(order[k])
    /\ \A i, j \in DOMAIN path : i # j /\ path[i] # Nobody => path[i].member # path[j].member
    /\ step \in {"enter", "return", "done"} /\ (step = "done" => path = <<>>)
    /\ best # Unset => best \in Allocations

\* No allocation that the search has behind it is better than the best.
SearchInv ==
    /\ SearchTypes
    /\ \A c \in Allocations :
         Passed(c) \/ (step # "enter" /\ Follows(c)) =>
             best # Unset /\ (c = best \/ IsBetter(best, c))

-----------------------------------------------------------------------------
\* Roles have four ranks.
LEMMA RolePriorityType == \A r : RolePriority(r) \in 0..3
  BY DEF RolePriority

\* A candidate is a registered member with a level for the aura, once.
LEMMA CandidatesAre ==
    ASSUME SearchTypes, NEW a \in Auras
    PROVE  /\ \A c \in candidates[a] : /\ c.member \in Registered /\ c.member \in Nat \ {0}
                                       /\ c.level = shown[c.member].level[a]
                                       /\ c.level \in Nat \ {0} /\ c # Nobody
           /\ \A c, d \in candidates[a] : c.member = d.member => c = d
           /\ IsFiniteSet(candidates[a])
<1>1. candidates[a] = CandidatesFor(a)
  BY DEF SearchTypes
<1>2. \A m \in Registered : shown[m].level[a] \in Nat /\ m \in Nat \ {0}
  BY AuraAssumption DEF SearchTypes
<1>3. \A c \in candidates[a] : c.member \in Registered /\ c.level > 0
                               /\ c = [member |-> c.member, level |-> shown[c.member].level[a]]
  BY <1>1 DEF CandidatesFor
<1>4. IsFiniteSet(candidates[a])
  <2> DEFINE able == {n \in Registered \ (UnknownMembers \cup MissingSnapshots) : shown[n].level[a] > 0}
             row(m) == [member |-> m, level |-> shown[m].level[a]]
  <2>1. IsFiniteSet(able)
    BY AuraAssumption, FS_Subset
  <2> DEFINE rows == [m \in able |-> row(m)]
  <2>2. IsFiniteSet({rows[m] : m \in able})
    <3> HIDE DEF able, rows
    <3> QED
      BY <2>1, ImageIsFinite
  <2>3. {rows[m] : m \in able} = CandidatesFor(a)
    BY DEF CandidatesFor
  <2> QED
    BY <1>1, <2>2, <2>3
<1> QED
  BY <1>2, <1>3, <1>4 DEF Nobody

\* Nobody is none of the members.
LEMMA NobodyIs == Nobody.member = 0 /\ Nobody.level = 0
  BY DEF Nobody

\* The candidates of an aura are tried one after the other.
LEMMA SoonerIsAnOrder ==
    ASSUME SearchTypes, NEW a \in Auras,
           NEW m \in Registered, NEW n \in Registered, NEW p \in Registered
    PROVE  /\ ~Sooner(a, m, m)
           /\ m # n => Sooner(a, m, n) \/ Sooner(a, n, m)
           /\ Sooner(a, m, n) /\ Sooner(a, n, p) => Sooner(a, m, p)
<1> DEFINE l(x) == shown[x].level[a]
           r(x) == RolePriority(shown[x].role)
<1>1. \A x \in Registered : l(x) \in Nat /\ r(x) \in Int /\ x \in Nat
  <2>1. \A x \in Registered : l(x) \in Nat /\ x \in Nat
    BY AuraAssumption DEF SearchTypes
  <2>2. \A x \in Registered : r(x) \in Int
    BY RolePriorityType
  <2> QED
    BY <2>1, <2>2
<1>2. \A x, y \in Registered : Sooner(a, x, y) <=>
         l(x) > l(y) \/ (l(x) = l(y) /\ (r(x) < r(y) \/ (r(x) = r(y) /\ x < y)))
  BY DEF Sooner
<1> HIDE DEF l, r
<1> QED
  BY <1>1, <1>2

\* What a call of visit tries, it tries one after the other.
LEMMA TriedBeforeIsAnOrder ==
    ASSUME SearchTypes, NEW a \in Auras,
           NEW x \in ToTry(a), NEW y \in ToTry(a), NEW z \in ToTry(a)
    PROVE  /\ ~TriedBefore(a, x, x) /\ ~TriedBefore(a, x, Nobody)
           /\ x # y => TriedBefore(a, x, y) \/ TriedBefore(a, y, x)
           /\ TriedBefore(a, x, y) /\ TriedBefore(a, y, z) => TriedBefore(a, x, z)
<1>1. \A c \in candidates[a] : c.member \in Registered /\ c # Nobody
  BY CandidatesAre
<1>2. \A c, d \in candidates[a] : c # d => c.member # d.member
  BY CandidatesAre
<1> QED
  BY <1>1, <1>2, SoonerIsAnOrder DEF TriedBefore, ToTry

\* An allocation gives each aura nobody or one of its candidates, and nobody two.
LEMMA AllocationFacts ==
    ASSUME SearchTypes, NEW x \in Allocations
    PROVE  /\ x # Unset /\ DOMAIN x = Auras
           /\ \A a \in Auras : /\ x[a] \in ToTry(a) /\ x[a].member \in Nat /\ x[a].level \in Nat
                               /\ x[a] # Nobody => x[a].member # 0
           /\ \A a, b \in Auras : a # b /\ x[a] # Nobody => x[a].member # x[b].member
           /\ x \in [Auras -> AnyChoice]
<1>1. \A a \in Auras : x[a] \in ToTry(a)
  BY DEF Allocations, ToTry
<1>2. DOMAIN x = Auras /\ x = [a \in Auras |-> x[a]]
  BY DEF Allocations
<1>3. x # Unset
  BY <1>2, AuraAssumption DEF Unset
<1>4. \A a \in Auras : x[a].member \in Nat /\ x[a].level \in Nat /\ (x[a] # Nobody => x[a].member # 0)
  BY <1>1, CandidatesAre, NobodyIs DEF ToTry
<1>5. x \in [Auras -> AnyChoice]
  BY <1>1, <1>2 DEF AnyChoice
<1> QED
  BY <1>1, <1>2, <1>3, <1>4, <1>5 DEF Allocations

\* What possible choices may cover.
Points(possible) == UNION {{a} \X UNION {1..c.level : c \in possible[a]} : a \in Auras}

\* Levels are counted over finite sets.
LEMMA PointsAreFinite ==
    ASSUME SearchTypes, NEW f, \A a \in Auras : f[a] \subseteq candidates[a]
    PROVE  /\ IsFiniteSet(Points(f)) /\ Total(f) = Cardinality(Points(f))
           /\ Total(f) \in Nat
           /\ IsFiniteSet({a \in Auras : f[a] # {}}) /\ Covered(f) \in Nat
<1> DEFINE levels(a) == UNION {1..c.level : c \in f[a]}
           steps(a) == {a} \X levels(a)
<1>1. ASSUME NEW a \in Auras PROVE IsFiniteSet(steps(a))
  <2>1. IsFiniteSet(f[a])
    BY CandidatesAre, FS_Subset
  <2>2. ASSUME NEW c \in f[a] PROVE IsFiniteSet(1..c.level)
    <3>1. c.level \in Int /\ 1 \in Int
      BY CandidatesAre
    <3> QED
      BY <3>1, FS_Interval
  <2> DEFINE up == [c \in f[a] |-> 1..c.level]
             ups == {up[c] : c \in f[a]}
  <2>3. IsFiniteSet(ups)
    <3> HIDE DEF up
    <3> QED
      BY <2>1, ImageIsFinite
  <2>4. \A s \in ups : IsFiniteSet(s)
    BY <2>2
  <2>5. IsFiniteSet(UNION ups)
    <3> HIDE DEF ups
    <3> QED
      BY <2>3, <2>4, FS_UNION
  <2>6. IsFiniteSet({a})
    BY FS_Singleton
  <2>7. IsFiniteSet(levels(a))
    <3>1. levels(a) = UNION ups
      OBVIOUS
    <3> QED
      BY <2>5, <3>1
  <2> HIDE DEF levels
  <2> QED
    BY <2>6, <2>7, FS_Product
<1> DEFINE stairs == [a \in Auras |-> steps(a)]
           all == {stairs[a] : a \in Auras}
<1>2. IsFiniteSet(all)
  <2>1. IsFiniteSet(Auras)
    BY AuraAssumption
  <2> HIDE DEF stairs
  <2> QED
    BY <2>1, ImageIsFinite
<1>3. \A s \in all : IsFiniteSet(s)
  BY <1>1
<1>4. IsFiniteSet(UNION all)
  <2> HIDE DEF all
  <2> QED
    BY <1>2, <1>3, FS_UNION
<1>5. IsFiniteSet(Points(f)) /\ Total(f) = Cardinality(Points(f))
  <2>1. Points(f) = UNION all
    BY DEF Points
  <2> QED
    BY <1>4, <2>1 DEF Points, Total
<1>6. IsFiniteSet({a \in Auras : f[a] # {}})
  BY AuraAssumption, FS_Subset
<1> QED
  BY <1>5, <1>6, FS_CardinalityType DEF Covered

\* Who has more to choose from covers as many auras with as many levels.
LEMMA MoreIsPossible ==
    ASSUME SearchTypes, NEW f, NEW g,
           \A a \in Auras : f[a] \subseteq g[a] /\ g[a] \subseteq candidates[a]
    PROVE  Covered(f) <= Covered(g) /\ Total(f) <= Total(g)
<1>1. \A a \in Auras : f[a] \subseteq candidates[a]
  OBVIOUS
<1>2. Points(f) \subseteq Points(g)
  BY DEF Points
<1>3. {a \in Auras : f[a] # {}} \subseteq {a \in Auras : g[a] # {}}
  OBVIOUS
<1>4. IsFiniteSet(Points(g)) /\ IsFiniteSet({a \in Auras : g[a] # {}})
      /\ Total(f) = Cardinality(Points(f)) /\ Total(g) = Cardinality(Points(g))
  BY <1>1, PointsAreFinite
<1>5. Cardinality(Points(f)) <= Cardinality(Points(g))
  BY <1>2, <1>4, FS_Subset
<1>6. Covered(f) <= Covered(g)
  BY <1>3, <1>4, FS_Subset DEF Covered
<1> QED
  BY <1>4, <1>5, <1>6

\* An allocation's own candidates are among all.
LEMMA OwnIsPossible ==
    ASSUME SearchTypes, NEW x \in Allocations
    PROVE  /\ \A a \in Auras : Own(x)[a] \subseteq candidates[a]
           /\ Covered(Own(x)) \in Nat /\ Total(Own(x)) \in Nat /\ Minimum(x) \in Nat
<1>1. \A a \in Auras : Own(x)[a] \subseteq candidates[a]
  BY AllocationFacts DEF Own, ToTry
<1>2. Covered(Own(x)) \in Nat /\ Total(Own(x)) \in Nat
  BY <1>1, PointsAreFinite
<1> DEFINE levels == {x[a].level : a \in Auras} \ {0}
<1>3. levels \subseteq Nat
  BY AllocationFacts
<1>4. levels # {} => (CHOOSE l \in levels : \A k \in levels : l <= k) \in Nat
  <2> HIDE DEF levels
  <2> QED
    BY <1>3, LeastOf
<1>5. Minimum(x) \in Nat
  BY <1>4 DEF Minimum
<1> QED
  BY <1>1, <1>2, <1>5

\* The tie tells any two allocations apart, always the same way.
LEMMA TieIsAnOrder ==
    ASSUME SearchTypes, NEW x \in Allocations, NEW y \in Allocations, NEW z \in Allocations
    PROVE  /\ x # y => TieBefore(x, y) \/ TieBefore(y, x)
           /\ TieBefore(x, y) /\ TieBefore(y, z) => TieBefore(x, z)
<1>0. /\ \A a \in Auras : a \in Nat
      /\ \A a \in Auras : x[a].member \in Nat /\ y[a].member \in Nat /\ z[a].member \in Nat
  BY AllocationFacts, AuraAssumption
<1>1. ASSUME x # y PROVE TieBefore(x, y) \/ TieBefore(y, x)
  <2> DEFINE differ == {a \in Auras : x[a].member # y[a].member}
  <2>1. PICK a \in Auras : x[a] # y[a]
    BY <1>1, AllocationFacts
  <2>2. x[a].member # y[a].member
    BY <2>1, AllocationFacts, CandidatesAre, NobodyIs DEF ToTry
  <2>3. differ # {} /\ differ \subseteq Nat
    BY <1>0, <2>2
  <2>4. PICK b \in differ : \A d \in differ : b <= d
    <3> HIDE DEF differ
    <3> QED
      BY <2>3, LeastOf
  <2>5. \A d \in Auras : d < b => x[d].member = y[d].member
    BY <1>0, <2>4
  <2>6. b \in Auras /\ x[b].member # y[b].member
    BY <2>4
  <2> QED
    BY <1>0, <2>5, <2>6 DEF TieBefore
<1>2. ASSUME TieBefore(x, y), TieBefore(y, z) PROVE TieBefore(x, z)
  <2>1. PICK a \in Auras :
           /\ \A b \in Auras : b < a => x[b].member = y[b].member
           /\ x[a].member # 0 /\ (y[a].member = 0 \/ x[a].member < y[a].member)
    BY <1>2 DEF TieBefore
  <2>2. PICK d \in Auras :
           /\ \A b \in Auras : b < d => y[b].member = z[b].member
           /\ y[d].member # 0 /\ (z[d].member = 0 \/ y[d].member < z[d].member)
    BY <1>2 DEF TieBefore
  <2>3. CASE a < d
    <3>1. \A b \in Auras : b < a => x[b].member = z[b].member
      BY <1>0, <2>1, <2>2, <2>3
    <3>2. y[a].member = z[a].member
      BY <2>2, <2>3
    <3> QED
      BY <2>1, <3>1, <3>2 DEF TieBefore
  <2>4. CASE d < a
    <3>1. \A b \in Auras : b < d => x[b].member = z[b].member
      BY <1>0, <2>1, <2>2, <2>4
    <3>2. x[d].member = y[d].member
      BY <2>1, <2>4
    <3> QED
      BY <2>2, <3>1, <3>2 DEF TieBefore
  <2>5. CASE a = d
    <3>1. \A b \in Auras : b < a => x[b].member = z[b].member
      BY <2>1, <2>2, <2>5
    <3>2. x[a].member # 0 /\ (z[a].member = 0 \/ x[a].member < z[a].member)
      BY <1>0, <2>1, <2>2, <2>5
    <3> QED
      BY <3>1, <3>2 DEF TieBefore
  <2> QED
    BY <1>0, <2>3, <2>4, <2>5
<1> QED
  BY <1>1, <1>2

\* isBetter tells any two allocations apart, always the same way.
LEMMA BetterAllocations ==
    ASSUME SearchTypes, NEW x \in Allocations, NEW y \in Allocations, NEW z \in Allocations
    PROVE  /\ x = y \/ IsBetter(x, y) \/ IsBetter(y, x)
           /\ IsBetter(x, y) /\ IsBetter(y, z) => IsBetter(x, z)
<1> DEFINE c(f) == Covered(Own(f))
           t(f) == Total(Own(f))
<1>1. \A f \in {x, y, z} : c(f) \in Nat /\ t(f) \in Nat /\ Minimum(f) \in Nat
  BY OwnIsPossible
<1>2. \A f, g \in {x, y, z} :
         IsBetter(f, g) <=>
            \/ c(f) > c(g)
            \/ c(f) = c(g) /\ t(f) > t(g)
            \/ c(f) = c(g) /\ t(f) = t(g) /\ Minimum(f) > Minimum(g)
            \/ c(f) = c(g) /\ t(f) = t(g) /\ Minimum(f) = Minimum(g) /\ TieBefore(f, g)
  BY AllocationFacts DEF IsBetter
<1>3. /\ x # y => TieBefore(x, y) \/ TieBefore(y, x)
      /\ TieBefore(x, y) /\ TieBefore(y, z) => TieBefore(x, z)
  BY TieIsAnOrder
<1> HIDE DEF c, t
<1> QED
  BY <1>1, <1>2, <1>3

-----------------------------------------------------------------------------
\* Each aura has one place in the order, and the path is a part of it.
LEMMA PlacesOfAuras ==
    ASSUME SearchTypes
    PROVE  /\ \A a \in Auras : Place(a) \in DOMAIN order /\ order[Place(a)] = a
           /\ \A k \in DOMAIN order : order[k] \in Auras /\ Place(order[k]) = k /\ k \in Nat
           /\ DOMAIN order = 1..Len(order) /\ Len(order) \in Nat
           /\ DOMAIN path = 1..Len(path) /\ Len(path) \in Nat /\ DOMAIN path \subseteq DOMAIN order
<1>1. \A a \in Auras : Place(a) \in DOMAIN order /\ order[Place(a)] = a
  BY DEF Place, SearchTypes
<1>2. \A k \in DOMAIN order : order[k] \in Auras /\ k \in Nat
  BY DEF SearchTypes
<1>3. DOMAIN order = 1..Len(order) /\ Len(order) \in Nat
      /\ DOMAIN path = 1..Len(path) /\ Len(path) \in Nat /\ Len(path) <= Len(order)
  BY DEF SearchTypes
<1>4. \A k \in DOMAIN order : Place(order[k]) = k
  BY <1>1, <1>2 DEF SearchTypes
<1> QED
  BY <1>1, <1>2, <1>3, <1>4

\* Who follows the path is within what the bound counts.
LEMMA BoundHolds ==
    ASSUME SearchTypes, NEW c \in Allocations, Follows(c)
    PROVE  Covered(Own(c)) <= Bound.covered /\ Total(Own(c)) <= Bound.total
           /\ Bound.covered \in Nat /\ Bound.total \in Nat
<1>1. ASSUME NEW a \in Auras PROVE Own(c)[a] \subseteq Possible[a] /\ Possible[a] \subseteq candidates[a]
  <2>1. CASE Place(a) \in DOMAIN path
    <3>1. path[Place(a)] = c[a] /\ path[Place(a)] \in ToTry(a)
      BY <2>1, PlacesOfAuras DEF Follows, SearchTypes
    <3> QED
      BY <2>1, <3>1 DEF Own, Possible, ToTry
  <2>2. CASE Place(a) \notin DOMAIN path
    <3>1. ASSUME c[a] # Nobody PROVE c[a] \in candidates[a] /\ c[a].member \notin Used(path)
      <4>1. \A k \in DOMAIN path : path[k].member = c[order[k]].member /\ order[k] # a /\ order[k] \in Auras
        BY <2>2, PlacesOfAuras DEF Follows
      <4> QED
        BY <3>1, <4>1, AllocationFacts DEF Used, ToTry
    <3> QED
      BY <2>2, <3>1 DEF Own, Possible
  <2> QED
    BY <2>1, <2>2
<1>2. Covered(Own(c)) <= Covered(Possible) /\ Total(Own(c)) <= Total(Possible)
  BY <1>1, MoreIsPossible
<1>3. Covered(Possible) \in Nat /\ Total(Possible) \in Nat
  BY <1>1, PointsAreFinite
<1> QED
  BY <1>2, <1>3 DEF Bound

\* A branch that is left holds no allocation as good as the best so far.
LEMMA PrunedIsWorse ==
    ASSUME SearchTypes, Pruned, NEW c \in Allocations, Follows(c)
    PROVE  best # Unset /\ IsBetter(best, c)
<1>1. best \in Allocations /\ best # Unset
  BY DEF Pruned, SearchTypes
<1>2. /\ Covered(Own(best)) \in Nat /\ Total(Own(best)) \in Nat
      /\ Covered(Own(c)) \in Nat /\ Total(Own(c)) \in Nat
  BY <1>1, OwnIsPossible
<1>3. \/ Bound.covered < Covered(Own(best))
      \/ Bound.covered = Covered(Own(best)) /\ Bound.total < Total(Own(best))
  BY DEF Pruned
<1>4. \/ Covered(Own(best)) > Covered(Own(c))
      \/ Covered(Own(best)) = Covered(Own(c)) /\ Total(Own(best)) > Total(Own(c))
  BY <1>2, <1>3, BoundHolds
<1> QED
  BY <1>1, <1>4 DEF IsBetter

\* A full path is an allocation, and only that one follows it.
LEMMA FullPath ==
    ASSUME SearchTypes, Len(path) = Len(order)
    PROVE  /\ Partial \in Allocations
           /\ \A c \in Allocations : Follows(c) => c = Partial
<1>1. \A a \in Auras : Place(a) \in DOMAIN path /\ order[Place(a)] = a
  BY PlacesOfAuras
<1>2. \A a \in Auras : Partial[a] = path[Place(a)] /\ Partial[a] \in ToTry(a)
  BY <1>1 DEF Partial, SearchTypes
<1>3. \A a, b \in Auras : a # b /\ Partial[a] # Nobody => Partial[a].member # Partial[b].member
  <2> SUFFICES ASSUME NEW a \in Auras, NEW b \in Auras, a # b, Partial[a] # Nobody
               PROVE  Partial[a].member # Partial[b].member
    OBVIOUS
  <2>1. Place(a) # Place(b)
    BY <1>1
  <2> QED
    BY <1>1, <1>2, <2>1 DEF SearchTypes
<1>4. Partial \in Allocations
  <2> DEFINE casters == [a \in Auras |-> candidates[a] \cup {Nobody}]
  <2>1. \A a \in Auras : Partial[a] \in casters[a]
    BY <1>2 DEF ToTry
  <2>2. Partial \in [Auras -> UNION {casters[a] : a \in Auras}]
    <3>1. DOMAIN Partial = Auras /\ Partial = [a \in Auras |-> Partial[a]]
      BY DEF Partial
    <3> HIDE DEF casters
    <3> QED
      BY <2>1, <3>1
  <2> QED
    BY <1>3, <2>1, <2>2 DEF Allocations
<1>5. ASSUME NEW c \in Allocations, Follows(c) PROVE c = Partial
  <2>1. \A a \in Auras : c[a] = Partial[a]
    BY <1>1, <1>2, <1>5 DEF Follows
  <2> QED
    BY <2>1, AllocationFacts DEF Partial
<1> QED
  BY <1>4, <1>5

-----------------------------------------------------------------------------
LEMMA AuraInitInv == AuraInit => SearchInv
<1> SUFFICES ASSUME AuraInit PROVE SearchInv
  OBVIOUS
<1>1. /\ order \in [1..Cardinality(Auras) -> Auras] /\ Sorted(order)
      /\ \A a \in Auras : \E k \in DOMAIN order : order[k] = a
  BY DEF AuraInit
<1>2. Cardinality(Auras) \in Nat
  BY AuraAssumption, FS_CardinalityType
<1>3. order \in Seq(Auras) /\ DOMAIN order \subseteq Nat
  BY <1>1, <1>2
<1>4. \A i, j \in DOMAIN order : i < j => order[i] # order[j]
  <2> SUFFICES ASSUME NEW i \in DOMAIN order, NEW j \in DOMAIN order, i < j, order[i] = order[j]
               PROVE  FALSE
    OBVIOUS
  <2> DEFINE n == Cardinality(candidates[order[i]])
             r == AuraRank[order[i]]
  <2>1. n < n \/ (n = n /\ r < r)
    BY <1>1 DEF Sorted
  <2>2. r \in Nat
    BY <1>3, AuraAssumption
  <2>3. n \in Nat
    <3>1. order[i] \in Auras
      BY <1>3
    <3>2. candidates[order[i]] = CandidatesFor(order[i])
      BY <3>1 DEF AuraInit
    <3> DEFINE a == order[i]
               able == {m \in Registered \ (UnknownMembers \cup MissingSnapshots) : shown[m].level[a] > 0}
               rows == [m \in able |-> [member |-> m, level |-> shown[m].level[a]]]
    <3>3. IsFiniteSet(able)
      BY AuraAssumption, FS_Subset
    <3>4. IsFiniteSet({rows[m] : m \in able})
      <4> HIDE DEF able, rows
      <4> QED
        BY <3>3, ImageIsFinite
    <3>5. {rows[m] : m \in able} = CandidatesFor(a)
      BY DEF CandidatesFor
    <3> QED
      BY <3>2, <3>4, <3>5, FS_CardinalityType
  <2> HIDE DEF n, r
  <2> QED
    BY <2>1, <2>2, <2>3
<1>5. \A i, j \in DOMAIN order : order[i] = order[j] => i = j
  BY <1>3, <1>4
<1>6. path = <<>> /\ step = "enter" /\ best = Unset /\ path \in Seq(AnyChoice) /\ Len(path) = 0 /\ DOMAIN path = {}
  BY DEF AuraInit
<1>7. Len(order) \in Nat
  BY <1>3
<1>8. SearchTypes
  BY <1>1, <1>3, <1>5, <1>6, <1>7 DEF SearchTypes, AuraInit
<1> QED
  BY <1>6, <1>8 DEF SearchInv, Passed

\* Nothing but path, best and step changes.
LEMMA EnterKeeps == SearchInv /\ Enter => SearchInv'
<1> SUFFICES ASSUME SearchInv, Enter PROVE SearchInv'
  OBVIOUS
<1>0. /\ SearchTypes /\ UNCHANGED <<shown, candidates, order>> /\ step = "enter"
      /\ Allocations' = Allocations
      /\ \A x, y : IsBetter(x, y)' <=> IsBetter(x, y)
  BY DEF SearchInv, Enter, Allocations, IsBetter, Covered, Total, Own, Minimum, TieBefore
<1>1. CASE Pruned /\ step' = "return" /\ UNCHANGED <<path, best>>
  <2>1. SearchTypes'
    BY <1>0, <1>1 DEF SearchTypes, CandidatesFor, UnknownMembers, MissingSnapshots, ToTry, AnyChoice
  <2>2. \A c \in Allocations : (Passed(c)' <=> Passed(c)) /\ (Follows(c)' <=> Follows(c))
    BY <1>0, <1>1 DEF Passed, Follows, TriedBefore, Sooner
  <2> QED
    BY <1>0, <1>1, <2>1, <2>2, PrunedIsWorse DEF SearchInv
<1>2. CASE /\ Len(path) = Len(order) /\ step' = "return" /\ path' = path
           /\ best' = IF IsBetter(Partial, best) THEN Partial ELSE best
  <2>0. Partial \in Allocations /\ Partial # Unset
    BY <1>0, <1>2, FullPath, AllocationFacts
  <2>1. best' \in Allocations /\ best' # Unset
    BY <1>0, <1>2, <2>0 DEF SearchTypes, IsBetter
  <2>2. SearchTypes'
    BY <1>0, <1>2, <2>1 DEF SearchTypes, CandidatesFor, UnknownMembers, MissingSnapshots, ToTry, AnyChoice
  <2>3. \A c \in Allocations : (Passed(c)' <=> Passed(c)) /\ (Follows(c)' <=> Follows(c))
    BY <1>0, <1>2 DEF Passed, Follows, TriedBefore, Sooner
  <2>4. ASSUME NEW c \in Allocations, Passed(c) \/ Follows(c)
        PROVE  c = best' \/ IsBetter(best', c)
    <3>1. CASE Passed(c)
      <4>1. best # Unset /\ best \in Allocations /\ (c = best \/ IsBetter(best, c))
        BY <1>0, <3>1 DEF SearchInv, SearchTypes
      <4> QED
        BY <1>0, <1>2, <2>0, <4>1, BetterAllocations
    <3>2. CASE Follows(c)
      <4>1. c = Partial
        BY <1>0, <1>2, <3>2, FullPath
      <4>2. CASE best = Unset
        BY <1>2, <4>1, <4>2 DEF IsBetter
      <4>3. CASE best # Unset
        BY <1>0, <1>2, <2>0, <4>1, <4>3, BetterAllocations DEF SearchTypes
      <4> QED
        BY <4>2, <4>3
    <3> QED
      BY <2>4, <3>1, <3>2
  <2> QED
    BY <1>0, <2>1, <2>2, <2>3, <2>4 DEF SearchInv
<1>3. CASE Len(path) < Len(order) /\ path' = Append(path, Nobody) /\ UNCHANGED <<best, step>>
  <2> DEFINE n == Len(path) + 1
  <2>1. /\ path \in Seq(AnyChoice) /\ Nobody \in AnyChoice /\ n \in Nat /\ n <= Len(order)
    BY <1>0, <1>3, AuraAssumption, PlacesOfAuras DEF SearchTypes, AnyChoice, ToTry
  <2>2. /\ path' \in Seq(AnyChoice) /\ Len(path') = n /\ DOMAIN path' = DOMAIN path \cup {n}
        /\ n \notin DOMAIN path /\ path'[n] = Nobody /\ \A k \in DOMAIN path : path'[k] = path[k]
    BY <1>3, <2>1
  <2>3. SearchTypes'
    <3>1. \A k \in DOMAIN path' : path'[k] \in ToTry(order[k])
      BY <1>0, <2>2 DEF SearchTypes, ToTry
    <3>2. \A i, j \in DOMAIN path' : i # j /\ path'[i] # Nobody => path'[i].member # path'[j].member
      <4>1. \A i \in DOMAIN path : path[i] # Nobody => path[i].member # 0
        BY <1>0, PlacesOfAuras, CandidatesAre DEF SearchTypes, ToTry
      <4> QED
        BY <1>0, <2>2, <4>1, NobodyIs DEF SearchTypes
    <3> QED
      BY <1>0, <1>3, <2>1, <2>2, <3>1, <3>2
      DEF SearchTypes, CandidatesFor, UnknownMembers, MissingSnapshots, ToTry, AnyChoice
  <2>4. ASSUME NEW c \in Allocations, Passed(c)' PROVE Passed(c)
    <3>1. PICK k \in DOMAIN path' :
             /\ \A j \in DOMAIN path' : j < k => path'[j] = c[order[j]]
             /\ TriedBefore(order[k], c[order[k]], path'[k])
      BY <1>0, <2>4 DEF Passed, TriedBefore, Sooner
    <3>2. k \in DOMAIN path
      BY <2>2, <3>1 DEF TriedBefore
    <3> QED
      BY <2>2, <3>1, <3>2 DEF Passed
  <2> QED
    BY <1>0, <1>3, <2>3, <2>4 DEF SearchInv
<1> QED
  BY <1>1, <1>2, <1>3 DEF Enter

\* The path without its last choice.
LEMMA BackFacts ==
    ASSUME SearchTypes, path # <<>>
    PROVE  /\ Len(path) \in DOMAIN path /\ Len(path) \in DOMAIN order /\ order[Len(path)] \in Auras
           /\ Back \in Seq(AnyChoice) /\ Len(Back) = Len(path) - 1
           /\ DOMAIN Back = DOMAIN path \ {Len(path)}
           /\ \A k \in DOMAIN Back : Back[k] = path[k] /\ k < Len(path) /\ k \in Nat
           /\ \A k \in DOMAIN path : k < Len(path) => k \in DOMAIN Back
<1>1. path \in Seq(AnyChoice) /\ Len(path) \in Nat /\ Len(path) # 0 /\ DOMAIN path = 1..Len(path)
  BY PlacesOfAuras DEF SearchTypes
<1>2. Len(path) \in DOMAIN path /\ Len(path) \in DOMAIN order /\ order[Len(path)] \in Auras
  BY <1>1, PlacesOfAuras
<1>3. Back \in Seq(AnyChoice) /\ Len(Back) = Len(path) - 1
      /\ \A k \in 1..Len(path) - 1 : Back[k] = path[k]
  BY <1>1 DEF Back
<1>4. DOMAIN Back = 1..Len(path) - 1
  BY <1>1, <1>3
<1> QED
  BY <1>1, <1>2, <1>3, <1>4

\* Whom an allocation has for the aura at hand is free if it follows the path up to there.
LEMMA AllocatedIsFree ==
    ASSUME SearchTypes, path # <<>>, NEW c \in Allocations,
           \A j \in DOMAIN Back : Back[j] = c[order[j]],
           c[order[Len(path)]] # Nobody
    PROVE  c[order[Len(path)]].member \notin Used(Back)
<1>1. \A j \in DOMAIN Back : order[j] # order[Len(path)] /\ order[j] \in Auras
  BY BackFacts, PlacesOfAuras DEF SearchTypes
<1> QED
  BY <1>1, BackFacts, AllocationFacts DEF Used

\* An allocation that leaves the path at its last choice leaves it for one tried before,
\* or for one that is still to come.
LEMMA StillToCome ==
    ASSUME SearchTypes, path # <<>>, NEW c \in Allocations,
           \A j \in DOMAIN Back : Back[j] = c[order[j]]
    PROVE  Passed(c) \/ Follows(c) \/ c[order[Len(path)]] \in Later
<1> DEFINE a == order[Len(path)]
           last == path[Len(path)]
<1>1. a \in Auras /\ last \in ToTry(a) /\ c[a] \in ToTry(a)
  BY BackFacts, AllocationFacts DEF SearchTypes
<1>2. CASE c[a] = last
  BY <1>2, BackFacts DEF Follows
<1>3. CASE TriedBefore(a, c[a], last)
  <2>1. \A j \in DOMAIN path : j < Len(path) => path[j] = c[order[j]]
    BY BackFacts
  <2> QED
    BY <1>3, <2>1, BackFacts DEF Passed
<1>4. CASE TriedBefore(a, last, c[a])
  BY <1>1, <1>4, AllocatedIsFree DEF Later, TriedBefore, ToTry
<1> QED
  BY <1>1, <1>2, <1>3, <1>4, TriedBeforeIsAnOrder

LEMMA ReturnKeeps == SearchInv /\ Return => SearchInv'
<1> SUFFICES ASSUME SearchInv, Return PROVE SearchInv'
  OBVIOUS
<1>0. /\ SearchTypes /\ UNCHANGED <<shown, candidates, order, best>> /\ step = "return"
      /\ Allocations' = Allocations
      /\ \A x, y : IsBetter(x, y)' <=> IsBetter(x, y)
  BY DEF SearchInv, Return, Allocations, IsBetter, Covered, Total, Own, Minimum, TieBefore
<1>a. \A a, x, y : TriedBefore(a, x, y)' <=> TriedBefore(a, x, y)
  BY <1>0 DEF TriedBefore, Sooner
<1>1. CASE path = <<>> /\ step' = "done" /\ path' = path
  <2>1. SearchTypes'
    BY <1>0, <1>1 DEF SearchTypes, CandidatesFor, UnknownMembers, MissingSnapshots, ToTry, AnyChoice
  <2>2. \A c \in Allocations : (Passed(c)' <=> Passed(c)) /\ (Follows(c)' <=> Follows(c))
    BY <1>0, <1>1, <1>a DEF Passed, Follows
  <2> QED
    BY <1>0, <1>1, <2>1, <2>2 DEF SearchInv
<1>2. CASE path # <<>> /\ Later = {} /\ path' = Back /\ step' = step
  <2>1. SearchTypes'
    BY <1>0, <1>2, BackFacts, PlacesOfAuras
    DEF SearchTypes, CandidatesFor, UnknownMembers, MissingSnapshots, ToTry, AnyChoice
  <2>2. ASSUME NEW c \in Allocations, Passed(c)' \/ Follows(c)' PROVE Passed(c) \/ Follows(c)
    <3>1. CASE Follows(c)'
      <4>1. \A j \in DOMAIN Back : Back[j] = c[order[j]]
        BY <1>0, <1>2, <3>1 DEF Follows
      <4> QED
        BY <1>0, <1>2, <4>1, StillToCome
    <3>2. CASE Passed(c)'
      <4>1. PICK k \in DOMAIN Back :
               /\ \A j \in DOMAIN Back : j < k => Back[j] = c[order[j]]
               /\ TriedBefore(order[k], c[order[k]], Back[k])
        BY <1>0, <1>2, <1>a, <3>2 DEF Passed
      <4>2. \A j \in DOMAIN path : j < k => j \in DOMAIN Back
        BY <1>0, <1>2, <4>1, BackFacts, PlacesOfAuras
      <4> QED
        BY <1>0, <1>2, <4>1, <4>2, BackFacts DEF Passed
    <3> QED
      BY <2>2, <3>1, <3>2
  <2> QED
    BY <1>0, <1>2, <2>1, <2>2 DEF SearchInv
<1>3. ASSUME path # <<>>, step' = "enter",
             NEW d \in Later, \A e \in Later \ {d} : Sooner(order[Len(path)], d.member, e.member),
             path' = Append(Back, d)
      PROVE  SearchInv'
  <2> DEFINE n == Len(path)
             a == order[n]
             last == path[n]
  <2>1. /\ a \in Auras /\ last \in ToTry(a) /\ d \in candidates[a] /\ d # Nobody
        /\ TriedBefore(a, last, d) /\ d.member \notin Used(Back) /\ d.member # 0 /\ n \in Nat
    BY <1>0, <1>3, BackFacts, CandidatesAre, PlacesOfAuras DEF Later, TriedBefore, SearchTypes
  <2>2. Back \in Seq(AnyChoice) /\ d \in AnyChoice /\ Len(Back) = n - 1
    BY <1>0, <1>3, <2>1, BackFacts DEF AnyChoice, ToTry
  <2>3. /\ path' \in Seq(AnyChoice) /\ Len(path') = n /\ DOMAIN path' = DOMAIN Back \cup {n}
        /\ n \notin DOMAIN Back /\ path'[n] = d /\ \A k \in DOMAIN Back : path'[k] = path[k]
    BY <1>0, <1>3, <2>1, <2>2, BackFacts
  <2> HIDE DEF n, a, last
  <2>4. SearchTypes'
    <3>1. \A k \in DOMAIN path' : path'[k] \in ToTry(order[k])
      BY <1>0, <1>3, <2>1, <2>3, BackFacts DEF SearchTypes, ToTry, a, n
    <3>2. \A i, j \in DOMAIN path' : i # j /\ path'[i] # Nobody => path'[i].member # path'[j].member
      <4>1. \A i \in DOMAIN Back : path'[i].member # d.member
        <5>1. \A i \in DOMAIN Back : Back[i].member = 0 \/ Back[i].member \in Used(Back)
          BY DEF Used
        <5> QED
          BY <1>0, <1>3, <2>1, <2>3, <5>1, BackFacts
      <4>2. \A i, j \in DOMAIN Back : i # j /\ path'[i] # Nobody => path'[i].member # path'[j].member
        BY <1>0, <1>3, <2>3, BackFacts DEF SearchTypes
      <4> QED
        BY <2>3, <4>1, <4>2
    <3>3. Len(path') <= Len(order)
      BY <1>0, <2>3 DEF SearchTypes, n
    <3>4. /\ shown' \in AuraInputs /\ candidates' = [b \in Auras |-> CandidatesFor(b)']
          /\ order' \in Seq(Auras) /\ \A b \in Auras : \E k \in DOMAIN order' : order'[k] = b
          /\ \A i, j \in DOMAIN order' : order'[i] = order'[j] => i = j
      BY <1>0 DEF SearchTypes, CandidatesFor, UnknownMembers, MissingSnapshots
    <3>5. AnyChoice' = AnyChoice /\ \A b : ToTry(b)' = ToTry(b)
      BY <1>0 DEF AnyChoice, ToTry
    <3> QED
      BY <1>0, <1>3, <2>3, <3>1, <3>2, <3>3, <3>4, <3>5 DEF SearchTypes
  <2>5. ASSUME NEW c \in Allocations, Passed(c)' PROVE Passed(c) \/ Follows(c)
    <3>1. PICK k \in DOMAIN path' :
             /\ \A j \in DOMAIN path' : j < k => path'[j] = c[order[j]]
             /\ TriedBefore(order[k], c[order[k]], path'[k])
      BY <1>0, <1>a, <2>5 DEF Passed
    <3>2. CASE k \in DOMAIN Back
      <4>1. \A j \in DOMAIN path : j < k => j \in DOMAIN Back
        BY <1>0, <1>3, <3>2, BackFacts, PlacesOfAuras
      <4> QED
        BY <1>0, <1>3, <2>3, <3>1, <3>2, <4>1, BackFacts DEF Passed
    <3>3. CASE k = n
      <4>1. \A j \in DOMAIN Back : Back[j] = c[order[j]]
        BY <1>0, <1>3, <2>3, <3>1, <3>3, BackFacts DEF n
      <4>2. TriedBefore(a, c[a], d) /\ c[a] # d
        BY <1>0, <2>1, <2>3, <3>1, <3>3, TriedBeforeIsAnOrder, AllocationFacts DEF a, ToTry
      <4>3. c[a] \notin Later
        <5> SUFFICES ASSUME c[a] \in Later PROVE FALSE
          OBVIOUS
        <5>1. Sooner(a, d.member, c[a].member) /\ c[a] \in candidates[a]
          BY <1>3, <4>2 DEF Later, a, n
        <5>2. TriedBefore(a, d, c[a])
          BY <1>0, <2>1, <5>1, CandidatesAre DEF TriedBefore
        <5> QED
          BY <1>0, <2>1, <4>2, <5>1, <5>2, TriedBeforeIsAnOrder DEF ToTry
      <4> QED
        BY <1>0, <1>3, <4>1, <4>3, StillToCome DEF a, n
    <3> QED
      BY <2>3, <3>1, <3>2, <3>3
  <2> QED
    BY <1>0, <1>3, <2>4, <2>5 DEF SearchInv
<1> QED
  BY <1>1, <1>2, <1>3 DEF Return

LEMMA AuraNextInv == SearchInv /\ [AuraNext]_auraVars => SearchInv'
<1>1. SearchInv /\ UNCHANGED auraVars => SearchInv'
  <2> SUFFICES ASSUME SearchInv, UNCHANGED auraVars PROVE SearchInv'
    OBVIOUS
  <2>1. /\ UNCHANGED <<shown, candidates, order, path, best, step>>
        /\ SearchTypes /\ Allocations' = Allocations
    BY DEF auraVars, SearchInv, Allocations
  <2>2. SearchTypes'
    BY <2>1 DEF SearchTypes, CandidatesFor, UnknownMembers, MissingSnapshots, ToTry, AnyChoice
  <2>3. \A c : (Passed(c)' <=> Passed(c)) /\ (Follows(c)' <=> Follows(c))
    BY DEF auraVars, Passed, Follows, TriedBefore, Sooner
  <2>4. \A x, y : IsBetter(x, y)' <=> IsBetter(x, y)
    BY DEF auraVars, IsBetter, Covered, Total, Own, Minimum, TieBefore
  <2> QED
    BY <2>1, <2>2, <2>3, <2>4 DEF SearchInv
<1> QED
  BY <1>1, EnterKeeps, ReturnKeeps DEF AuraNext

LEMMA SearchInvBest == SearchInv => AllocationIsBest
<1> SUFFICES ASSUME SearchInv, step = "done" PROVE AllocationIsBest
  BY DEF AllocationIsBest
<1>1. path = <<>> /\ DOMAIN path = {}
  BY DEF SearchInv, SearchTypes
<1>2. \A c \in Allocations : best # Unset /\ (c = best \/ IsBetter(best, c))
  BY <1>1 DEF SearchInv, Follows
<1>3. [a \in Auras |-> Nobody] \in Allocations
  BY DEF Allocations
<1> QED
  BY <1>2, <1>3 DEF AllocationIsBest, SearchInv, SearchTypes

\* Whatever auras, members and levels there are: the pruned search finds the best allocation.
THEOREM AllocationIsBestHolds == AuraSpec => []AllocationIsBest
<1>1. AuraSpec => []SearchInv
  BY AuraInitInv, AuraNextInv, PTL DEF AuraSpec
<1> QED
  BY <1>1, SearchInvBest, PTL

-----------------------------------------------------------------------------
(* The sweeps name the number to apply *)

\* A row of the short or of the full runs.
SweepRows == [count : Nat, wipes : Nat, deaths : Int, progress : Int]

\* One row for each number.
OneEach(rows) == \A r, q \in rows : r.count = q.count => r = q

\* The row has had its full runs.
WasTried(r) == \E v \in verified : v.count = r.count

\* A bold sweep tries those that live from the highest down: what it left out is below one
\* that lived through the full runs.
BoldFinals ==
    /\ \A v \in verified : v.wipes = 0 => queue = {} /\ \A u \in verified \ {v} : u.wipes > 0
    /\ \A r \in shortRuns : r.wipes = 0 =>
         /\ r \in queue \/ WasTried(r) \/ \E v \in verified : v.wipes = 0 /\ v.count > r.count
         /\ \A s \in shortRuns : s \in queue \/ WasTried(s) => s.wipes = 0

\* The others try those who beat all who stay out.
OtherFinals ==
    \A r, s \in shortRuns :
        /\ (s \in queue \/ WasTried(s)) /\ ~(r \in queue \/ WasTried(r)) => Better(sweep.mode, s, r)
        /\ sweep.mode = "safe" /\ (s \in queue \/ WasTried(s)) /\ r.deaths <= MaxDeaths => s.deaths <= MaxDeaths

SweepInv ==
    /\ sweep \in Sweeps /\ sweepPhase \in {"screen", "verify", "done"}
    /\ shortRuns \subseteq SweepRows /\ IsFiniteSet(shortRuns) /\ OneEach(shortRuns)
    /\ verified \subseteq SweepRows /\ OneEach(verified)
    /\ queue \subseteq shortRuns
    /\ \A v \in verified : \E r \in shortRuns : r.count = v.count
    /\ \A v \in verified, q \in queue : v.count # q.count
    /\ sweepPhase = "screen" => queue = {} /\ verified = {}
    /\ sweepPhase # "screen" => IF sweep.mode = "bold" THEN BoldFinals ELSE OtherFinals
    /\ sweepPhase = "done" =>
         /\ queue = {} /\ winner \in verified
         /\ \A u \in verified \ {winner} : Better(sweep.mode, winner, u)

\* Of two rows of different numbers one is better, and better is transitive.
LEMMA BetterIsAnOrder ==
    ASSUME NEW mode \in {"progress", "bold", "safe"},
           NEW x \in SweepRows, NEW y \in SweepRows, NEW z \in SweepRows
    PROVE  /\ Better(mode, x, y) => ~Better(mode, y, x)
           /\ x.count # y.count => Better(mode, x, y) \/ Better(mode, y, x)
           /\ Better(mode, x, y) /\ Better(mode, y, z) => Better(mode, x, z)
<1> /\ x.count \in Nat /\ x.wipes \in Nat /\ x.deaths \in Int /\ x.progress \in Int
    /\ y.count \in Nat /\ y.wipes \in Nat /\ y.deaths \in Int /\ y.progress \in Int
    /\ z.count \in Nat /\ z.wipes \in Nat /\ z.deaths \in Int /\ z.progress \in Int
  BY DEF SweepRows
<1>1. CASE mode = "progress"
  BY <1>1 DEF Better, Progressed
<1>2. CASE mode = "bold"
  BY <1>2 DEF Better, Boldest
<1>3. CASE mode = "safe"
  BY <1>3 DEF Better, Safest
<1> QED
  BY <1>1, <1>2, <1>3

\* The first three beat the rest.
LEMMA FirstThreeBeatTheRest ==
    ASSUME NEW rows \in SUBSET SweepRows, IsFiniteSet(rows), OneEach(rows),
           sweep.mode \in {"progress", "bold", "safe"},
           NEW s \in Head3(rows), NEW r \in rows \ Head3(rows)
    PROVE  Better(sweep.mode, s, r)
<1> DEFINE above(x) == {q \in rows : Better(sweep.mode, q, x)}
<1>1. s \in rows /\ r \in rows /\ s # r
  BY DEF Head3
<1>2. CASE ~Better(sweep.mode, s, r)
  <2>1. Better(sweep.mode, r, s)
    BY <1>1, <1>2, BetterIsAnOrder DEF OneEach
  <2>2. \A q \in rows : Better(sweep.mode, q, r) => Better(sweep.mode, q, s)
    BY <1>1, <2>1, BetterIsAnOrder
  <2>3. above(r) \subseteq above(s) /\ IsFiniteSet(above(s)) /\ IsFiniteSet(above(r))
    BY <2>2, FS_Subset
  <2>4. Cardinality(above(r)) <= Cardinality(above(s)) /\ Cardinality(above(s)) \in Nat
        /\ Cardinality(above(r)) \in Nat
    BY <2>3, FS_Subset, FS_CardinalityType
  <2>5. Cardinality(above(s)) < Finalists /\ ~(Cardinality(above(r)) < Finalists)
    BY <1>1 DEF Head3
  <2> HIDE DEF above
  <2> QED
    BY <2>4, <2>5, SweepAssumption
<1> QED
  BY <1>2

\* The nature script is the safe one, and rows are rows.
LEMMA SweepKinds ==
    SweepInv => /\ sweep.mode \in {"progress", "bold", "safe"}
                /\ sweep.script \in {"insanity", "nature"}
                /\ sweep.script = "nature" <=> sweep.mode = "safe"
                /\ \A x \in sweep.counts : x \in Nat
                /\ \A x \in sweep.counts, r \in Results : Row(x, r) \in SweepRows
  BY SweepAssumption DEF SweepInv, Row, SweepRows

LEMMA SweepInitInv == SweepInit => SweepInv
  BY FS_EmptySet DEF SweepInit, SweepInv, OneEach

LEMMA SimulateKeeps == SweepInv /\ Simulate => SweepInv'
<1> SUFFICES ASSUME SweepInv, Simulate PROVE SweepInv'
  OBVIOUS
<1>1. PICK x \in sweep.counts, r \in Results :
         (\A q \in shortRuns : q.count # x) /\ shortRuns' = shortRuns \cup {Row(x, r)}
  BY DEF Simulate
<1>2. Row(x, r) \in SweepRows /\ Row(x, r).count = x
  BY SweepKinds DEF Row
<1>3. shortRuns' \subseteq SweepRows /\ IsFiniteSet(shortRuns') /\ OneEach(shortRuns')
  BY <1>1, <1>2, FS_AddElement DEF SweepInv, OneEach
<1> QED
  BY <1>3 DEF SweepInv, Simulate, OneEach

LEMMA RankInsanityKeeps == SweepInv /\ RankInsanity => SweepInv'
<1> SUFFICES ASSUME SweepInv, RankInsanity PROVE SweepInv'
  OBVIOUS
<1>1. queue' \subseteq shortRuns /\ verified' = {} /\ shortRuns' = shortRuns /\ sweep' = sweep
  BY DEF RankInsanity, SweepInv, Head3, Alive
<1>2. ASSUME sweep.mode = "bold" PROVE BoldFinals'
  BY <1>1, <1>2 DEF RankInsanity, BoldFinals, WasTried, Alive
<1>3. ASSUME sweep.mode # "bold" PROVE OtherFinals'
  <2>1. queue' = Head3(shortRuns) /\ sweep.mode # "safe"
    BY <1>3, SweepKinds DEF RankInsanity
  <2>2. \A s \in Head3(shortRuns), r \in shortRuns \ Head3(shortRuns) : Better(sweep.mode, s, r)
    BY FirstThreeBeatTheRest, SweepKinds DEF SweepInv
  <2> QED
    BY <1>1, <2>1, <2>2 DEF OtherFinals, WasTried
<1> QED
  BY <1>1, <1>2, <1>3 DEF SweepInv, RankInsanity, OneEach

LEMMA RankNatureKeeps == SweepInv /\ RankNature => SweepInv'
<1> SUFFICES ASSUME SweepInv, RankNature PROVE SweepInv'
  OBVIOUS
<1> DEFINE rows == IF Surviving(shortRuns) # {} THEN Surviving(shortRuns) ELSE shortRuns
<1>1. queue' \subseteq shortRuns /\ verified' = {} /\ shortRuns' = shortRuns /\ sweep' = sweep
      /\ sweep.mode = "safe"
  BY SweepKinds DEF RankNature, SweepInv, Head3, Surviving
<1>2. rows \subseteq SweepRows /\ IsFiniteSet(rows) /\ OneEach(rows) /\ rows \subseteq shortRuns
  BY FS_Subset DEF SweepInv, OneEach, Surviving
<1>3. \A s \in Head3(rows), r \in rows \ Head3(rows) : Better(sweep.mode, s, r)
  BY <1>2, FirstThreeBeatTheRest, SweepKinds
<1>4. \A s \in Head3(rows), r \in shortRuns \ rows : Better(sweep.mode, s, r)
  <2> SUFFICES ASSUME NEW s \in Head3(rows), NEW r \in shortRuns \ rows
               PROVE  Better(sweep.mode, s, r)
    OBVIOUS
  <2>1. s \in rows /\ s.deaths <= MaxDeaths /\ ~(r.deaths <= MaxDeaths)
    BY DEF Head3, Surviving
  <2>2. s.deaths \in Int /\ r.deaths \in Int
    BY <1>2, <2>1 DEF SweepInv, SweepRows
  <2> QED
    BY <1>1, <2>1, <2>2, SweepAssumption DEF Better, Safest
<1>5. \A s \in Head3(rows), r \in shortRuns : r.deaths <= MaxDeaths => s.deaths <= MaxDeaths
  BY DEF Head3, Surviving
<1>6. OtherFinals'
  BY <1>1, <1>3, <1>4, <1>5 DEF OtherFinals, WasTried, RankNature
<1> QED
  BY <1>1, <1>6 DEF SweepInv, RankNature, OneEach

LEMMA VerifyKeeps == SweepInv /\ Verify => SweepInv'
<1> SUFFICES ASSUME SweepInv, Verify PROVE SweepInv'
  OBVIOUS
<1>1. PICK next \in queue, r \in Results :
         /\ \A q \in queue \ {next} : Ahead(next, q)
         /\ verified' = verified \cup {Row(next.count, r)}
         /\ queue' = IF sweep.mode = "bold" /\ r.wipes = 0 THEN {} ELSE queue \ {next}
  BY DEF Verify
<1> DEFINE new == Row(next.count, r)
<1>2. /\ next \in shortRuns /\ next \in SweepRows
      /\ new \in SweepRows /\ new.count = next.count /\ new.wipes = r.wipes
      /\ r.wipes \in Nat
  BY SweepAssumption DEF SweepInv, SweepRows, Row
<1>3. /\ shortRuns' = shortRuns /\ sweep' = sweep /\ winner' = winner
      /\ sweepPhase = "verify" /\ sweepPhase' = "verify"
  BY DEF Verify
<1> HIDE DEF new
<1>4. verified' = verified \cup {new} /\ queue' \subseteq queue \ {next}
  BY <1>1 DEF new
<1>5. \A q \in queue' : q.count # next.count
  BY <1>2, <1>4 DEF SweepInv, OneEach
<1>6. /\ verified' \subseteq SweepRows /\ OneEach(verified') /\ queue' \subseteq shortRuns
      /\ \A v \in verified' : \E q \in shortRuns : q.count = v.count
      /\ \A v \in verified', q \in queue' : v.count # q.count
  BY <1>2, <1>4, <1>5 DEF SweepInv, OneEach
<1>7. \A s \in shortRuns : WasTried(s)' <=> WasTried(s) \/ s = next
  BY <1>2, <1>3, <1>4 DEF WasTried, SweepInv, OneEach
<1>8. ASSUME sweep.mode = "bold" PROVE BoldFinals'
  <2>0. BoldFinals
    BY <1>3, <1>8 DEF SweepInv
  <2>1. \A v \in verified : v.wipes \in Nat /\ v.wipes > 0
    BY <2>0 DEF BoldFinals, SweepInv, SweepRows
  <2>2. \A v \in verified' : v.wipes = 0 => queue' = {} /\ \A u \in verified' \ {v} : u.wipes > 0
    BY <1>1, <1>2, <1>4, <1>8, <2>1
  <2>3. ASSUME NEW s \in shortRuns, s.wipes = 0
        PROVE  /\ s \in queue' \/ WasTried(s)' \/ \E v \in verified' : v.wipes = 0 /\ v.count > s.count
               /\ \A q \in shortRuns : q \in queue' \/ WasTried(q)' => q.wipes = 0
    <3>1. s \in queue \/ WasTried(s)
      BY <2>0, <2>1, <2>3 DEF BoldFinals
    <3>2. ASSUME s \in queue, s # next, r.wipes = 0
          PROVE  \E v \in verified' : v.wipes = 0 /\ v.count > s.count
      <4>1. s \in Alive(shortRuns) /\ Ahead(next, s)
        BY <1>1, <2>3, <3>2 DEF Alive
      <4>2. next.count > s.count
        BY <1>8, <4>1 DEF Ahead, NextNoWipe
      <4> QED
        BY <1>2, <1>4, <3>2, <4>2
    <3>3. s \in queue' \/ WasTried(s)' \/ \E v \in verified' : v.wipes = 0 /\ v.count > s.count
      BY <1>1, <1>7, <3>1, <3>2
    <3>4. \A q \in shortRuns : q \in queue' \/ WasTried(q)' => q.wipes = 0
      BY <1>4, <1>7, <2>0, <2>3 DEF BoldFinals
    <3> QED
      BY <3>3, <3>4
  <2> QED
    BY <1>3, <2>2, <2>3 DEF BoldFinals
<1>9. ASSUME sweep.mode # "bold" PROVE OtherFinals'
  <2>1. OtherFinals /\ queue' = queue \ {next}
    BY <1>1, <1>3, <1>9 DEF SweepInv
  <2>2. \A s \in shortRuns : (s \in queue' \/ WasTried(s)') <=> (s \in queue \/ WasTried(s))
    BY <1>7, <2>1
  <2> QED
    BY <1>3, <2>1, <2>2 DEF OtherFinals
<1> QED
  BY <1>3, <1>6, <1>8, <1>9 DEF SweepInv

LEMMA WinnerKeeps == SweepInv /\ Winner => SweepInv'
<1> SUFFICES ASSUME SweepInv, Winner PROVE SweepInv'
  OBVIOUS
<1>1. /\ UNCHANGED <<sweep, shortRuns, queue, verified>> /\ sweepPhase = "verify"
      /\ sweepPhase' = "done" /\ queue = {} /\ winner' \in verified
      /\ \A u \in verified \ {winner'} : Better(sweep.mode, winner', u)
  BY DEF Winner
<1>2. BoldFinals' <=> BoldFinals
  BY <1>1 DEF BoldFinals, WasTried
<1>3. OtherFinals' <=> OtherFinals
  BY <1>1 DEF OtherFinals, WasTried
<1> QED
  BY <1>1, <1>2, <1>3 DEF SweepInv, OneEach

LEMMA SweepNextInv == SweepInv /\ [SweepNext]_sweepVars => SweepInv'
<1>1. SweepInv /\ UNCHANGED sweepVars => SweepInv'
  BY DEF sweepVars, SweepInv, OneEach, BoldFinals, OtherFinals, WasTried
<1> QED
  BY <1>1, SimulateKeeps, RankInsanityKeeps, RankNatureKeeps, VerifyKeeps, WinnerKeeps DEF SweepNext

LEMMA SweepInvNames == SweepInv => SweepNamesTheBest
<1> SUFFICES ASSUME SweepInv, sweepPhase = "done" PROVE SweepNamesTheBest
  BY DEF SweepNamesTheBest
<1> DEFINE short == CHOOSE r \in shortRuns : r.count = winner.count
<1>0. /\ winner \in verified /\ winner \in SweepRows /\ winner.wipes \in Nat /\ winner.count \in Nat
      /\ \A u \in verified \ {winner} : Better(sweep.mode, winner, u)
      /\ \A u \in verified : u \in SweepRows /\ u.count \in Nat /\ u.wipes \in Nat
      /\ \A r \in shortRuns : r.count \in Nat
      /\ queue = {}
  BY DEF SweepInv, SweepRows
<1>1. short \in shortRuns /\ short.count = winner.count
  BY <1>0 DEF SweepInv
<1> HIDE DEF short
<1>2. \A v \in verified \ {winner} : ~Better(sweep.mode, v, winner)
  BY <1>0, SweepKinds, BetterIsAnOrder
<1>3. WasTried(short)
  BY <1>0, <1>1 DEF WasTried
<1>4. ASSUME sweep.mode = "bold", NEW r \in shortRuns, r.wipes = 0
      PROVE  /\ r.count > winner.count =>
                  WasTried(r) /\ \A v \in verified : v.count = r.count => v.wipes > 0
             /\ winner.wipes > 0 => WasTried(r)
             /\ short.wipes = 0
  <2>1. BoldFinals
    BY <1>4 DEF SweepInv
  <2>2. \A u \in verified \ {winner} : Boldest(winner, u)
    BY <1>0, <1>4 DEF Better
  <2>3. \A u \in verified : u.count > winner.count => winner.wipes = 0 /\ u.wipes > 0
    BY <1>0, <2>2 DEF Boldest
  <2>4. \A u \in verified : winner.wipes > 0 => u.wipes > 0
    BY <1>0, <2>2 DEF Boldest
  <2>5. WasTried(r) \/ \E v \in verified : v.wipes = 0 /\ v.count > r.count
    BY <1>0, <1>4, <2>1 DEF BoldFinals
  <2>6. short.wipes = 0
    BY <1>1, <1>3, <1>4, <2>1 DEF BoldFinals
  <2>7. ASSUME r.count > winner.count PROVE WasTried(r)
    <3>1. \A v \in verified : v.count > r.count => v.count > winner.count
      BY <1>0, <2>7
    <3> QED
      BY <1>0, <2>3, <2>5, <3>1
  <2> QED
    BY <1>0, <2>3, <2>4, <2>5, <2>6, <2>7
<1>5. ASSUME sweep.mode # "bold" PROVE OtherFinals
  BY <1>5 DEF SweepInv
<1>6. sweep.mode # "bold" =>
         \A r, s \in shortRuns : WasTried(s) /\ ~WasTried(r) => Better(sweep.mode, s, r)
  BY <1>0, <1>5 DEF OtherFinals
<1>7. sweep.mode = "safe" => \A r \in shortRuns : r.deaths <= MaxDeaths => short.deaths <= MaxDeaths
  BY <1>1, <1>3, <1>5 DEF OtherFinals
<1> QED
  BY <1>0, <1>2, <1>4, <1>6, <1>7 DEF SweepNamesTheBest, WasTried, short

\* Whatever the numbers tried and whatever their runs yield: the script names the right one.
THEOREM SweepNamesTheBestHolds == SweepSpec => []SweepNamesTheBest
<1>1. SweepSpec => []SweepInv
  BY SweepInitInv, SweepNextInv, PTL DEF SweepSpec
<1> QED
  BY <1>1, SweepInvNames, PTL

-----------------------------------------------------------------------------
(* The teams of the file stay sound *)

\* Four different skills are four.
LEMMA FourSkills ==
    ASSUME NEW a, NEW b, NEW c, NEW d, a # b, a # c, a # d, b # c, b # d, c # d
    PROVE  IsFiniteSet({a, b, c, d}) /\ Cardinality({a, b, c, d}) = 4
<1>1. IsFiniteSet({a}) /\ Cardinality({a}) = 1
  BY FS_Singleton
<1>2. IsFiniteSet({a} \cup {b}) /\ Cardinality({a} \cup {b}) = 2
  BY <1>1, FS_AddElement
<1>3. IsFiniteSet({a} \cup {b} \cup {c}) /\ Cardinality({a} \cup {b} \cup {c}) = 3
  <2>1. c \notin {a} \cup {b}
    OBVIOUS
  <2> QED
    BY <1>2, <2>1, FS_AddElement
<1>4. IsFiniteSet({a} \cup {b} \cup {c} \cup {d}) /\ Cardinality({a} \cup {b} \cup {c} \cup {d}) = 4
  <2>1. d \notin {a} \cup {b} \cup {c}
    OBVIOUS
  <2> QED
    BY <1>3, <2>1, FS_AddElement
<1>5. {a} \cup {b} \cup {c} \cup {d} = {a, b, c, d}
  OBVIOUS
<1> QED
  BY <1>4, <1>5

\* A kit of four skills.
IsKit(kit) == IsFiniteSet(kit) /\ Cardinality(kit) = 4

\* What is exchanged for something new leaves four.
LEMMA SkillExchanged ==
    ASSUME NEW kit, IsKit(kit), NEW a \in kit, NEW b, b \notin kit
    PROVE  IsKit((kit \ {a}) \cup {b})
<1>1. IsFiniteSet(kit \ {a}) /\ Cardinality(kit \ {a}) = 3
  BY FS_RemoveElement DEF IsKit
<1>2. b \notin kit \ {a}
  OBVIOUS
<1> QED
  BY <1>1, <1>2, FS_AddElement DEF IsKit

\* The kits that every boss shares.
LEMMA FixedKits ==
    /\ IsKit(NatureDpsKit) /\ "rejuvenate" \notin NatureDpsKit /\ "toxic_pollen" \in NatureDpsKit
    /\ IsKit(DrainKit) /\ "rejuvenate" \in DrainKit
    /\ IsKit(PollenKit) /\ "rejuvenate" \in PollenKit /\ "toxic_pollen" \in PollenKit
    /\ IsKit(HammerKit) /\ "rejuvenate" \notin HammerKit
<1>1. IsKit(NatureDpsKit)
  BY FourSkills DEF IsKit, NatureDpsKit
<1>2. IsKit(DrainKit) 
  BY FourSkills DEF IsKit, DrainKit
<1>3. IsKit(PollenKit) 
  BY FourSkills DEF IsKit, PollenKit
<1>4. IsKit(HammerKit) 
  BY FourSkills DEF IsKit, HammerKit
<1> QED
  BY <1>1, <1>2, <1>3, <1>4 DEF NatureDpsKit, DrainKit, PollenKit, HammerKit

\* A healer brings the heal, whatever he has to cover.
LEMMA HealerKits ==
    ASSUME NEW boss, NEW coverage
    PROVE  IsKit(HealerKit(boss, coverage)) /\ "rejuvenate" \in HealerKit(boss, coverage)
<1>1. CASE coverage \in {"smoke_burst", "frost_surge"}
  <2> DEFINE x == IF Single(boss) THEN "elemental_affinity" ELSE "natures_veil"
  <2>1. HealerKit(boss, coverage) = {"rejuvenate", coverage, "entangle", x}
    BY <1>1 DEF HealerKit
  <2>2. x # "rejuvenate" /\ x # "entangle" /\ x # coverage
    BY <1>1
  <2>3. coverage # "rejuvenate" /\ coverage # "entangle"
    BY <1>1
  <2> HIDE DEF x
  <2>4. IsKit({"rejuvenate", coverage, "entangle", x})
    BY <2>2, <2>3, FourSkills DEF IsKit
  <2> QED
    BY <2>1, <2>4
<1>2. CASE coverage \notin {"smoke_burst", "frost_surge"}
  <2>1. HealerKit(boss, coverage) \in
          {PollenKit, DrainKit, {"rejuvenate", "toxic_pollen", "natures_veil", "entangle"}}
    BY <1>2 DEF HealerKit
  <2>2. IsKit({"rejuvenate", "toxic_pollen", "natures_veil", "entangle"})
    BY FourSkills DEF IsKit
  <2> QED
    BY <2>1, <2>2, FixedKits
<1> QED
  BY <1>1, <1>2

\* One shot for the other: no other skill goes, and no heal comes.
LEMMA SwappedKits ==
    ASSUME NEW kit, IsKit(kit), "rejuvenate" \notin kit
    PROVE  /\ IsKit(PestilentKit(kit)) /\ IsKit(SteadyKit(kit))
           /\ "rejuvenate" \notin PestilentKit(kit) /\ "rejuvenate" \notin SteadyKit(kit)
           /\ \A skill \in {"smoke_burst", "frost_surge"} :
                skill \in kit => skill \in PestilentKit(kit) /\ skill \in SteadyKit(kit)
<1>1. IsKit(PestilentKit(kit))
  BY SkillExchanged DEF PestilentKit
<1>2. IsKit(SteadyKit(kit))
  BY SkillExchanged DEF SteadyKit
<1> QED
  BY <1>1, <1>2 DEF PestilentKit, SteadyKit

\* The nine roles.
Roles9 == {"bow", "crossbow", "fire", "water", "nature", "shield", "spear", "sword", "hammer"}

\* What a package of a boss may prefer.
IsPackage(boss, package) ==
    IF Single(boss) THEN /\ package.ranged \in {"pestilent_shot", "steady_shot", "frenzy"}
                         /\ package.water \in {"precision", "ice_spear"}
    ELSE package.ranged \in {"precision", "frenzy"}

\* Archers bring four skills and no heal.
LEMMA RangedKits ==
    ASSUME NEW boss, NEW package, NEW duty, IsPackage(boss, package)
    PROVE  IsKit(RangedKit(boss, package, duty)) /\ "rejuvenate" \notin RangedKit(boss, package, duty)
<1>1. CASE Single(boss)
  <2>1. \/ RangedKit(boss, package, duty) = {"berserk", "precision", "frenzy", "penetrating_shot"}
        \/ RangedKit(boss, package, duty) = {"berserk", "precision", "frenzy", "pestilent_shot"}
        \/ RangedKit(boss, package, duty) = {"berserk", "precision", "frenzy", "steady_shot"}
    BY <1>1 DEF IsPackage, RangedKit, Shots
  <2>2. /\ IsKit({"berserk", "precision", "frenzy", "penetrating_shot"})
        /\ IsKit({"berserk", "precision", "frenzy", "pestilent_shot"})
        /\ IsKit({"berserk", "precision", "frenzy", "steady_shot"})
    BY FourSkills DEF IsKit
  <2> QED
    BY <2>1, <2>2
<1>2. CASE ~Single(boss)
  <2>1. \/ RangedKit(boss, package, duty) = {"berserk", "penetrating_shot", "precision", "pestilent_shot"}
        \/ RangedKit(boss, package, duty) = {"berserk", "penetrating_shot", "precision", "rain_of_arrows"}
        \/ RangedKit(boss, package, duty) = {"berserk", "penetrating_shot", "frenzy", "rain_of_arrows"}
    BY <1>2 DEF IsPackage, RangedKit
  <2>2. /\ IsKit({"berserk", "penetrating_shot", "precision", "pestilent_shot"})
        /\ IsKit({"berserk", "penetrating_shot", "precision", "rain_of_arrows"})
        /\ IsKit({"berserk", "penetrating_shot", "frenzy", "rain_of_arrows"})
    BY FourSkills DEF IsKit
  <2> QED
    BY <2>1, <2>2
<1> QED
  BY <1>1, <1>2

\* So do fire mages,
LEMMA FireKits ==
    ASSUME NEW boss, NEW package, NEW index
    PROVE  IsKit(FireKit(boss, package, index)) /\ "rejuvenate" \notin FireKit(boss, package, index)
<1>1. \/ FireKit(boss, package, index) = {"elemental_affinity", "fireball", "smoke_burst", "precision"}
      \/ FireKit(boss, package, index) = {"elemental_affinity", "fireball", "smoke_burst", "firestorm"}
      \/ FireKit(boss, package, index) = {"elemental_affinity", "fireball", "firestorm", "flame_blast"}
  BY DEF FireKit
<1>2. /\ IsKit({"elemental_affinity", "fireball", "smoke_burst", "precision"})
      /\ IsKit({"elemental_affinity", "fireball", "smoke_burst", "firestorm"})
      /\ IsKit({"elemental_affinity", "fireball", "firestorm", "flame_blast"})
  BY FourSkills DEF IsKit
<1> QED
  BY <1>1, <1>2

\* water mages,
LEMMA WaterKits ==
    ASSUME NEW boss, NEW package, NEW index, IsPackage(boss, package)
    PROVE  IsKit(WaterKit(boss, package, index)) /\ "rejuvenate" \notin WaterKit(boss, package, index)
<1>1. \/ WaterKit(boss, package, index) = {"elemental_affinity", "frost_surge", "water_strike", "mana_spring"}
      \/ WaterKit(boss, package, index) = {"elemental_affinity", "frost_surge", "water_strike", "precision"}
      \/ WaterKit(boss, package, index) = {"elemental_affinity", "frost_surge", "water_strike", "ice_spear"}
  BY DEF WaterKit, IsPackage
<1>2. /\ IsKit({"elemental_affinity", "frost_surge", "water_strike", "mana_spring"})
      /\ IsKit({"elemental_affinity", "frost_surge", "water_strike", "precision"})
      /\ IsKit({"elemental_affinity", "frost_surge", "water_strike", "ice_spear"})
  BY FourSkills DEF IsKit
<1> QED
  BY <1>1, <1>2

\* and all others.
LEMMA MeleeKits ==
    ASSUME NEW boss, NEW role \in {"sword", "hammer", "spear", "shield"}
    PROVE  IsKit(MeleeKit(boss, role)) /\ "rejuvenate" \notin MeleeKit(boss, role)
<1>1. \/ MeleeKit(boss, role) = {"berserk", "precision", "maim", "crippling_slash"}
      \/ MeleeKit(boss, role) = HammerKit
      \/ MeleeKit(boss, role) = {"berserk", "precision", "puncture", "frenzy"}
      \/ MeleeKit(boss, role) = {"berserk", "precision", "puncture", "penetrating_strike"}
      \/ MeleeKit(boss, role) = {"toughness", "spike_shell", "retribution", "provoke"}
  BY DEF MeleeKit
<1>2. /\ IsKit({"berserk", "precision", "maim", "crippling_slash"})
      /\ IsKit({"berserk", "precision", "puncture", "frenzy"})
      /\ IsKit({"berserk", "precision", "puncture", "penetrating_strike"})
      /\ IsKit({"toughness", "spike_shell", "retribution", "provoke"})
  BY FourSkills DEF IsKit
<1> QED
  BY <1>1, <1>2, FixedKits

\* Everybody gets four skills, and who is to heal brings the heal.
LEMMA KitsAreSound ==
    ASSUME NEW boss, NEW package, NEW role \in Roles9, NEW index, NEW duty, NEW coverage,
           IsPackage(boss, package)
    PROVE  /\ IsKit(Kit(boss, package, role, index, duty, coverage))
           /\ "rejuvenate" \in Kit(boss, package, role, index, duty, coverage) <=> role = "nature"
           /\ role = "hammer" => Kit(boss, package, role, index, duty, coverage) = HammerKit
<1>1. CASE role \in Ranged
  BY <1>1, RangedKits DEF Kit, Ranged
<1>2. CASE role = "fire"
  BY <1>2, FireKits DEF Kit, Ranged
<1>3. CASE role = "water"
  BY <1>3, WaterKits DEF Kit, Ranged
<1>4. CASE role = "nature"
  BY <1>4, HealerKits DEF Kit, Ranged
<1>5. CASE role \in {"sword", "hammer", "spear", "shield"}
  <2>1. Kit(boss, package, role, index, duty, coverage) = MeleeKit(boss, role)
    BY <1>5 DEF Kit, Ranged
  <2>2. role = "hammer" => MeleeKit(boss, role) = HammerKit
    BY DEF MeleeKit
  <2> QED
    BY <1>5, <2>1, <2>2, MeleeKits
<1> QED
  BY <1>1, <1>2, <1>3, <1>4, <1>5 DEF Roles9, Ranged

DutyNames == {"tank", "healer", "debuffer", "dps"}

\* What the scripts keep of a member's row.
KitIsSound(p, row) ==
    /\ DOMAIN row = {"duty", "special", "kit"} /\ row = [duty |-> row.duty, special |-> row.special, kit |-> row.kit]
    /\ row.duty \in DutyNames /\ row.special \in {"aura", "revive", "insanity"}
    /\ IsKit(row.kit)
    /\ p.role = "nature" /\ row.duty = "healer" <=> "rejuvenate" \in row.kit
    /\ p.role = "nature" => row.duty \in {"healer", "dps"}
    /\ p.role \in Ranged => row.duty \in {"debuffer", "dps"}
    /\ p.role = "hammer" => row.kit = HammerKit
    /\ p.aura => row.special = "aura"

\* A side's members, its insane ones, and the fields of a boss in the file.
Members(w, side) == {m \in DOMAIN w.members : w.members[m].side = side}

Insane(rows) == {m \in DOMAIN rows : rows[m].special = "insanity"}

IsBoss(boss) ==
    boss = [rows |-> boss.rows, lab |-> boss.lab, duties |-> boss.duties, insanity |-> boss.insanity,
            converted |-> boss.converted, pollen |-> boss.pollen, drained |-> boss.drained]

\* What the scripts keep of a boss in the file, and of a file.
BossIsSound(w, side, boss) ==
    /\ IsBoss(boss)
    /\ DOMAIN boss.rows = Members(w, side) /\ DOMAIN boss.lab = Members(w, side)
    /\ boss.rows = [m \in Members(w, side) |-> boss.rows[m]]
    /\ \A m \in Members(w, side) : KitIsSound(w.members[m], boss.rows[m])
    /\ boss.duties = Duties(boss.rows)
    /\ boss.insanity \in Nat /\ IsFiniteSet(Insane(boss.rows))
    /\ Cardinality(Insane(boss.rows)) <= boss.insanity
    /\ boss.pollen \subseteq Members(w, side)
    /\ \A m \in boss.pollen : w.members[m].role = "nature" /\ "toxic_pollen" \in boss.rows[m].kit
    /\ boss.drained \/ \A m \in Members(w, side), skill \in {"smoke_burst", "frost_surge"} :
                          skill \in boss.lab[m].kit => skill \in boss.rows[m].kit

FileIsSound(w, f) ==
    f = <<>> \/ /\ f = <<f[1]>> /\ f[1] = [s \in Bosses |-> f[1][s]]
                /\ \A s \in Bosses : BossIsSound(w, s, f[1][s])

PipelineInv ==
    /\ week \in PipelineInputs
    /\ DOMAIN running = Scripts /\ running = [s \in Scripts |-> running[s]]
    /\ FileIsSound(week, file)
    /\ \A s \in Scripts : FileIsSound(week, running[s])

\* A side's team, in the terms of the week.
LEMMA TeamFacts ==
    ASSUME PipelineInv, NEW s \in Bosses
    PROVE  /\ Team(s) = Members(week, s) /\ IsFiniteSet(Team(s))
           /\ \A m \in Team(s) : RoleOf(m) \in Roles9 /\ RoleOf(m) = week.members[m].role
                                 /\ week.members[m].side = s
<1>1. Team(s) \subseteq DOMAIN week.members /\ IsFiniteSet(DOMAIN week.members)
  BY PipelineAssumption DEF Team, People, PipelineInv
<1>2. IsFiniteSet(Team(s))
  BY <1>1, FS_Subset
<1>3. Team(s) = Members(week, s)
  BY DEF Team, Members, People
<1>4. \A m \in Team(s) : RoleOf(m) \in Roles9 /\ RoleOf(m) = week.members[m].role
                                 /\ week.members[m].side = s
  BY <1>1, PipelineAssumption DEF Team, People, RoleOf, Roles9, PipelineInv
<1> QED
  BY <1>2, <1>3, <1>4

\* A change of rows that keeps duties.
LEMMA SameDuties ==
    ASSUME NEW rows, NEW after, DOMAIN after = DOMAIN rows,
           \A m \in DOMAIN rows : after[m].duty = rows[m].duty
    PROVE  Duties(after) = Duties(rows)
<1>1. \A d : {m \in DOMAIN after : after[m].duty = d} = {m \in DOMAIN rows : rows[m].duty = d}
  OBVIOUS
<1> QED
  BY <1>1 DEF Duties

\* Counting some of the duties again is enough where the others stay.
LEMMA RecountIsDuties ==
    ASSUME NEW rows, NEW after, NEW some \in SUBSET DutyNames, DOMAIN after = DOMAIN rows,
           \A m \in DOMAIN rows : \/ after[m].duty = rows[m].duty
                                  \/ after[m].duty \in some /\ rows[m].duty \in some
    PROVE  Recount(Duties(rows), after, some) = Duties(after)
<1>1. \A d \in DutyNames \ some :
         {m \in DOMAIN after : after[m].duty = d} = {m \in DOMAIN rows : rows[m].duty = d}
  OBVIOUS
<1>2. \A d \in DutyNames \ some : Duties(after)[d] = Duties(rows)[d]
  BY <1>1 DEF Duties, DutyNames
<1>3. DOMAIN Duties(rows) = DutyNames /\ DOMAIN Duties(after) = DutyNames
      /\ Duties(after) = [d \in DutyNames |-> Duties(after)[d]]
  BY DEF Duties, DutyNames
<1>4. Recount(Duties(rows), after, some) = [d \in DutyNames |-> IF d \in some THEN Duties(after)[d] ELSE Duties(rows)[d]]
  BY <1>3 DEF Recount
<1> QED
  BY <1>2, <1>3, <1>4

LEMMA PipelineInitInv == PipelineInit => PipelineInv
  BY DEF PipelineInit, PipelineInv, FileIsSound

\* Rows of the lab are sound, and nobody starts insane.
LEMMA LabRowIsSound ==
    ASSUME PipelineInv, NEW side \in Bosses, NEW m \in Team(side),
           NEW package \in Packages(BossOf(side))
    PROVE  KitIsSound(week.members[m], LabRow(m, package)) /\ LabRow(m, package).special # "insanity"
<1>1. RoleOf(m) \in Roles9 /\ RoleOf(m) = week.members[m].role /\ week.members[m].side = side
  BY TeamFacts
<1>2. IsPackage(BossOf(side), package)
  BY PipelineAssumption DEF IsPackage, BossOf, PipelineInv
<1> DEFINE duty == DutyOf(RoleOf(m), Index(m), RangedDebuffer(m, package))
           kit == Kit(BossOf(side), package, RoleOf(m), Index(m), duty, CoverageOf(m, package))
           special == IF week.members[m].aura THEN "aura" ELSE "revive"
<1>3. LabRow(m, package) = [duty |-> duty, special |-> special, kit |-> kit]
  BY <1>1 DEF LabRow
<1>4. /\ IsKit(kit) /\ ("rejuvenate" \in kit <=> RoleOf(m) = "nature")
      /\ RoleOf(m) = "hammer" => kit = HammerKit
  <2> DEFINE i == Index(m)
             c == CoverageOf(m, package)
             r == RoleOf(m)
             b == BossOf(side)
             d == duty
  <2>1. IsPackage(b, package) /\ r \in Roles9
    BY <1>1, <1>2
  <2> HIDE DEF i, c, r, b, d
  <2>2. /\ IsKit(Kit(b, package, r, i, d, c))
        /\ "rejuvenate" \in Kit(b, package, r, i, d, c) <=> r = "nature"
        /\ r = "hammer" => Kit(b, package, r, i, d, c) = HammerKit
    BY <2>1, KitsAreSound
  <2> QED
    BY <2>2 DEF i, c, r, b, d
<1>5. /\ duty \in DutyNames
      /\ RoleOf(m) = "nature" => duty = "healer"
      /\ RoleOf(m) \in Ranged => duty \in {"debuffer", "dps"}
  BY <1>1 DEF DutyOf, DutyNames, Ranged, Roles9
<1> HIDE DEF duty, kit
<1> QED
  BY <1>1, <1>3, <1>4, <1>5 DEF KitIsSound

LEMMA RunLabKeeps == PipelineInv /\ RunLab => PipelineInv'
<1> SUFFICES ASSUME PipelineInv, RunLab PROVE PipelineInv'
  OBVIOUS
<1>1. PICK p \in Packages(week.boss), q \in Packages("swarm") :
        file' = <<Fresh([side \in Bosses |-> IF side = "st" THEN p ELSE q])>>
  BY DEF RunLab
<1>2. UNCHANGED <<week, running>>
  BY DEF RunLab
<1> DEFINE packages == [side \in Bosses |-> IF side = "st" THEN p ELSE q]
           fresh == Fresh(packages)
<1>3. \A s \in Bosses : packages[s] \in Packages(BossOf(s))
  BY DEF Bosses, BossOf
<1> HIDE DEF packages
<1>4. ASSUME NEW s \in Bosses PROVE BossIsSound(week, s, fresh[s])
  <2> DEFINE rows == [m \in Team(s) |-> LabRow(m, packages[s])]
  <2>1. fresh[s] = [rows |-> rows, lab |-> rows, duties |-> Duties(rows), insanity |-> 0,
                    converted |-> 0, pollen |-> {}, drained |-> FALSE]
    BY <1>4 DEF Fresh
  <2>2. \A m \in Members(week, s) : KitIsSound(week.members[m], rows[m]) /\ rows[m].special # "insanity"
    BY <1>3, TeamFacts, LabRowIsSound
  <2>3. DOMAIN rows = Members(week, s) /\ rows = [m \in Members(week, s) |-> rows[m]]
    BY TeamFacts
  <2> HIDE DEF rows, fresh
  <2>4. Insane(rows) = {}
    BY <2>2, <2>3 DEF Insane
  <2> DEFINE boss == fresh[s]
  <2>5. /\ boss.rows = rows /\ boss.lab = rows /\ boss.duties = Duties(rows) /\ boss.insanity = 0
        /\ boss.pollen = {} /\ boss.drained = FALSE /\ IsBoss(boss)
    BY <2>1 DEF IsBoss
  <2> HIDE DEF boss
  <2>6. IsFiniteSet(Insane(rows)) /\ Cardinality(Insane(rows)) <= 0
    BY <2>4, FS_EmptySet
  <2>7. BossIsSound(week, s, boss)
    BY <2>2, <2>3, <2>5, <2>6 DEF BossIsSound
  <2> QED
    BY <2>7 DEF boss
<1>5. fresh = [s \in Bosses |-> fresh[s]]
  BY DEF Fresh
<1> HIDE DEF fresh
<1>6. FileIsSound(week, <<fresh>>)
  BY <1>4, <1>5 DEF FileIsSound
<1>7. file' = <<fresh>>
  BY <1>1 DEF fresh, packages
<1> QED
  BY <1>2, <1>6, <1>7 DEF PipelineInv

LEMMA ScriptStarts ==
    ASSUME NEW s \in Scripts, PipelineInv, Start(s) \/ Stop(s)
    PROVE  PipelineInv'
<1>1. CASE Start(s)
  <2>1. UNCHANGED <<week, file>> /\ running' = [running EXCEPT ![s] = file]
    BY <1>1 DEF Start
  <2> QED
    BY <2>1 DEF PipelineInv
<1>2. CASE Stop(s)
  <2>1. UNCHANGED <<week, file>> /\ running' = [running EXCEPT ![s] = <<>>]
    BY <1>2 DEF Stop
  <2>2. FileIsSound(week, <<>>)
    BY DEF FileIsSound
  <2> QED
    BY <2>1, <2>2 DEF PipelineInv
<1> QED
  BY <1>1, <1>2

\* What a script saves is sound if both of its sides are.
LEMMA SaveKeeps ==
    ASSUME PipelineInv, NEW s \in Scripts, NEW bosses, Save(s, bosses),
           bosses = [t \in Bosses |-> bosses[t]], \A t \in Bosses : BossIsSound(week, t, bosses[t])
    PROVE  PipelineInv'
<1>1. UNCHANGED week /\ file' = <<bosses>> /\ running' = [running EXCEPT ![s] = <<>>]
  BY DEF Save
<1>2. FileIsSound(week, <<bosses>>) /\ FileIsSound(week, <<>>)
  BY DEF FileIsSound
<1> QED
  BY <1>1, <1>2 DEF PipelineInv

\* A script works on a sound copy.
LEMMA ReadIsSound ==
    ASSUME PipelineInv, NEW s \in Scripts, running[s] # <<>>
    PROVE  /\ Read(s) = [t \in Bosses |-> Read(s)[t]]
           /\ \A t \in Bosses : BossIsSound(week, t, Read(s)[t])
  BY DEF PipelineInv, FileIsSound, Read

\* What a sound row becomes by another special skill, or by another kit and duty.
\* A sound row with another special skill, where there is no aura.
LEMMA SpecialChanges ==
    ASSUME NEW p, NEW row, KitIsSound(p, row),
           NEW special \in {"aura", "revive", "insanity"}, p.aura => special = "aura"
    PROVE  KitIsSound(p, [row EXCEPT !.special = special])
<1> DEFINE after == [row EXCEPT !.special = special]
<1>1. after = [duty |-> row.duty, special |-> special, kit |-> row.kit]
  BY DEF KitIsSound
<1>2. /\ DOMAIN after = {"duty", "special", "kit"}
      /\ after.duty = row.duty /\ after.special = special /\ after.kit = row.kit
  BY <1>1
<1> HIDE DEF after
<1>3. KitIsSound(p, after)
  BY <1>1, <1>2 DEF KitIsSound
<1> QED
  BY <1>3 DEF after

\* A sound row with another duty and a kit that fits it.
LEMMA KitChanges ==
    ASSUME NEW p, NEW row, KitIsSound(p, row), NEW duty \in DutyNames, NEW kit, IsKit(kit),
           p.role = "nature" /\ duty = "healer" <=> "rejuvenate" \in kit,
           p.role = "nature" => duty \in {"healer", "dps"},
           p.role \in Ranged => duty \in {"debuffer", "dps"},
           p.role = "hammer" => kit = HammerKit
    PROVE  KitIsSound(p, [row EXCEPT !.duty = duty, !.kit = kit])
<1> DEFINE after == [row EXCEPT !.duty = duty, !.kit = kit]
<1>0. row = [duty |-> row.duty, special |-> row.special, kit |-> row.kit]
  BY DEF KitIsSound
<1>1. after = [duty |-> duty, special |-> row.special, kit |-> kit]
  <2> DEFINE first == [row EXCEPT !.duty = duty]
  <2>1. first = [duty |-> duty, special |-> row.special, kit |-> row.kit]
    BY <1>0
  <2>2. after = [first EXCEPT !.kit = kit]
    OBVIOUS
  <2> HIDE DEF first, after
  <2>3. [first EXCEPT !.kit = kit] = [duty |-> duty, special |-> row.special, kit |-> kit]
    BY <2>1
  <2> QED
    BY <2>2, <2>3
<1>2. /\ DOMAIN after = {"duty", "special", "kit"}
      /\ after.duty = duty /\ after.special = row.special /\ after.kit = kit
  BY <1>1
<1> HIDE DEF after
<1>3. KitIsSound(p, after)
  BY <1>1, <1>2 DEF KitIsSound
<1> QED
  BY <1>3 DEF after

\* With insanity taken back and the hammers' kit a row keeps its kit and duty.
LEMMA InsaneRows ==
    ASSUME PipelineInv, NEW s \in Bosses, NEW rows, DOMAIN rows = Members(week, s),
           \A m \in Members(week, s) : KitIsSound(week.members[m], rows[m])
    PROVE  LET all == Hammers(Revert(rows))
           IN  /\ DOMAIN all = Members(week, s)
               /\ \A m \in Members(week, s) :
                    /\ KitIsSound(week.members[m], all[m])
                    /\ all[m].special # "insanity" /\ (week.members[m].aura => all[m].special = "aura")
                    /\ all[m].kit = rows[m].kit /\ all[m].duty = rows[m].duty
<1> DEFINE back == Revert(rows)
           all == Hammers(back)
<1>1. DOMAIN back = Members(week, s) /\ DOMAIN all = Members(week, s)
  BY DEF Revert, Hammers
<1>2. ASSUME NEW m \in Members(week, s)
      PROVE  /\ KitIsSound(week.members[m], back[m]) /\ back[m].special # "insanity"
             /\ back[m].kit = rows[m].kit /\ back[m].duty = rows[m].duty
  <2>1. back[m] = IF rows[m].special = "insanity" THEN [rows[m] EXCEPT !.special = "revive"] ELSE rows[m]
    BY <1>2 DEF Revert
  <2> HIDE DEF back
  <2>2. KitIsSound(week.members[m], rows[m])
    OBVIOUS
  <2>3. CASE rows[m].special = "insanity"
    <3>1. ~week.members[m].aura
      BY <2>2, <2>3 DEF KitIsSound
    <3>2. KitIsSound(week.members[m], [rows[m] EXCEPT !.special = "revive"])
      BY <2>2, <3>1, SpecialChanges
    <3> QED
      BY <2>1, <2>2, <2>3, <3>2 DEF KitIsSound
  <2> QED
    BY <2>1, <2>2, <2>3
<1>3. ASSUME NEW m \in Members(week, s)
      PROVE  all[m] = back[m]
  <2>1. all[m] = IF RoleOf(m) = "hammer" THEN [back[m] EXCEPT !.kit = HammerKit] ELSE back[m]
    BY <1>1, <1>3 DEF Hammers
  <2>2. KitIsSound(week.members[m], back[m]) /\ RoleOf(m) = week.members[m].role
    BY <1>2, TeamFacts
  <2> HIDE DEF back, all
  <2> QED
    BY <2>1, <2>2 DEF KitIsSound
<1>4. \A m \in Members(week, s) : week.members[m].aura => all[m].special = "aura"
  BY <1>2, <1>3 DEF KitIsSound
<1> QED
  BY <1>1, <1>2, <1>3, <1>4

\* The x members of a ranking are x at most.
LEMMA ExtremeIsSmall ==
    ASSUME NEW x \in Nat, NEW S, IsFiniteSet(S), NEW top \in Extreme(x, S)
    PROVE  top \subseteq S /\ IsFiniteSet(top) /\ Cardinality(top) \in Nat /\ Cardinality(top) <= x
<1>1. top \subseteq S /\ Cardinality(top) = IF x < Cardinality(S) THEN x ELSE Cardinality(S)
  BY DEF Extreme, kSubset
<1>2. Cardinality(S) \in Nat
  BY FS_CardinalityType
<1>3. IsFiniteSet(top) /\ Cardinality(top) \in Nat
  BY <1>1, FS_Subset, FS_CardinalityType
<1> QED
  BY <1>1, <1>2, <1>3

LEMMA ApplyInsanityKeeps == PipelineInv /\ ApplyInsanity => PipelineInv'
<1> SUFFICES ASSUME PipelineInv, ApplyInsanity PROVE PipelineInv'
  OBVIOUS
<1> DEFINE all == [s \in Bosses |-> Hammers(Revert(Read("insanity")[s].rows))]
           Able(s) == {m \in Team(s) : InsanityCandidate(all[s][m])}
           Insanes(s, top) == [m \in Team(s) |-> IF m \in top /\ all[s][m].special = "revive"
                                                THEN [all[s][m] EXCEPT !.special = "insanity"]
                                                ELSE all[s][m]]
           After(s, top, x) == [Read("insanity")[s] EXCEPT !.rows = Insanes(s, top), !.insanity = x]
<1>1. /\ running["insanity"] # <<>>
      /\ \E x, y \in Applied : \E top \in Extreme(x, Able("st")), low \in Extreme(y, Able("swarm")) :
           Save("insanity", [s \in Bosses |->
                 [Read("insanity")[s] EXCEPT !.rows = Insanes(s, IF s = "st" THEN top ELSE low),
                                             !.insanity = IF s = "st" THEN x ELSE y]])
  BY DEF ApplyInsanity, Bosses
<1>2. "insanity" \in Scripts
  BY DEF Scripts
<1>3. ASSUME NEW s \in Bosses, NEW x \in Nat, NEW top \in Extreme(x, Able(s))
      PROVE  BossIsSound(week, s, After(s, top, x))
  <2> DEFINE boss == Read("insanity")[s]
             a == all[s]
             rows == Insanes(s, top)
             after == After(s, top, x)
  <2>1. BossIsSound(week, s, boss)
    BY <1>1, <1>2, ReadIsSound
  <2>2. /\ DOMAIN boss.rows = Members(week, s)
        /\ \A m \in Members(week, s) : KitIsSound(week.members[m], boss.rows[m])
    BY <2>1 DEF BossIsSound
  <2>3. /\ DOMAIN a = Members(week, s)
        /\ \A m \in Members(week, s) :
             /\ KitIsSound(week.members[m], a[m])
             /\ a[m].special # "insanity" /\ (week.members[m].aura => a[m].special = "aura")
             /\ a[m].kit = boss.rows[m].kit /\ a[m].duty = boss.rows[m].duty
    <3> HIDE DEF boss
    <3>1. LET b == Hammers(Revert(boss.rows))
          IN  /\ DOMAIN b = Members(week, s)
              /\ \A m \in Members(week, s) :
                    /\ KitIsSound(week.members[m], b[m])
                    /\ b[m].special # "insanity" /\ (week.members[m].aura => b[m].special = "aura")
                    /\ b[m].kit = boss.rows[m].kit /\ b[m].duty = boss.rows[m].duty
      BY <2>2, InsaneRows
    <3> QED
      BY <3>1 DEF boss
  <2>4. Team(s) = Members(week, s) /\ IsFiniteSet(Team(s))
    BY TeamFacts
  <2>5. top \subseteq Able(s) /\ IsFiniteSet(top) /\ Cardinality(top) \in Nat /\ Cardinality(top) <= x
    <3>1. IsFiniteSet(Able(s))
      BY <2>4, FS_Subset
    <3> HIDE DEF Able
    <3> QED
      BY <1>3, <3>1, ExtremeIsSmall
  <2>6. /\ DOMAIN rows = Members(week, s) /\ rows = [m \in Members(week, s) |-> rows[m]]
        /\ \A m \in Members(week, s) :
             rows[m] = IF m \in top /\ a[m].special = "revive" THEN [a[m] EXCEPT !.special = "insanity"] ELSE a[m]
    BY <2>4
  <2>7. after = [boss EXCEPT !.rows = rows, !.insanity = x]
    OBVIOUS
  <2> HIDE DEF a, rows, boss, after
  <2>8. ASSUME NEW m \in Members(week, s)
        PROVE  /\ KitIsSound(week.members[m], rows[m])
               /\ rows[m].kit = boss.rows[m].kit /\ rows[m].duty = boss.rows[m].duty
               /\ rows[m].special = "insanity" => m \in top
    <3>1. CASE m \in top /\ a[m].special = "revive"
      <4>1. rows[m] = [a[m] EXCEPT !.special = "insanity"] /\ ~week.members[m].aura
        BY <2>3, <2>6, <3>1
      <4>2. KitIsSound(week.members[m], [a[m] EXCEPT !.special = "insanity"])
        BY <2>3, <4>1, SpecialChanges
      <4> QED
        BY <2>3, <3>1, <4>1, <4>2 DEF KitIsSound
    <3> QED
      BY <2>3, <2>6, <3>1
  <2>9. Insane(rows) \subseteq top
    BY <2>6, <2>8 DEF Insane
  <2>10. IsFiniteSet(Insane(rows)) /\ Cardinality(Insane(rows)) <= x
    <3>1. /\ IsFiniteSet(Insane(rows)) /\ Cardinality(Insane(rows)) <= Cardinality(top)
      BY <2>5, <2>9, FS_Subset
    <3>2. Cardinality(Insane(rows)) \in Nat
      BY <3>1, FS_CardinalityType
    <3> QED
      BY <2>5, <3>1, <3>2
  <2>11. Duties(rows) = Duties(boss.rows)
    BY <2>2, <2>6, <2>8, SameDuties
  <2>12. /\ after.rows = rows /\ after.insanity = x /\ IsBoss(after)
         /\ after.lab = boss.lab /\ after.duties = boss.duties /\ after.pollen = boss.pollen
         /\ after.drained = boss.drained
    BY <2>1, <2>7 DEF BossIsSound, IsBoss
  <2>13. BossIsSound(week, s, after)
    BY <2>1, <2>2, <2>6, <2>8, <2>10, <2>11, <2>12 DEF BossIsSound
  <2> QED
    BY <2>13 DEF after
<1> HIDE DEF Insanes, Able, all
<1>4. PICK x, y \in Applied : \E top \in Extreme(x, Able("st")), low \in Extreme(y, Able("swarm")) :
           Save("insanity", [s \in Bosses |->
                 [Read("insanity")[s] EXCEPT !.rows = Insanes(s, IF s = "st" THEN top ELSE low),
                                             !.insanity = IF s = "st" THEN x ELSE y]])
  BY <1>1
<1>5. PICK top \in Extreme(x, Able("st")), low \in Extreme(y, Able("swarm")) :
           Save("insanity", [s \in Bosses |->
                 [Read("insanity")[s] EXCEPT !.rows = Insanes(s, IF s = "st" THEN top ELSE low),
                                             !.insanity = IF s = "st" THEN x ELSE y]])
  BY <1>4
<1> DEFINE bosses == [s \in Bosses |-> [Read("insanity")[s] EXCEPT
                         !.rows = Insanes(s, IF s = "st" THEN top ELSE low), !.insanity = IF s = "st" THEN x ELSE y]]
<1>6. bosses["st"] = After("st", top, x) /\ bosses["swarm"] = After("swarm", low, y)
  BY DEF Bosses
<1>7. x \in Nat /\ y \in Nat
  BY PipelineAssumption
<1>8. \A t \in Bosses : BossIsSound(week, t, bosses[t])
  <2> HIDE DEF After, bosses
  <2>1. BossIsSound(week, "st", After("st", top, x)) /\ BossIsSound(week, "swarm", After("swarm", low, y))
    BY <1>3, <1>7 DEF Bosses
  <2> QED
    BY <1>6, <2>1 DEF Bosses
<1>9. bosses = [t \in Bosses |-> bosses[t]]
  OBVIOUS
<1>10. Save("insanity", bosses)
  BY <1>5
<1> HIDE DEF bosses
<1> QED
  BY <1>2, <1>8, <1>9, <1>10, SaveKeeps

\* The other scripts change kits and duties and count the duties again.
LEMMA BossChanges ==
    ASSUME PipelineInv, NEW s \in Bosses, NEW boss, BossIsSound(week, s, boss),
           NEW rows, DOMAIN rows = Members(week, s), rows = [m \in Members(week, s) |-> rows[m]],
           \A m \in Members(week, s) : /\ KitIsSound(week.members[m], rows[m])
                                       /\ rows[m].special = boss.rows[m].special,
           NEW after, IsBoss(after), after.rows = rows, after.lab = boss.lab,
           after.insanity = boss.insanity, after.duties = Duties(rows),
           after.pollen \subseteq Members(week, s),
           \A m \in after.pollen : week.members[m].role = "nature" /\ "toxic_pollen" \in rows[m].kit,
           \/ after.drained
           \/ /\ after.drained = boss.drained
              /\ \A m \in Members(week, s), skill \in {"smoke_burst", "frost_surge"} :
                   skill \in boss.rows[m].kit => skill \in rows[m].kit
    PROVE  BossIsSound(week, s, after)
<1>1. Insane(rows) = Insane(boss.rows)
  BY DEF Insane, BossIsSound
<1>2. after.drained \/ \A m \in Members(week, s), skill \in {"smoke_burst", "frost_surge"} :
                          skill \in after.lab[m].kit => skill \in rows[m].kit
  BY DEF BossIsSound
<1> QED
  BY <1>1, <1>2 DEF BossIsSound

LEMMA ApplyNatureKeeps == PipelineInv /\ ApplyNature => PipelineInv'
<1> SUFFICES ASSUME PipelineInv, ApplyNature PROVE PipelineInv'
  OBVIOUS
<1>1. PICK counts \in [Bosses -> Applied] :
         Save("nature", [s \in Bosses |->
             LET boss == Read("nature")[s]
                 rows == ToDps(boss.rows, BestArmed(counts[s], Convertible(s, boss.rows)))
             IN  [boss EXCEPT !.rows = rows, !.converted = counts[s],
                              !.duties = Recount(@, rows, {"healer", "dps"})]])
  BY DEF ApplyNature
<1>2. "nature" \in Scripts /\ running["nature"] # <<>>
  BY DEF Scripts, ApplyNature
<1> DEFINE bosses == [s \in Bosses |->
             LET boss == Read("nature")[s]
                 rows == ToDps(boss.rows, BestArmed(counts[s], Convertible(s, boss.rows)))
             IN  [boss EXCEPT !.rows = rows, !.converted = counts[s],
                              !.duties = Recount(@, rows, {"healer", "dps"})]]
<1>3. ASSUME NEW s \in Bosses PROVE BossIsSound(week, s, bosses[s])
  <2> DEFINE boss == Read("nature")[s]
             some == BestArmed(counts[s], Convertible(s, boss.rows))
             rows == ToDps(boss.rows, some)
             after == [boss EXCEPT !.rows = rows, !.converted = counts[s],
                              !.duties = Recount(boss.duties, rows, {"healer", "dps"})]
  <2>1. BossIsSound(week, s, boss)
    BY <1>2, ReadIsSound
  <2>2. Team(s) = Members(week, s) /\ \A m \in Team(s) : RoleOf(m) = week.members[m].role
    BY TeamFacts
  <2>3. \A m \in some : /\ m \in Members(week, s) /\ RoleOf(m) = "nature"
                        /\ boss.rows[m].duty = "healer"
                        /\ "smoke_burst" \notin boss.rows[m].kit /\ "frost_surge" \notin boss.rows[m].kit
    BY <2>2 DEF BestArmed, Convertible, NatureHealer, DebuffBackup
  <2>4. DOMAIN boss.rows = Members(week, s) /\ \A m \in Members(week, s) : KitIsSound(week.members[m], boss.rows[m])
    BY <2>1 DEF BossIsSound
  <2>5. /\ DOMAIN rows = Members(week, s) /\ rows = [m \in Members(week, s) |-> rows[m]]
        /\ \A m \in Members(week, s) :
             rows[m] = IF m \in some THEN [boss.rows[m] EXCEPT !.duty = "dps", !.kit = NatureDpsKit] ELSE boss.rows[m]
    BY <2>4 DEF ToDps
  <2>6. bosses[s] = after
    OBVIOUS
  <2> HIDE DEF boss, some, rows, after, bosses
  <2>7. ASSUME NEW m \in some
        PROVE  /\ KitIsSound(week.members[m], rows[m]) /\ rows[m].special = boss.rows[m].special
               /\ rows[m].duty = "dps" /\ rows[m].kit = NatureDpsKit
    <3>1. m \in Members(week, s) /\ week.members[m].role = "nature" /\ KitIsSound(week.members[m], boss.rows[m])
      BY <2>2, <2>3, <2>4
    <3>2. KitIsSound(week.members[m], [boss.rows[m] EXCEPT !.duty = "dps", !.kit = NatureDpsKit])
      BY <3>1, FixedKits, KitChanges DEF DutyNames, Ranged
    <3>3. rows[m] = [boss.rows[m] EXCEPT !.duty = "dps", !.kit = NatureDpsKit]
      BY <2>5, <3>1
    <3> QED
      BY <3>1, <3>2, <3>3 DEF KitIsSound
  <2>8. \A m \in Members(week, s) \ some : rows[m] = boss.rows[m]
    BY <2>5
  <2>9. \A m \in Members(week, s) : KitIsSound(week.members[m], rows[m]) /\ rows[m].special = boss.rows[m].special
    BY <2>4, <2>7, <2>8
  <2>10. Recount(boss.duties, rows, {"healer", "dps"}) = Duties(rows)
    <3>1. boss.duties = Duties(boss.rows)
      BY <2>1 DEF BossIsSound
    <3>2. \A m \in DOMAIN boss.rows : \/ rows[m].duty = boss.rows[m].duty
                                      \/ rows[m].duty \in {"healer", "dps"} /\ boss.rows[m].duty \in {"healer", "dps"}
      BY <2>3, <2>4, <2>7, <2>8
    <3>3. {"healer", "dps"} \in SUBSET DutyNames
      BY DEF DutyNames
    <3>4. DOMAIN rows = DOMAIN boss.rows
      BY <2>4, <2>5
    <3> DEFINE before == boss.rows
               some2 == {"healer", "dps"}
    <3>5. /\ some2 \in SUBSET DutyNames /\ DOMAIN rows = DOMAIN before
          /\ \A m \in DOMAIN before :
               rows[m].duty = before[m].duty \/ (rows[m].duty \in some2 /\ before[m].duty \in some2)
      BY <3>2, <3>3, <3>4
    <3> HIDE DEF before, some2
    <3>6. Recount(Duties(before), rows, some2) = Duties(rows)
      BY <3>5, RecountIsDuties
    <3> QED
      BY <3>1, <3>6 DEF before, some2
  <2>11. /\ IsBoss(after) /\ after.rows = rows /\ after.lab = boss.lab /\ after.insanity = boss.insanity
         /\ after.duties = Duties(rows) /\ after.pollen = boss.pollen /\ after.drained = boss.drained
    <3> DEFINE first == [boss EXCEPT !.rows = rows]
               second == [first EXCEPT !.converted = counts[s]]
    <3>1. IsBoss(boss)
      BY <2>1 DEF BossIsSound
    <3>2. first = [rows |-> rows, lab |-> boss.lab, duties |-> boss.duties, insanity |-> boss.insanity,
                   converted |-> boss.converted, pollen |-> boss.pollen, drained |-> boss.drained]
      BY <3>1 DEF IsBoss
    <3>3. second = [rows |-> rows, lab |-> boss.lab, duties |-> boss.duties, insanity |-> boss.insanity,
                    converted |-> counts[s], pollen |-> boss.pollen, drained |-> boss.drained]
      <4> HIDE DEF first
      <4> QED
        BY <3>2
    <3>4. after = [second EXCEPT !.duties = Duties(rows)]
      BY <2>10 DEF after
    <3> HIDE DEF second
    <3>5. after = [rows |-> rows, lab |-> boss.lab, duties |-> Duties(rows), insanity |-> boss.insanity,
                   converted |-> counts[s], pollen |-> boss.pollen, drained |-> boss.drained]
      BY <3>3, <3>4
    <3> QED
      BY <3>5 DEF IsBoss
  <2>12. \A m \in Members(week, s), skill \in {"smoke_burst", "frost_surge"} :
            skill \in boss.rows[m].kit => skill \in rows[m].kit
    BY <2>3, <2>8
  <2>13. boss.pollen \subseteq Members(week, s)
         /\ \A m \in boss.pollen : week.members[m].role = "nature" /\ "toxic_pollen" \in rows[m].kit
    BY <2>1, <2>7, <2>8, FixedKits DEF BossIsSound
  <2>14. BossIsSound(week, s, after)
    BY <2>1, <2>5, <2>9, <2>11, <2>12, <2>13, BossChanges
  <2> QED
    BY <2>6, <2>14
<1>4. bosses = [t \in Bosses |-> bosses[t]]
  OBVIOUS
<1>5. Save("nature", bosses)
  BY <1>1
<1> HIDE DEF bosses
<1> QED
  BY <1>2, <1>3, <1>4, <1>5, SaveKeeps

LEMMA ApplyHealersKeeps == PipelineInv /\ ApplyHealers => PipelineInv'
<1> SUFFICES ASSUME PipelineInv, ApplyHealers PROVE PipelineInv'
  OBVIOUS
<1> DEFINE all == Read("healers")
           boss == all["st"]
           natures == {m \in Team("st") : RoleOf(m) = "nature"}
           rows(some) == [m \in Team("st") |->
               IF m \in natures
               THEN [boss.rows[m] EXCEPT !.duty = "healer", !.kit = IF m \in some THEN PollenKit ELSE DrainKit]
               ELSE boss.rows[m]]
           made(some) == [boss EXCEPT !.rows = rows(some), !.converted = 0, !.pollen = some, !.drained = TRUE,
                                      !.duties = Recount(boss.duties, rows(some), {"healer", "dps"})]
<1>1. \E some \in Extreme(PollenSeats, natures) : Save("healers", [all EXCEPT !["st"] = made(some)])
  BY DEF ApplyHealers
<1>2. "healers" \in Scripts /\ running["healers"] # <<>> /\ "st" \in Bosses
  BY DEF Scripts, ApplyHealers, Bosses
<1>3. all = [t \in Bosses |-> all[t]] /\ \A t \in Bosses : BossIsSound(week, t, all[t])
  <2> HIDE DEF boss, natures, rows, made
  <2> QED
    BY <1>2, ReadIsSound
<1>4. ASSUME NEW some \in Extreme(PollenSeats, natures) PROVE BossIsSound(week, "st", made(some))
  <2> DEFINE r == rows(some)
             after == made(some)
  <2>1. BossIsSound(week, "st", boss)
    BY <1>2, <1>3
  <2>2. Team("st") = Members(week, "st") /\ \A m \in Team("st") : RoleOf(m) = week.members[m].role
    BY <1>2, TeamFacts
  <2>3. /\ DOMAIN boss.rows = Members(week, "st")
        /\ \A m \in Members(week, "st") : KitIsSound(week.members[m], boss.rows[m])
    BY <2>1 DEF BossIsSound
  <2>4. some \subseteq natures
    BY <1>4 DEF Extreme, kSubset
  <2>5. /\ DOMAIN r = Members(week, "st") /\ r = [m \in Members(week, "st") |-> r[m]]
        /\ \A m \in Members(week, "st") :
             r[m] = IF m \in natures
                    THEN [boss.rows[m] EXCEPT !.duty = "healer", !.kit = IF m \in some THEN PollenKit ELSE DrainKit]
                    ELSE boss.rows[m]
    BY <2>2
  <2>6. \A m : m \in natures <=> m \in Members(week, "st") /\ week.members[m].role = "nature"
    BY <2>2
  <2>7. after = [boss EXCEPT !.rows = r, !.converted = 0, !.pollen = some, !.drained = TRUE,
                             !.duties = Recount(boss.duties, r, {"healer", "dps"})]
    OBVIOUS
  <2> HIDE DEF all, boss, natures, rows, made, r, after
  <2>8. ASSUME NEW m \in natures
        PROVE  /\ KitIsSound(week.members[m], r[m]) /\ r[m].special = boss.rows[m].special
               /\ r[m].duty = "healer" /\ (m \in some => r[m].kit = PollenKit)
    <3> DEFINE kit == IF m \in some THEN PollenKit ELSE DrainKit
    <3>1. m \in Members(week, "st") /\ week.members[m].role = "nature" /\ KitIsSound(week.members[m], boss.rows[m])
      BY <2>3, <2>6
    <3>2. r[m] = [boss.rows[m] EXCEPT !.duty = "healer", !.kit = kit]
      BY <2>5, <3>1
    <3>3. IsKit(kit) /\ "rejuvenate" \in kit /\ (m \in some => kit = PollenKit)
      BY FixedKits
    <3> HIDE DEF kit
    <3>4. KitIsSound(week.members[m], [boss.rows[m] EXCEPT !.duty = "healer", !.kit = kit])
      BY <3>1, <3>3, KitChanges DEF DutyNames, Ranged
    <3> QED
      BY <3>1, <3>2, <3>3, <3>4 DEF KitIsSound
  <2>9. \A m \in Members(week, "st") \ natures : r[m] = boss.rows[m]
    BY <2>5
  <2>10. \A m \in Members(week, "st") : KitIsSound(week.members[m], r[m]) /\ r[m].special = boss.rows[m].special
    BY <2>3, <2>8, <2>9
  <2>11. Recount(boss.duties, r, {"healer", "dps"}) = Duties(r)
    <3> DEFINE before == boss.rows
               two == {"healer", "dps"}
    <3>1. boss.duties = Duties(before)
      BY <2>1 DEF BossIsSound
    <3>2. \A m \in natures : before[m].duty \in two
      BY <2>3, <2>6 DEF KitIsSound
    <3>3. /\ two \in SUBSET DutyNames /\ DOMAIN r = DOMAIN before
          /\ \A m \in DOMAIN before :
               r[m].duty = before[m].duty \/ (r[m].duty \in two /\ before[m].duty \in two)
      BY <2>3, <2>5, <2>8, <2>9, <3>2 DEF DutyNames
    <3> HIDE DEF before, two
    <3>4. Recount(Duties(before), r, two) = Duties(r)
      BY <3>3, RecountIsDuties
    <3> QED
      BY <3>1, <3>4 DEF before, two
  <2>12. /\ IsBoss(after) /\ after.rows = r /\ after.lab = boss.lab /\ after.insanity = boss.insanity
         /\ after.duties = Duties(r) /\ after.pollen = some /\ after.drained = TRUE
    <3> DEFINE a == [boss EXCEPT !.rows = r]
               b == [a EXCEPT !.converted = 0]
               c == [b EXCEPT !.pollen = some]
               yes == TRUE
               d == [c EXCEPT !.drained = yes]
    <3>1. IsBoss(boss)
      BY <2>1 DEF BossIsSound
    <3>2. a = [rows |-> r, lab |-> boss.lab, duties |-> boss.duties, insanity |-> boss.insanity,
               converted |-> boss.converted, pollen |-> boss.pollen, drained |-> boss.drained]
      BY <3>1 DEF IsBoss
    <3>3. b = [rows |-> r, lab |-> boss.lab, duties |-> boss.duties, insanity |-> boss.insanity,
               converted |-> 0, pollen |-> boss.pollen, drained |-> boss.drained]
      <4> HIDE DEF a
      <4> QED
        BY <3>2
    <3>4. c = [rows |-> r, lab |-> boss.lab, duties |-> boss.duties, insanity |-> boss.insanity,
               converted |-> 0, pollen |-> some, drained |-> boss.drained]
      <4> HIDE DEF b
      <4> QED
        BY <3>3
    <3>5. d = [rows |-> r, lab |-> boss.lab, duties |-> boss.duties, insanity |-> boss.insanity,
               converted |-> 0, pollen |-> some, drained |-> yes]
      <4> HIDE DEF c, yes
      <4> QED
        BY <3>4
    <3>6. after = [d EXCEPT !.duties = Duties(r)]
      BY <2>7, <2>11
    <3> HIDE DEF d
    <3>7. after = [rows |-> r, lab |-> boss.lab, duties |-> Duties(r), insanity |-> boss.insanity,
                   converted |-> 0, pollen |-> some, drained |-> TRUE]
      BY <3>5, <3>6
    <3> QED
      BY <3>7 DEF IsBoss
  <2>13. some \subseteq Members(week, "st")
         /\ \A m \in some : week.members[m].role = "nature" /\ "toxic_pollen" \in r[m].kit
    BY <2>4, <2>6, <2>8, FixedKits
  <2>14. BossIsSound(week, "st", after)
    BY <1>2, <2>1, <2>5, <2>10, <2>12, <2>13, BossChanges
  <2> QED
    BY <2>14 DEF after
<1> HIDE DEF natures, rows, made
<1>5. PICK some \in Extreme(PollenSeats, natures) : Save("healers", [all EXCEPT !["st"] = made(some)])
  BY <1>1
<1> DEFINE bosses == [all EXCEPT !["st"] = made(some)]
<1> HIDE DEF all
<1>6. bosses = [t \in Bosses |-> bosses[t]] /\ \A t \in Bosses : BossIsSound(week, t, bosses[t])
  BY <1>2, <1>3, <1>4
<1>7. Save("healers", bosses)
  BY <1>5
<1> HIDE DEF bosses
<1> QED
  BY <1>2, <1>6, <1>7, SaveKeeps

LEMMA ApplyRangedKeeps == PipelineInv /\ ApplyRanged => PipelineInv'
<1> SUFFICES ASSUME PipelineInv, ApplyRanged PROVE PipelineInv'
  OBVIOUS
<1> DEFINE all == Read("ranged")
           boss == all["st"]
           archers == {m \in Team("st") : RoleOf(m) \in Ranged}
           rows(some) == [m \in Team("st") |->
               IF m \notin archers THEN boss.rows[m]
               ELSE IF m \in some THEN [boss.rows[m] EXCEPT !.duty = "debuffer", !.kit = PestilentKit(@)]
               ELSE [boss.rows[m] EXCEPT !.duty = "dps", !.kit = SteadyKit(@)]]
           made(some) == [boss EXCEPT !.rows = rows(some),
                                      !.duties = Recount(boss.duties, rows(some), {"debuffer", "dps"})]
<1>1. \E some \in Extreme(PestilentSeats, archers) : Save("ranged", [all EXCEPT !["st"] = made(some)])
  BY DEF ApplyRanged
<1>2. "ranged" \in Scripts /\ running["ranged"] # <<>> /\ "st" \in Bosses
  BY DEF Scripts, ApplyRanged, Bosses
<1>3. all = [t \in Bosses |-> all[t]] /\ \A t \in Bosses : BossIsSound(week, t, all[t])
  <2> HIDE DEF boss, archers, rows, made
  <2> QED
    BY <1>2, ReadIsSound
<1>4. ASSUME NEW some \in Extreme(PestilentSeats, archers) PROVE BossIsSound(week, "st", made(some))
  <2> DEFINE r == rows(some)
             after == made(some)
  <2>1. BossIsSound(week, "st", boss)
    BY <1>2, <1>3
  <2>2. Team("st") = Members(week, "st") /\ \A m \in Team("st") : RoleOf(m) = week.members[m].role
    BY <1>2, TeamFacts
  <2>3. /\ DOMAIN boss.rows = Members(week, "st")
        /\ \A m \in Members(week, "st") : KitIsSound(week.members[m], boss.rows[m])
    BY <2>1 DEF BossIsSound
  <2>5. /\ DOMAIN r = Members(week, "st") /\ r = [m \in Members(week, "st") |-> r[m]]
        /\ \A m \in Members(week, "st") :
             r[m] = IF m \notin archers THEN boss.rows[m]
                    ELSE IF m \in some
                    THEN [boss.rows[m] EXCEPT !.duty = "debuffer", !.kit = PestilentKit(boss.rows[m].kit)]
                    ELSE [boss.rows[m] EXCEPT !.duty = "dps", !.kit = SteadyKit(boss.rows[m].kit)]
    BY <2>2
  <2>6. \A m : m \in archers <=> m \in Members(week, "st") /\ week.members[m].role \in Ranged
    BY <2>2
  <2>7. after = [boss EXCEPT !.rows = r, !.duties = Recount(boss.duties, r, {"debuffer", "dps"})]
    OBVIOUS
  <2> HIDE DEF all, boss, archers, rows, made, r, after
  <2>8. ASSUME NEW m \in archers
        PROVE  /\ KitIsSound(week.members[m], r[m]) /\ r[m].special = boss.rows[m].special
               /\ r[m].duty \in {"debuffer", "dps"}
               /\ \A skill \in {"smoke_burst", "frost_surge"} : skill \in boss.rows[m].kit => skill \in r[m].kit
    <3> DEFINE kit == IF m \in some THEN PestilentKit(boss.rows[m].kit) ELSE SteadyKit(boss.rows[m].kit)
               duty == IF m \in some THEN "debuffer" ELSE "dps"
               old == boss.rows[m].kit
    <3>1. /\ m \in Members(week, "st") /\ KitIsSound(week.members[m], boss.rows[m])
          /\ week.members[m].role # "nature" /\ week.members[m].role # "hammer"
      BY <2>3, <2>6 DEF Ranged
    <3>2. r[m] = [boss.rows[m] EXCEPT !.duty = duty, !.kit = kit]
      BY <2>5, <3>1
    <3>3. IsKit(old) /\ "rejuvenate" \notin old
      BY <3>1 DEF KitIsSound
    <3>4. /\ IsKit(kit) /\ "rejuvenate" \notin kit
          /\ \A skill \in {"smoke_burst", "frost_surge"} : skill \in old => skill \in kit
      BY <3>3, SwappedKits
    <3>5. duty \in {"debuffer", "dps"} /\ duty \in DutyNames
      BY DEF DutyNames
    <3> HIDE DEF kit, duty
    <3>6. KitIsSound(week.members[m], [boss.rows[m] EXCEPT !.duty = duty, !.kit = kit])
      BY <3>1, <3>4, <3>5, KitChanges
    <3>7. boss.rows[m] = [duty |-> boss.rows[m].duty, special |-> boss.rows[m].special, kit |-> boss.rows[m].kit]
      BY <3>1 DEF KitIsSound
    <3>8. r[m].duty = duty /\ r[m].kit = kit /\ r[m].special = boss.rows[m].special
      BY <3>2, <3>7
    <3> QED
      BY <3>2, <3>4, <3>5, <3>6, <3>8
  <2>9. \A m \in Members(week, "st") \ archers : r[m] = boss.rows[m]
    BY <2>5
  <2>10. \A m \in Members(week, "st") : KitIsSound(week.members[m], r[m]) /\ r[m].special = boss.rows[m].special
    BY <2>3, <2>8, <2>9
  <2>11. Recount(boss.duties, r, {"debuffer", "dps"}) = Duties(r)
    <3> DEFINE before == boss.rows
               two == {"debuffer", "dps"}
    <3>1. boss.duties = Duties(before)
      BY <2>1 DEF BossIsSound
    <3>2. \A m \in archers : before[m].duty \in two
      BY <2>3, <2>6 DEF KitIsSound
    <3>3. /\ two \in SUBSET DutyNames /\ DOMAIN r = DOMAIN before
          /\ \A m \in DOMAIN before :
               r[m].duty = before[m].duty \/ (r[m].duty \in two /\ before[m].duty \in two)
      BY <2>3, <2>5, <2>8, <2>9, <3>2 DEF DutyNames
    <3> HIDE DEF before, two
    <3>4. Recount(Duties(before), r, two) = Duties(r)
      BY <3>3, RecountIsDuties
    <3> QED
      BY <3>1, <3>4 DEF before, two
  <2>12. /\ IsBoss(after) /\ after.rows = r /\ after.lab = boss.lab /\ after.insanity = boss.insanity
         /\ after.duties = Duties(r) /\ after.pollen = boss.pollen /\ after.drained = boss.drained
    <3> DEFINE a == [boss EXCEPT !.rows = r]
    <3>1. IsBoss(boss)
      BY <2>1 DEF BossIsSound
    <3>2. a = [rows |-> r, lab |-> boss.lab, duties |-> boss.duties, insanity |-> boss.insanity,
               converted |-> boss.converted, pollen |-> boss.pollen, drained |-> boss.drained]
      BY <3>1 DEF IsBoss
    <3>3. after = [a EXCEPT !.duties = Duties(r)]
      BY <2>7, <2>11
    <3> HIDE DEF a
    <3>4. after = [rows |-> r, lab |-> boss.lab, duties |-> Duties(r), insanity |-> boss.insanity,
                   converted |-> boss.converted, pollen |-> boss.pollen, drained |-> boss.drained]
      BY <3>2, <3>3
    <3> QED
      BY <3>4 DEF IsBoss
  <2>13. boss.pollen \subseteq Members(week, "st")
         /\ \A m \in boss.pollen : week.members[m].role = "nature" /\ "toxic_pollen" \in r[m].kit
    BY <2>1, <2>6, <2>9 DEF BossIsSound, Ranged
  <2>14. \A m \in Members(week, "st"), skill \in {"smoke_burst", "frost_surge"} :
            skill \in boss.rows[m].kit => skill \in r[m].kit
    BY <2>8, <2>9
  <2>15. BossIsSound(week, "st", after)
    <3> DEFINE st == "st"
    <3>1. st \in Bosses /\ BossIsSound(week, st, boss)
      BY <1>2, <2>1
    <3>2. /\ DOMAIN r = Members(week, st) /\ r = [m \in Members(week, st) |-> r[m]]
          /\ \A m \in Members(week, st) :
               KitIsSound(week.members[m], r[m]) /\ r[m].special = boss.rows[m].special
      BY <2>5, <2>10
    <3>3. /\ after.pollen \subseteq Members(week, st)
          /\ \A m \in after.pollen : week.members[m].role = "nature" /\ "toxic_pollen" \in r[m].kit
      BY <2>12, <2>13
    <3>4. \A m \in Members(week, st), skill \in {"smoke_burst", "frost_surge"} :
            skill \in boss.rows[m].kit => skill \in r[m].kit
      BY <2>14
    <3> HIDE DEF st
    <3>5. BossIsSound(week, st, after)
      BY <2>12, <3>1, <3>2, <3>3, <3>4, BossChanges
    <3> QED
      BY <3>5 DEF st
  <2> QED
    BY <2>15 DEF after
<1> HIDE DEF archers, rows, made
<1>5. PICK some \in Extreme(PestilentSeats, archers) : Save("ranged", [all EXCEPT !["st"] = made(some)])
  BY <1>1
<1> DEFINE bosses == [all EXCEPT !["st"] = made(some)]
<1> HIDE DEF all
<1>6. bosses = [t \in Bosses |-> bosses[t]] /\ \A t \in Bosses : BossIsSound(week, t, bosses[t])
  BY <1>2, <1>3, <1>4
<1>7. Save("ranged", bosses)
  BY <1>5
<1> HIDE DEF bosses
<1> QED
  BY <1>2, <1>6, <1>7, SaveKeeps

LEMMA PipelineNextInv == PipelineInv /\ [PipelineNext]_pipelineVars => PipelineInv'
<1>1. PipelineInv /\ UNCHANGED pipelineVars => PipelineInv'
  BY DEF PipelineInv, pipelineVars
<1> QED
  BY <1>1, RunLabKeeps, ScriptStarts, ApplyInsanityKeeps, ApplyNatureKeeps, ApplyHealersKeeps,
     ApplyRangedKeeps DEF PipelineNext

LEMMA PipelineInvSound == PipelineInv => TeamsStaySound
<1> SUFFICES ASSUME PipelineInv, file # <<>>, NEW s \in Bosses
    PROVE  LET boss == file[1][s]
           IN  /\ InsaneAreCounted(boss)
               /\ boss.duties = Duties(boss.rows)
               /\ \A m \in Team(s) : /\ Cardinality(boss.rows[m].kit) = 4
                                     /\ NatureHealer(m, boss.rows[m]) <=> "rejuvenate" \in boss.rows[m].kit
               /\ boss.pollen \subseteq Carriers(boss.rows, "toxic_pollen")
               /\ boss.drained \/ CoverageKept(boss)
  BY DEF TeamsStaySound
<1> DEFINE boss == file[1][s]
<1>1. BossIsSound(week, s, boss)
  BY DEF PipelineInv, FileIsSound
<1>2. Team(s) = Members(week, s) /\ IsFiniteSet(Team(s)) /\ \A m \in Team(s) : RoleOf(m) = week.members[m].role
  BY TeamFacts
<1> HIDE DEF boss
<1>3. InsaneAreCounted(boss)
  <2>1. \A m \in Members(week, s) : boss.rows[m].special = "insanity" => ~week.members[m].aura
    BY <1>1 DEF BossIsSound, KitIsSound
  <2> QED
    BY <1>1, <2>1 DEF InsaneAreCounted, BossIsSound, Insane
<1>4. ASSUME NEW m \in Team(s)
      PROVE  /\ Cardinality(boss.rows[m].kit) = 4
             /\ NatureHealer(m, boss.rows[m]) <=> "rejuvenate" \in boss.rows[m].kit
  <2>1. KitIsSound(week.members[m], boss.rows[m])
    BY <1>1, <1>2 DEF BossIsSound
  <2> QED
    BY <1>2, <2>1 DEF KitIsSound, IsKit, NatureHealer
<1>5. boss.pollen \subseteq Carriers(boss.rows, "toxic_pollen")
  BY <1>1 DEF BossIsSound, Carriers
<1>6. ASSUME ~boss.drained PROVE CoverageKept(boss)
  <2> SUFFICES ASSUME NEW skill \in {"smoke_burst", "frost_surge"}
      PROVE  Cardinality(Carriers(boss.rows, skill)) >= Cardinality(Carriers(boss.lab, skill))
    BY DEF CoverageKept
  <2>1. Carriers(boss.lab, skill) \subseteq Carriers(boss.rows, skill)
    BY <1>1, <1>6 DEF BossIsSound, Carriers
  <2>2. Carriers(boss.rows, skill) \subseteq Team(s)
    BY <1>1, <1>2 DEF BossIsSound, Carriers
  <2>3. IsFiniteSet(Carriers(boss.rows, skill))
    BY <1>2, <2>2, FS_Subset
  <2>4. IsFiniteSet(Carriers(boss.lab, skill))
        /\ Cardinality(Carriers(boss.lab, skill)) <= Cardinality(Carriers(boss.rows, skill))
    BY <2>1, <2>3, FS_Subset
  <2>5. Cardinality(Carriers(boss.lab, skill)) \in Nat /\ Cardinality(Carriers(boss.rows, skill)) \in Nat
    BY <2>3, <2>4, FS_CardinalityType
  <2> QED
    BY <2>4, <2>5
<1>7. boss.duties = Duties(boss.rows)
  BY <1>1 DEF BossIsSound
<1> QED
  BY <1>3, <1>4, <1>5, <1>6, <1>7 DEF boss

\* Whatever members, packages and numbers an operator applies there are, and however often
\* the lab runs while scripts hold copies of its file: the teams in the file stay sound.
THEOREM TeamsStaySoundHolds == PipelineSpec => []TeamsStaySound
<1>1. PipelineSpec => []PipelineInv
  BY PipelineInitInv, PipelineNextInv, PTL DEF PipelineSpec
<1> QED
  BY <1>1, PipelineInvSound, PTL

-----------------------------------------------------------------------------
(* The composition lab: orders and seats *)

\* Who is ahead of whom in S is an order: nobody of himself, one of any two of the other,
\* and who is ahead of one is ahead of all whom that one is ahead of.
Chain(S, ahead) ==
    /\ ahead \in [S -> SUBSET S]
    /\ \A x, y \in S :
          /\ x \notin ahead[x]
          /\ x # y => x \in ahead[y] \/ y \in ahead[x]
          /\ x \in ahead[y] => ahead[x] \subseteq ahead[y]

\* The numbers of those ahead are 0, 1, 2 and so on.
LEMMA ChainRanks ==
    ASSUME NEW S, IsFiniteSet(S), NEW ahead, Chain(S, ahead)
    PROVE  /\ \A x \in S : Cardinality(ahead[x]) \in 0..(Cardinality(S) - 1)
           /\ \A x, y \in S : Cardinality(ahead[x]) = Cardinality(ahead[y]) => x = y
           /\ \A k \in 0..(Cardinality(S) - 1) : \E x \in S : Cardinality(ahead[x]) = k
<1> DEFINE rank == [x \in S |-> Cardinality(ahead[x])]
           n == Cardinality(S)
<1>1. n \in Nat
  BY FS_CardinalityType
<1>2. ASSUME NEW x \in S PROVE IsFiniteSet(ahead[x]) /\ Cardinality(ahead[x]) \in 0..(n - 1)
  <2>1. ahead[x] \subseteq S \ {x}
    BY DEF Chain
  <2>2. IsFiniteSet(S \ {x}) /\ Cardinality(S \ {x}) = n - 1
    BY FS_RemoveElement
  <2>3. IsFiniteSet(ahead[x]) /\ Cardinality(ahead[x]) <= n - 1
    BY <2>1, <2>2, FS_Subset
  <2> QED
    BY <1>1, <2>3, FS_CardinalityType
<1>3. ASSUME NEW x \in S, NEW y \in S, x \in ahead[y]
      PROVE  Cardinality(ahead[x]) # Cardinality(ahead[y])
  <2>1. ahead[x] \subseteq ahead[y] /\ x \notin ahead[x]
    BY <1>3 DEF Chain
  <2> QED
    BY <1>2, <1>3, <2>1, FS_Subset
<1>4. \A x, y \in S : Cardinality(ahead[x]) = Cardinality(ahead[y]) => x = y
  BY <1>3 DEF Chain
<1>5. rank \in Injection(S, 0..(n - 1))
  BY <1>2, <1>4 DEF Injection, IsInjective
<1>6. IsFiniteSet(0..(n - 1)) /\ Cardinality(0..(n - 1)) = n
  BY <1>1, FS_Interval
<1>7. rank \in Surjection(S, 0..(n - 1))
  BY <1>5, <1>6, FS_Injection
<1>8. ASSUME NEW k \in 0..(n - 1) PROVE \E x \in S : Cardinality(ahead[x]) = k
  BY <1>7 DEF Surjection
<1> QED
  BY <1>2, <1>4, <1>8

\* The first k of S are k, or all of S; who is not among them comes too late.
LEMMA FirstFewAre ==
    ASSUME NEW S, IsFiniteSet(S), NEW ahead, Chain(S, ahead), NEW k \in Nat
    PROVE  /\ FirstFew(S, ahead, k) \subseteq S
           /\ IsFiniteSet(FirstFew(S, ahead, k))
           /\ Cardinality(FirstFew(S, ahead, k)) = Least(k, Cardinality(S))
           /\ FirstFew(S, ahead, k) # S => Cardinality(FirstFew(S, ahead, k)) = k
<1> DEFINE F == FirstFew(S, ahead, k)
           n == Cardinality(S)
           l == Least(k, n)
           rank == [x \in F |-> Cardinality(ahead[x])]
<1>1. n \in Nat
  BY FS_CardinalityType
<1>2. F \subseteq S
  BY DEF FirstFew
<1>3. l \in Nat /\ l <= k /\ l <= n /\ (l = k \/ l = n)
  BY <1>1 DEF Least
<1>4. rank \in Injection(F, 0..(l - 1))
  <2>1. ASSUME NEW x \in F PROVE rank[x] \in 0..(l - 1)
    BY <1>1, <1>2, <1>3, ChainRanks DEF FirstFew
  <2>2. ASSUME NEW x \in F, NEW y \in F, rank[x] = rank[y] PROVE x = y
    BY <1>2, <2>2, ChainRanks
  <2> QED
    BY <2>1, <2>2 DEF Injection, IsInjective
<1>5. rank \in Surjection(F, 0..(l - 1))
  <2>1. ASSUME NEW i \in 0..(l - 1) PROVE \E x \in F : rank[x] = i
    <3>1. i \in 0..(n - 1)
      BY <1>1, <1>3
    <3>2. PICK x \in S : Cardinality(ahead[x]) = i
      BY <3>1, ChainRanks
    <3>3. i < k
      BY <1>3
    <3>4. x \in F
      BY <3>2, <3>3 DEF FirstFew
    <3> QED
      BY <3>2, <3>4
  <2> QED
    BY <1>4, <2>1 DEF Surjection, Injection
<1>6. IsFiniteSet(0..(l - 1)) /\ Cardinality(0..(l - 1)) = l
  <2> HIDE DEF l
  <2> QED
    BY <1>3, FS_Interval
<1>7. IsFiniteSet(F) /\ Cardinality(F) = l
  <2> DEFINE T == 0..(l - 1)
             g == rank
  <2>1. g \in Injection(F, T) /\ g \in Surjection(F, T) /\ IsFiniteSet(T) /\ Cardinality(T) = l
    BY <1>4, <1>5, <1>6
  <2> HIDE DEF F, T, g
  <2> QED
    BY <2>1, FS_Injection
<1>8. F # S => l # n
  BY <1>2, <1>7, FS_Subset
<1> QED
  BY <1>2, <1>3, <1>7, <1>8

\* A list in order has every one of S once.
LEMMA InOrderIs ==
    ASSUME NEW S, IsFiniteSet(S), NEW ahead, Chain(S, ahead)
    PROVE  /\ InOrder(S, ahead) \in Seq(S)
           /\ Len(InOrder(S, ahead)) = Cardinality(S)
           /\ Entries(InOrder(S, ahead)) = S
           /\ \A i, j \in 1..Cardinality(S) :
                 InOrder(S, ahead)[i] = InOrder(S, ahead)[j] => i = j
<1> DEFINE row == InOrder(S, ahead)
           n == Cardinality(S)
<1>1. n \in Nat
  BY FS_CardinalityType
<1>2. ASSUME NEW i \in 1..n PROVE row[i] \in S /\ Cardinality(ahead[row[i]]) = i - 1
  <2>1. i - 1 \in 0..(n - 1)
    BY <1>1
  <2>2. \E x \in S : Cardinality(ahead[x]) = i - 1
    BY <2>1, ChainRanks
  <2>3. row[i] = CHOOSE x \in S : Cardinality(ahead[x]) = i - 1
    BY DEF InOrder
  <2> QED
    BY <2>2, <2>3
<1>3. row \in Seq(S) /\ Len(row) = n /\ DOMAIN row = 1..n
  <2>1. row = [i \in 1..n |-> row[i]]
    BY DEF InOrder
  <2>2. row \in [1..n -> S]
    BY <1>2, <2>1
  <2> QED
    BY <1>1, <2>2
<1>4. ASSUME NEW x \in S PROVE \E i \in 1..n : row[i] = x
  <2>1. Cardinality(ahead[x]) \in 0..(n - 1)
    BY ChainRanks
  <2>2. PICK i \in 1..n : Cardinality(ahead[x]) = i - 1
    BY <1>1, <2>1, Cardinality(ahead[x]) + 1 \in 1..n
  <2>3. row[i] = x
    BY <1>2, <2>2, ChainRanks
  <2> QED
    BY <2>3
<1>5. Entries(row) = S
  BY <1>2, <1>3, <1>4 DEF Entries
<1>6. ASSUME NEW i \in 1..n, NEW j \in 1..n, row[i] = row[j] PROVE i = j
  BY <1>1, <1>2, <1>6
<1> QED
  BY <1>3, <1>5, <1>6

\* Someone comes first.
LEMMA ForemostIs ==
    ASSUME NEW S, IsFiniteSet(S), S # {}, NEW ahead, Chain(S, ahead)
    PROVE  /\ Foremost(S, ahead) \in S
           /\ \A x \in S : x \notin ahead[Foremost(S, ahead)]
           /\ \A x \in S : x # Foremost(S, ahead) => Foremost(S, ahead) \in ahead[x]
<1>1. Cardinality(S) \in Nat /\ Cardinality(S) # 0
  BY FS_CardinalityType, FS_EmptySet
<1>2. 0 \in 0..(Cardinality(S) - 1)
  BY <1>1
<1>3. PICK x \in S : Cardinality(ahead[x]) = 0
  BY <1>2, ChainRanks
<1>4. IsFiniteSet(ahead[x])
  BY FS_Subset DEF Chain
<1>5. ahead[x] = {}
  BY <1>3, <1>4, FS_EmptySet
<1>6. Foremost(S, ahead) \in S /\ ahead[Foremost(S, ahead)] = {}
  BY <1>5 DEF Foremost
<1> QED
  BY <1>6 DEF Chain

\* The seats of roles with so many members each.
SeatsFor(count) == {s \in Roles \X (Nat \ {0}) : s[2] <= count[s[1]]}

\* What is left of a number and how often another fits into it.
LEMMA Division ==
    ASSUME NEW m \in Nat, NEW b \in Nat \ {0}
    PROVE  /\ m \div b \in Nat /\ m % b \in 0..(b - 1)
           /\ m = b * (m \div b) + (m % b)
  OBVIOUS

\* Counts that are smaller by a factor have seats that are fewer by this factor.
LEMMA ScaledSeats ==
    ASSUME NEW f \in [Roles -> Nat], NEW g \in [Roles -> Nat],
           NEW a \in Nat \ {0}, NEW b \in Nat \ {0},
           IsFiniteSet(SeatsFor(f)), IsFiniteSet(SeatsFor(g)),
           \A r \in Roles : f[r] * a <= g[r] * b
    PROVE  Cardinality(SeatsFor(f)) * a <= Cardinality(SeatsFor(g)) * b
<1> DEFINE A == SeatsFor(f) \X (1..a)
           B == SeatsFor(g) \X (1..b)
           Nr(p) == (p[1][2] - 1) * a + p[2] - 1
           h == [p \in A |-> <<<<p[1][1], Nr(p) \div b + 1>>, (Nr(p) % b) + 1>>]
<1>1. IsFiniteSet(A) /\ Cardinality(A) = Cardinality(SeatsFor(f)) * a
  <2>1. IsFiniteSet(1..a) /\ Cardinality(1..a) = a
    BY FS_Interval
  <2> QED
    BY <2>1, FS_Product
<1>2. IsFiniteSet(B) /\ Cardinality(B) = Cardinality(SeatsFor(g)) * b
  <2>1. IsFiniteSet(1..b) /\ Cardinality(1..b) = b
    BY FS_Interval
  <2> QED
    BY <2>1, FS_Product
<1>3. ASSUME NEW p \in A
      PROVE  /\ p[1][1] \in Roles /\ p[1][2] \in Nat \ {0} /\ p[1][2] <= f[p[1][1]]
             /\ p[2] \in 1..a /\ p = <<<<p[1][1], p[1][2]>>, p[2]>>
  BY DEF SeatsFor
<1>4. ASSUME NEW p \in A PROVE Nr(p) \in Nat /\ Nr(p) < f[p[1][1]] * a
  <2> DEFINE i == p[1][2]
             j == p[2]
             c == f[p[1][1]]
  <2>1. i \in Nat \ {0} /\ i <= c /\ j \in 1..a /\ c \in Nat
    BY <1>3
  <2> HIDE DEF i, j, c
  <2>2. (i - 1) * a \in Nat /\ (i - 1) * a + a = i * a /\ i * a <= c * a
    BY <2>1
  <2>3. (i - 1) * a + j - 1 \in Nat /\ (i - 1) * a + j - 1 < c * a
    BY <2>1, <2>2
  <2> QED
    BY <2>3 DEF i, j, c
<1>5. ASSUME NEW p \in A PROVE h[p] \in B
  <2> DEFINE r == p[1][1]
             m == Nr(p)
             q == m \div b
  <2>1. r \in Roles /\ m \in Nat /\ m < f[r] * a /\ f[r] * a <= g[r] * b /\ g[r] \in Nat /\ f[r] \in Nat
    BY <1>3, <1>4
  <2>2. q \in Nat /\ m % b \in 0..(b - 1) /\ m = b * q + (m % b)
    <3> HIDE DEF m
    <3> QED
      BY <2>1, Division
  <2>3. h[p] = <<<<r, q + 1>>, (m % b) + 1>>
    OBVIOUS
  <2> HIDE DEF r, m, q
  <2>4. q + 1 <= g[r]
    <3> SUFFICES ASSUME g[r] <= q PROVE FALSE
      BY <2>1, <2>2
    <3>1. g[r] * b <= q * b
      BY <2>1, <2>2
    <3>2. q * b = b * q /\ b * q \in Nat /\ f[r] * a \in Nat /\ g[r] * b \in Nat
      BY <2>1, <2>2
    <3> QED
      BY <2>1, <2>2, <3>1, <3>2
  <2>5. <<r, q + 1>> \in SeatsFor(g)
    BY <2>1, <2>2, <2>4 DEF SeatsFor
  <2>6. (m % b) + 1 \in 1..b
    BY <2>2
  <2> QED
    BY <2>3, <2>5, <2>6
<1>6. ASSUME NEW p \in A, NEW q \in A, h[p] = h[q] PROVE p = q
  <2>1. p[1][1] = q[1][1] /\ Nr(p) \div b + 1 = Nr(q) \div b + 1 /\ (Nr(p) % b) + 1 = (Nr(q) % b) + 1
    BY <1>6
  <2>2. Nr(p) = Nr(q)
    <3> DEFINE x == Nr(p)
               y == Nr(q)
    <3>1. x \in Nat /\ y \in Nat
      BY <1>4
    <3>2. x \div b + 1 = y \div b + 1 /\ (x % b) + 1 = (y % b) + 1
      BY <2>1
    <3> HIDE DEF x, y
    <3>3. x \div b \in Nat /\ x % b \in 0..(b - 1) /\ x = b * (x \div b) + (x % b)
      BY <3>1, Division
    <3>4. y \div b \in Nat /\ y % b \in 0..(b - 1) /\ y = b * (y \div b) + (y % b)
      BY <3>1, Division
    <3>5. x \div b = y \div b /\ x % b = y % b
      BY <3>2, <3>3, <3>4
    <3>6. x = y
      BY <3>3, <3>4, <3>5
    <3> QED
      BY <3>6 DEF x, y
  <2> DEFINE i == p[1][2]
             j == p[2]
             k == q[1][2]
             l == q[2]
  <2>3. i \in Nat \ {0} /\ k \in Nat \ {0} /\ j \in 1..a /\ l \in 1..a
    BY <1>3
  <2>4. (i - 1) * a + j - 1 = (k - 1) * a + l - 1
    BY <2>2
  <2>5. i = k /\ j = l
    <3> HIDE DEF i, j, k, l
    <3>1. ASSUME NEW u \in Nat, NEW v \in Nat, u < v PROVE u * a + a <= v * a
      <4>1. (u + 1) * a <= v * a /\ (u + 1) * a = u * a + a
        BY <3>1
      <4> QED
        BY <4>1
    <3>2. i - 1 \in Nat /\ k - 1 \in Nat /\ (i - 1) * a \in Nat /\ (k - 1) * a \in Nat
      BY <2>3
    <3>3. ~(i - 1 < k - 1)
      BY <3>1, <3>2, <2>3, <2>4
    <3>4. ~(k - 1 < i - 1)
      BY <3>1, <3>2, <2>3, <2>4
    <3>5. i = k
      BY <3>2, <3>3, <3>4, <2>3
    <3> QED
      BY <3>5, <3>2, <2>3, <2>4
  <2> QED
    BY <1>3, <2>1, <2>5
<1>7. h \in Injection(A, B)
  BY <1>5, <1>6 DEF Injection, IsInjective
<1>8. Cardinality(A) <= Cardinality(B)
  <2> HIDE DEF A, B, h
  <2> QED
    BY <1>2, <1>7, FS_Injection
<1> QED
  BY <1>1, <1>2, <1>8

\* A role holds as many seats as it has members.
LEMMA HeldIs ==
    ASSUME NEW c \in [Roles -> Nat], NEW r \in Roles
    PROVE  Held(SeatsFor(c), r) = c[r]
<1> DEFINE S == {s \in SeatsFor(c) : s[1] = r}
           h == [i \in 1..c[r] |-> <<r, i>>]
           T == 1..c[r]
<1>1. c[r] \in Nat /\ IsFiniteSet(T) /\ Cardinality(T) = c[r]
  BY FS_Interval
<1>2. h \in Bijection(T, S)
  <2>1. \A i \in T : h[i] \in S
    BY <1>1 DEF SeatsFor
  <2>2. \A s \in S : s[2] \in T /\ h[s[2]] = s
    BY <1>1 DEF SeatsFor
  <2>3. \A i, j \in T : h[i] = h[j] => i = j
    OBVIOUS
  <2> QED
    BY <2>1, <2>2, <2>3 DEF Bijection, Injection, Surjection, IsInjective
<1>3. Cardinality(S) = c[r]
  <2> HIDE DEF S, T, h
  <2> QED
    BY <1>1, <1>2, FS_Bijection DEF ExistsBijection
<1> QED
  BY <1>3 DEF Held

\* Who has the smaller of up to three numbers is ahead: an order, when they tell all apart.
LEMMA LexChain ==
    ASSUME NEW S, NEW ahead \in [S -> SUBSET S],
           NEW x \in [S -> Int], NEW y \in [S -> Int], NEW z \in [S -> Int],
           \A s, t \in S : x[s] = x[t] /\ y[s] = y[t] /\ z[s] = z[t] => s = t,
           \A s, t \in S : t \in ahead[s] <=>
              \/ x[t] < x[s]
              \/ x[t] = x[s] /\ (y[t] < y[s] \/ (y[t] = y[s] /\ z[t] < z[s]))
    PROVE  Chain(S, ahead)
<1>1. ASSUME NEW s \in S PROVE s \notin ahead[s]
  BY x[s] \in Int, y[s] \in Int, z[s] \in Int
<1>2. ASSUME NEW s \in S, NEW t \in S, s # t PROVE s \in ahead[t] \/ t \in ahead[s]
  BY <1>2, x[s] \in Int, y[s] \in Int, z[s] \in Int, x[t] \in Int, y[t] \in Int, z[t] \in Int
<1>3. ASSUME NEW s \in S, NEW t \in S, s \in ahead[t] PROVE ahead[s] \subseteq ahead[t]
  <2>1. SUFFICES ASSUME NEW u \in S, u \in ahead[s] PROVE u \in ahead[t]
    OBVIOUS
  <2> QED
    BY <1>3, <2>1, x[s] \in Int, y[s] \in Int, z[s] \in Int, x[t] \in Int, y[t] \in Int, z[t] \in Int,
       x[u] \in Int, y[u] \in Int, z[u] \in Int
<1> QED
  BY <1>1, <1>2, <1>3 DEF Chain

\* Where an entry stands in an order is a number, and tells it from the others.
LEMMA PositionIs ==
    ASSUME NEW S, NEW list \in Seq(S)
    PROVE  /\ \A r \in Entries(list) : Position(list)[r] \in Nat
           /\ \A q, r \in Entries(list) : Position(list)[q] = Position(list)[r] => q = r
<1>1. ASSUME NEW r \in Entries(list)
      PROVE  Position(list)[r] \in DOMAIN list /\ list[Position(list)[r]] = r
  <2>1. \E i \in DOMAIN list : list[i] = r
    BY DEF Entries
  <2>2. Position(list)[r] = CHOOSE i \in DOMAIN list : list[i] = r
    BY DEF Position
  <2> QED
    BY <2>1, <2>2
<1>2. DOMAIN list \subseteq Nat
  OBVIOUS
<1> QED
  BY <1>1, <1>2

\* So it is with the two orders of the roles.
LEMMA RolesHavePositions ==
    /\ \A r \in Roles : Position(RoleOrder)[r] \in Nat /\ Position(ByName)[r] \in Nat
    /\ \A q, r \in Roles : Position(RoleOrder)[q] = Position(RoleOrder)[r] => q = r
    /\ \A q, r \in Roles : Position(ByName)[q] = Position(ByName)[r] => q = r
BY PartitionAssumption, PositionIs DEF Roles

\* What one role gets by rounding down, or up where it has more.
LEMMA Rounding ==
    ASSUME NEW k \in Nat, NEW cap \in Nat \ {0}, NEW n \in Nat, cap < n,
           NEW q, q = (k * cap) \div n
    PROVE  /\ q \in Nat /\ q <= k /\ q * n <= k * cap
           /\ k * cap <= (IF k > q THEN q + 1 ELSE q) * n
<1> DEFINE m == k * cap
<1>1. m \in Nat /\ n \in Nat \ {0} /\ m = k * cap
  OBVIOUS
<1>2. q = m \div n
  OBVIOUS
<1> HIDE DEF m
<1>3. q \in Nat /\ m % n \in 0..(n - 1) /\ m = n * q + (m % n)
  BY <1>1, <1>2, Division
<1>4. q * n <= m /\ m < (q + 1) * n
  <2>1. n * q = q * n /\ (q + 1) * n = q * n + n /\ q * n \in Nat
    BY <1>1, <1>3
  <2> QED
    BY <1>1, <1>3, <2>1
<1>5. m <= k * n
  BY <1>1
<1>6. q <= k
  <2> SUFFICES ASSUME k < q PROVE FALSE
    BY <1>3
  <2>1. (k + 1) * n <= q * n /\ (k + 1) * n = k * n + n /\ k * n \in Nat /\ q * n \in Nat
    BY <1>1, <1>3
  <2> QED
    BY <1>1, <1>4, <1>5, <2>1
<1>7. m <= (IF k > q THEN q + 1 ELSE q) * n
  <2>1. CASE k > q
    BY <2>1, <1>4, <1>1, <1>3
  <2>2. CASE ~(k > q)
    <3>1. k = q
      BY <2>2, <1>3, <1>6
    <3> QED
      BY <3>1, <1>1, <1>5
  <2> QED
    BY <2>1, <2>2
<1> QED
  BY <1>1, <1>3, <1>4, <1>6, <1>7

\* A common factor cancels.
LEMMA NoMoreThan ==
    ASSUME NEW a \in Nat, NEW n \in Nat \ {0}, NEW b \in Nat, a * n <= n * b PROVE a <= b
<1> SUFFICES ASSUME b < a PROVE FALSE
  OBVIOUS
<1>1. (b + 1) * n <= a * n /\ (b + 1) * n = n * b + n /\ n * b \in Nat /\ a * n \in Nat
  OBVIOUS
<1> QED
  BY <1>1

\* Rounding down asks for no more seats than the team has, and rounding up for enough; so
\* the largest remainders fill it exactly.
LEMMA ProportionalIs ==
    ASSUME NEW c \in [Roles -> Nat], NEW seats, seats = SeatsFor(c), IsFiniteSet(seats),
           NEW cap \in Nat \ {0}, NEW total \in Nat, total = Cardinality(seats), total > cap
    PROVE  /\ Proportional(seats, cap) \subseteq seats
           /\ Cardinality(Proportional(seats, cap)) = cap
<1> DEFINE Exact(s) == Held(seats, s[1]) * cap
           sure == {s \in seats : s[2] <= Exact(s) \div total}
           next == {s \in seats : s[2] = Exact(s) \div total + 1}
           Precedes(t, s) ==
               \/ Exact(t) % total > Exact(s) % total
               \/ /\ Exact(t) % total = Exact(s) % total
                  /\ \/ Held(seats, t[1]) > Held(seats, s[1])
                     \/ /\ Held(seats, t[1]) = Held(seats, s[1])
                        /\ Position(RoleOrder)[t[1]] < Position(RoleOrder)[s[1]]
           ahead == [s \in next |-> {t \in next : Precedes(t, s)}]
           few == FirstFew(next, ahead, cap - Cardinality(sure))
           f == [r \in Roles |-> (c[r] * cap) \div total]
           g == [r \in Roles |-> IF c[r] > f[r] THEN f[r] + 1 ELSE f[r]]
<1>2. ASSUME NEW r \in Roles
      PROVE  /\ f[r] \in Nat /\ f[r] <= c[r]
             /\ f[r] * total <= c[r] * cap
             /\ c[r] * cap <= g[r] * total
             /\ g[r] \in Nat
             /\ g[r] = IF c[r] > f[r] THEN f[r] + 1 ELSE f[r]
  <2>1. f[r] = (c[r] * cap) \div total /\ g[r] = IF c[r] > f[r] THEN f[r] + 1 ELSE f[r]
    OBVIOUS
  <2> HIDE DEF f, g
  <2>2. c[r] \in Nat /\ total \in Nat /\ cap < total
    OBVIOUS
  <2>3. /\ f[r] \in Nat /\ f[r] <= c[r] /\ f[r] * total <= c[r] * cap
        /\ c[r] * cap <= (IF c[r] > f[r] THEN f[r] + 1 ELSE f[r]) * total
    BY <2>1, <2>2, Rounding
  <2> QED
    BY <2>1, <2>2, <2>3
<1>3. f \in [Roles -> Nat] /\ g \in [Roles -> Nat]
  <2>1. f = [r \in Roles |-> f[r]] /\ g = [r \in Roles |-> g[r]]
    OBVIOUS
  <2> HIDE DEF f, g
  <2> QED
    BY <1>2, <2>1
<1>4. ASSUME NEW s \in seats
      PROVE  /\ s[1] \in Roles /\ s[2] \in Nat \ {0} /\ s[2] <= c[s[1]] /\ s = <<s[1], s[2]>>
             /\ Held(seats, s[1]) = c[s[1]] /\ Exact(s) \div total = f[s[1]]
  BY HeldIs DEF SeatsFor
<1> HIDE DEF f, g
<1>5. sure = SeatsFor(f)
  <2>1. ASSUME NEW s \in sure PROVE s \in SeatsFor(f)
    BY <1>4 DEF SeatsFor
  <2>2. ASSUME NEW s \in SeatsFor(f) PROVE s \in sure
    <3>1. s[1] \in Roles /\ s[2] \in Nat \ {0} /\ s[2] <= f[s[1]] /\ c[s[1]] \in Nat
      BY DEF SeatsFor
    <3>2. s \in seats
      BY <1>2, <3>1 DEF SeatsFor
    <3> QED
      BY <1>4, <3>1, <3>2
  <2> QED
    BY <2>1, <2>2
<1>6. sure \cup next = SeatsFor(g)
  <2>1. ASSUME NEW s \in sure \cup next PROVE s \in SeatsFor(g)
    <3>1. s[1] \in Roles /\ s[2] \in Nat \ {0} /\ s[2] <= c[s[1]] /\ f[s[1]] \in Nat /\ c[s[1]] \in Nat
      BY <1>2, <1>4
    <3>2. s[2] <= f[s[1]] \/ s[2] = f[s[1]] + 1
      BY <1>4
    <3>3. s[2] <= g[s[1]]
      BY <3>1, <3>2, <1>2
    <3> QED
      BY <3>1, <3>3, <1>4 DEF SeatsFor
  <2>2. ASSUME NEW s \in SeatsFor(g) PROVE s \in sure \cup next
    <3>1. s[1] \in Roles /\ s[2] \in Nat \ {0} /\ s[2] <= g[s[1]] /\ f[s[1]] \in Nat /\ c[s[1]] \in Nat
      BY <1>2 DEF SeatsFor
    <3>2. s[2] <= c[s[1]] /\ (s[2] <= f[s[1]] \/ s[2] = f[s[1]] + 1)
      BY <3>1, <1>2
    <3>3. s \in seats
      BY <3>1, <3>2 DEF SeatsFor
    <3> QED
      BY <1>4, <3>2, <3>3
  <2> QED
    BY <2>1, <2>2
<1>7. IsFiniteSet(sure) /\ IsFiniteSet(next) /\ IsFiniteSet(sure \cup next)
  BY FS_Subset, sure \subseteq seats, next \subseteq seats
<1>8. /\ Cardinality(sure) \in Nat /\ Cardinality(next) \in Nat
      /\ Cardinality(sure \cup next) = Cardinality(sure) + Cardinality(next)
      /\ sure \cap next = {}
  <2>1. sure \cap next = {}
    BY <1>2, <1>4
  <2> HIDE DEF sure, next
  <2>2. Cardinality(sure \cap next) = 0
    BY <2>1, FS_EmptySet
  <2>3. Cardinality(sure) \in Nat /\ Cardinality(next) \in Nat
    BY <1>7, FS_CardinalityType
  <2>4. Cardinality(sure \cup next) = Cardinality(sure) + Cardinality(next) - Cardinality(sure \cap next)
    BY <1>7, FS_Union
  <2> QED
    BY <2>1, <2>2, <2>3, <2>4
<1>9. Cardinality(sure) <= cap
  <2>1. IsFiniteSet(SeatsFor(f)) /\ \A r \in Roles : f[r] * total <= c[r] * cap
    BY <1>2, <1>5, <1>7
  <2>2. total \in Nat \ {0} /\ IsFiniteSet(SeatsFor(c))
    OBVIOUS
  <2>3. Cardinality(SeatsFor(f)) * total <= Cardinality(SeatsFor(c)) * cap
    BY <1>3, <2>1, <2>2, ScaledSeats
  <2>4. Cardinality(sure) * total <= total * cap
    BY <1>5, <2>3
  <2> QED
    BY <1>8, <2>2, <2>4, NoMoreThan
<1>10. cap <= Cardinality(sure) + Cardinality(next)
  <2>1. IsFiniteSet(SeatsFor(g)) /\ \A r \in Roles : c[r] * cap <= g[r] * total
    BY <1>2, <1>6, <1>7
  <2>2. total \in Nat \ {0} /\ IsFiniteSet(SeatsFor(c))
    OBVIOUS
  <2>3. Cardinality(SeatsFor(c)) * cap <= Cardinality(SeatsFor(g)) * total
    BY <1>3, <2>1, <2>2, ScaledSeats
  <2> DEFINE n == Cardinality(SeatsFor(g))
  <2>4. n = Cardinality(sure) + Cardinality(next) /\ n \in Nat
    <3>1. n = Cardinality(sure \cup next)
      BY <1>6
    <3> HIDE DEF n, sure, next
    <3> QED
      BY <1>8, <3>1
  <2>5. total * cap <= n * total
    BY <2>3
  <2> HIDE DEF n, sure, next
  <2>6. cap * total <= total * n
    BY <2>4, <2>5
  <2>7. cap <= n
    BY <2>2, <2>4, <2>6, NoMoreThan
  <2> QED
    BY <2>4, <2>7
<1>11. Chain(next, ahead)
  <2>1. \A s \in next : /\ s[1] \in Roles /\ s[2] = f[s[1]] + 1 /\ s = <<s[1], s[2]>>
                        /\ Held(seats, s[1]) \in Nat
                        /\ Position(RoleOrder)[s[1]] \in Nat
    BY <1>4, RolesHavePositions
  <2>2. \A s \in next : Exact(s) % total \in Nat
    <3> TAKE s \in next
    <3>1. Exact(s) \in Nat /\ total \in Nat \ {0}
      BY <2>1
    <3> HIDE DEF Exact
    <3>2. Exact(s) % total \in 0..(total - 1)
      BY <3>1, Division
    <3> QED
      BY <3>2, <3>1
  <2>3. \A s, t \in next : Position(RoleOrder)[s[1]] = Position(RoleOrder)[t[1]] => s = t
    BY <2>1, RolesHavePositions
  <2>7. ahead \in [next -> SUBSET next]
    OBVIOUS
  <2> DEFINE x == [s \in next |-> 0 - (Exact(s) % total)]
             y == [s \in next |-> 0 - Held(seats, s[1])]
             z == [s \in next |-> Position(RoleOrder)[s[1]]]
  <2>4. x \in [next -> Int] /\ y \in [next -> Int] /\ z \in [next -> Int]
    <3> HIDE DEF next, Exact
    <3> QED
      BY <2>1, <2>2
  <2>5. \A s, t \in next : z[s] = z[t] => s = t
    <3> HIDE DEF next
    <3> QED
      BY <2>3
  <2>8. \A s, t \in next : t \in ahead[s] <=> Precedes(t, s)
    <3> HIDE DEF next, Precedes
    <3> QED
      OBVIOUS
  <2>6. \A s, t \in next : t \in ahead[s] <=>
           \/ x[t] < x[s]
           \/ x[t] = x[s] /\ (y[t] < y[s] \/ (y[t] = y[s] /\ z[t] < z[s]))
    <3> TAKE s, t \in next
    <3> DEFINE es == Exact(s) % total
               et == Exact(t) % total
               hs == Held(seats, s[1])
               ht == Held(seats, t[1])
    <3>1. es \in Nat /\ et \in Nat /\ hs \in Nat /\ ht \in Nat
      BY <2>1, <2>2
    <3>2. x[s] = 0 - es /\ x[t] = 0 - et /\ y[s] = 0 - hs /\ y[t] = 0 - ht
          /\ z[s] = Position(RoleOrder)[s[1]] /\ z[t] = Position(RoleOrder)[t[1]]
      OBVIOUS
    <3>3. t \in ahead[s] <=>
             \/ et > es
             \/ et = es /\ (ht > hs \/ (ht = hs /\ Position(RoleOrder)[t[1]] < Position(RoleOrder)[s[1]]))
      BY <2>8
    <3> HIDE DEF es, et, hs, ht, x, y, z, ahead
    <3> QED
      BY <3>1, <3>2, <3>3
  <2> HIDE DEF next, x, y, z, ahead
  <2> QED
    BY <2>4, <2>5, <2>6, <2>7, LexChain
<1>12. /\ few \subseteq next /\ IsFiniteSet(few)
       /\ Cardinality(few) = cap - Cardinality(sure)
  <2> DEFINE k == cap - Cardinality(sure)
  <2>1. k \in Nat /\ k <= Cardinality(next)
    BY <1>8, <1>9, <1>10
  <2> HIDE DEF k, next, ahead
  <2>2. /\ FirstFew(next, ahead, k) \subseteq next /\ IsFiniteSet(FirstFew(next, ahead, k))
        /\ Cardinality(FirstFew(next, ahead, k)) = Least(k, Cardinality(next))
    BY <1>7, <1>11, <2>1, FirstFewAre
  <2>3. Least(k, Cardinality(next)) = k
    BY <2>1, <1>8 DEF Least
  <2> QED
    BY <2>2, <2>3 DEF k
<1>13. Proportional(seats, cap) = sure \cup few
  BY DEF Proportional
<1>14. Cardinality(sure \cup few) = cap
  <2>1. sure \cap few = {}
    BY <1>8, <1>12
  <2> HIDE DEF sure, few, next, ahead
  <2>2. Cardinality(sure \cap few) = 0
    BY <2>1, FS_EmptySet
  <2>3. Cardinality(sure \cup few) = Cardinality(sure) + Cardinality(few) - Cardinality(sure \cap few)
    BY <1>7, <1>12, FS_Union
  <2> QED
    BY <1>8, <1>9, <1>12, <2>2, <2>3
<1> QED
  BY <1>12, <1>13, <1>14

\* What a role is given, the largest others lose: as many as the target is short of it.
LEMMA PinRoleIs ==
    ASSUME NEW c \in [Roles -> Nat], NEW seats, seats = SeatsFor(c), IsFiniteSet(seats),
           NEW cap \in Nat, NEW target, target \subseteq seats, Cardinality(target) = cap,
           NEW role
    PROVE  /\ PinRole(seats, target, role, cap) \subseteq seats
           /\ Cardinality(PinRole(seats, target, role, cap)) = cap
<1> DEFINE own == {s \in seats : s[1] = role /\ s[2] <= cap}
           rest == {s \in target : s[1] # role}
           same == {s \in target : s[1] = role}
           need == Cardinality(own) - Held(target, role)
           ahead == [s \in rest |-> {t \in rest : GivenUpFirst(target, t, s)}]
           few == FirstFew(rest, ahead, need)
<1>1. /\ IsFiniteSet(target) /\ IsFiniteSet(own) /\ IsFiniteSet(rest) /\ IsFiniteSet(same)
      /\ Cardinality(own) \in Nat /\ Cardinality(rest) \in Nat /\ Cardinality(same) \in Nat
  <2>1. IsFiniteSet(target) /\ IsFiniteSet(own) /\ IsFiniteSet(rest) /\ IsFiniteSet(same)
    <3>1. IsFiniteSet(target)
      BY FS_Subset
    <3>2. own \subseteq seats /\ rest \subseteq target /\ same \subseteq target
      OBVIOUS
    <3> HIDE DEF own, rest, same
    <3> QED
      BY <3>1, <3>2, FS_Subset
  <2> HIDE DEF own, rest, same
  <2> QED
    BY <2>1, FS_CardinalityType
<1>2. cap = Cardinality(rest) + Cardinality(same) /\ Held(target, role) = Cardinality(same)
  <2>1. target = rest \cup same /\ rest \cap same = {}
    OBVIOUS
  <2>2. Held(target, role) = Cardinality(same)
    BY DEF Held
  <2> HIDE DEF rest, same
  <2>3. Cardinality(rest \cap same) = 0
    BY <2>1, FS_EmptySet
  <2>4. Cardinality(rest \cup same) = Cardinality(rest) + Cardinality(same) - Cardinality(rest \cap same)
    BY <1>1, FS_Union
  <2> QED
    BY <1>1, <2>1, <2>2, <2>3, <2>4
<1>3. Cardinality(own) <= cap
  <2> DEFINE T == 1..cap
             h == [s \in own |-> s[2]]
  <2>1. IsFiniteSet(T) /\ Cardinality(T) = cap
    BY FS_Interval
  <2>2. \A s \in own : s[2] \in T /\ s = <<role, s[2]>>
    BY DEF SeatsFor
  <2>3. h \in Injection(own, T)
    BY <2>2 DEF Injection, IsInjective
  <2> HIDE DEF own, T, h
  <2> QED
    BY <2>1, <2>3, FS_Injection
<1>0. PinRole(seats, target, role, cap) = IF need <= 0 THEN target ELSE own \cup (rest \ few)
  BY DEF PinRole
<1>4. CASE need <= 0
  <2> HIDE DEF own, rest, few, need
  <2> QED
    BY <1>0, <1>4
<1>5. CASE ~(need <= 0)
  <2>1. need \in Nat /\ need <= Cardinality(rest) /\ need = Cardinality(own) - Cardinality(same)
    BY <1>1, <1>2, <1>3, <1>5
  <2>2. Chain(rest, ahead)
    <3> DEFINE x == [s \in rest |-> 0 - Held(target, s[1])]
               y == [s \in rest |-> Position(ByName)[s[1]]]
               z == [s \in rest |-> 0 - s[2]]
    <3>1. \A s \in rest : /\ s[1] \in Roles /\ s[2] \in Nat /\ s = <<s[1], s[2]>>
                          /\ Held(target, s[1]) \in Nat
                          /\ Position(ByName)[s[1]] \in Nat
      <4> TAKE s \in rest
      <4>1. s[1] \in Roles /\ s[2] \in Nat /\ s = <<s[1], s[2]>>
        BY DEF SeatsFor
      <4>2. Held(target, s[1]) \in Nat
        <5> DEFINE H == {t \in target : t[1] = s[1]}
        <5>1. IsFiniteSet(H)
          BY <1>1, FS_Subset, H \subseteq target
        <5> HIDE DEF H
        <5>2. Cardinality(H) \in Nat
          BY <5>1, FS_CardinalityType
        <5> QED
          BY <5>2 DEF H, Held
      <4> QED
        BY <4>1, <4>2, RolesHavePositions
    <3>2. ahead \in [rest -> SUBSET rest]
      OBVIOUS
    <3>3. x \in [rest -> Int] /\ y \in [rest -> Int] /\ z \in [rest -> Int]
      <4> HIDE DEF rest
      <4> QED
        BY <3>1
    <3>4. \A s, t \in rest : x[s] = x[t] /\ y[s] = y[t] /\ z[s] = z[t] => s = t
      <4> TAKE s, t \in rest
      <4>1. s[1] \in Roles /\ t[1] \in Roles /\ s[2] \in Nat /\ t[2] \in Nat
            /\ s = <<s[1], s[2]>> /\ t = <<t[1], t[2]>>
        BY <3>1
      <4>2. y[s] = y[t] => s[1] = t[1]
        BY <4>1, RolesHavePositions
      <4>3. z[s] = z[t] => s[2] = t[2]
        BY <4>1
      <4> QED
        BY <4>1, <4>2, <4>3
    <3>5. \A s, t \in rest : t \in ahead[s] <=>
             \/ x[t] < x[s]
             \/ x[t] = x[s] /\ (y[t] < y[s] \/ (y[t] = y[s] /\ z[t] < z[s]))
      <4> TAKE s, t \in rest
      <4> DEFINE hs == Held(target, s[1])
                 ht == Held(target, t[1])
                 ps == Position(ByName)[s[1]]
                 pt == Position(ByName)[t[1]]
      <4>1. /\ hs \in Nat /\ ht \in Nat /\ ps \in Nat /\ pt \in Nat /\ s[2] \in Nat /\ t[2] \in Nat
            /\ s[1] \in Roles /\ t[1] \in Roles
        BY <3>1
      <4>2. /\ x[s] = 0 - hs /\ x[t] = 0 - ht /\ y[s] = ps /\ y[t] = pt
            /\ z[s] = 0 - s[2] /\ z[t] = 0 - t[2]
        OBVIOUS
      <4>3. ps = pt <=> s[1] = t[1]
        BY <4>1, RolesHavePositions
      <4>4. t \in ahead[s] <=> GivenUpFirst(target, t, s)
        <5> HIDE DEF rest
        <5> QED
          OBVIOUS
      <4>5. t \in ahead[s] <=>
               \/ ht > hs
               \/ ht = hs /\ (pt < ps \/ (pt = ps /\ t[2] > s[2]))
        BY <4>3, <4>4 DEF GivenUpFirst
      <4> HIDE DEF hs, ht, ps, pt, x, y, z, ahead
      <4> QED
        BY <4>1, <4>2, <4>5
    <3> HIDE DEF rest, x, y, z, ahead
    <3> QED
      BY <3>2, <3>3, <3>4, <3>5, LexChain
  <2>3. few \subseteq rest /\ IsFiniteSet(few) /\ Cardinality(few) = need
    <3> HIDE DEF own, same, rest, ahead, need
    <3>1. /\ FirstFew(rest, ahead, need) \subseteq rest /\ IsFiniteSet(FirstFew(rest, ahead, need))
          /\ Cardinality(FirstFew(rest, ahead, need)) = Least(need, Cardinality(rest))
      BY <1>1, <2>1, <2>2, FirstFewAre
    <3>2. Least(need, Cardinality(rest)) = need
      BY <2>1, <1>1 DEF Least
    <3> QED
      BY <3>1, <3>2 DEF few
  <2>4. PinRole(seats, target, role, cap) = own \cup (rest \ few)
    <3> HIDE DEF own, rest, few, need
    <3> QED
      BY <1>0, <1>5
  <2>5. own \cap (rest \ few) = {} /\ own \subseteq seats /\ rest \subseteq seats
    OBVIOUS
  <2> HIDE DEF own, rest, few, need
  <2>6. IsFiniteSet(rest \ few) /\ Cardinality(rest \ few) = Cardinality(rest) - need
    <3>1. rest \cap few = few
      BY <2>3
    <3>2. IsFiniteSet(rest \ few) /\ Cardinality(rest \ few) = Cardinality(rest) - Cardinality(rest \cap few)
      BY <1>1, <2>3, FS_Difference
    <3> QED
      BY <2>3, <3>1, <3>2
  <2>7. Cardinality(own \cup (rest \ few)) = Cardinality(own) + Cardinality(rest \ few)
    <3>1. Cardinality(own \cap (rest \ few)) = 0
      BY <2>5, FS_EmptySet
    <3>2. Cardinality(own \cup (rest \ few))
             = Cardinality(own) + Cardinality(rest \ few) - Cardinality(own \cap (rest \ few))
      BY <1>1, <2>6, FS_Union
    <3> QED
      BY <1>1, <2>6, <2>1, <3>1, <3>2
  <2>8. own \cup (rest \ few) \subseteq seats
    BY <2>5
  <2>9. Cardinality(own) + (Cardinality(rest) - need) = cap
    BY <1>1, <1>2, <2>1
  <2> QED
    BY <2>4, <2>6, <2>7, <2>8, <2>9
<1> QED
  BY <1>4, <1>5, <1>1

\* A target has as many seats as the team, all of them of the side.
LEMMA TargetsAre ==
    ASSUME NEW c \in [Roles -> Nat], NEW seats, seats = SeatsFor(c), IsFiniteSet(seats),
           NEW cap \in Nat \ {0}, Cardinality(seats) > cap, NEW wk
    PROVE  /\ Targets(wk, seats, cap) \subseteq seats
           /\ Cardinality(Targets(wk, seats, cap)) = cap
<1> DEFINE Pinning(t, role) == IF role \in Pinned(wk) THEN PinRole(seats, t, role, cap) ELSE t
           Fits(t) == t \subseteq seats /\ Cardinality(t) = cap
           start == Proportional(seats, cap)
           shields == Pinning(start, "shield")
           natures == Pinning(shields, "nature")
           hammers == Pinning(natures, "hammer")
           fires   == Pinning(hammers, "fire")
<1>1. Fits(start)
  BY FS_CardinalityType, ProportionalIs
<1>2. ASSUME NEW t, NEW role, Fits(t) PROVE Fits(Pinning(t, role))
  BY <1>2, PinRoleIs
<1> HIDE DEF Fits, start
<1>3. Fits(shields)
  BY <1>1, <1>2
<1> HIDE DEF shields
<1>4. Fits(natures)
  BY <1>3, <1>2
<1> HIDE DEF natures
<1>5. Fits(hammers)
  BY <1>4, <1>2
<1> HIDE DEF hammers
<1>6. Fits(fires)
  BY <1>5, <1>2
<1> HIDE DEF fires
<1>7. Fits(Pinning(fires, "water"))
  BY <1>6, <1>2
<1>8. Targets(wk, seats, cap) = Pinning(fires, "water")
  BY DEF Targets, fires, hammers, natures, shields, start
<1> QED
  BY <1>7, <1>8 DEF Fits

-----------------------------------------------------------------------------
(* The composition lab: members, seats and the cut to the capacity *)

\* The members the lab can use: they exist, have a role and are ready.
AbleMembers ==
    /\ given \in LabInputs /\ usable \subseteq BoundMembers
    /\ \A m \in usable : Of(m).role \in Roles /\ Ready(m)

\* There are finitely many of them, numbered, and their levels are numbers.
LEMMA MembersAre ==
    ASSUME AbleMembers
    PROVE  /\ IsFiniteSet(usable)
           /\ \A m \in usable : /\ m \in Nat /\ m # 0 /\ Of(m).role \in Roles
                                /\ Of(m).attack \in Int /\ Of(m).primary \in Int /\ Of(m).proxy \in Int
                                /\ Of(m).aura["guardian"] \in Int /\ MysticLevel(m) \in Nat
                                /\ PhysicalLevel(m) \in Int
                                /\ \A a \in LabAuras : Of(m).aura[a] \in Int
<1> DEFINE n == Len(given.members)
           D == 1..n
<1>1. n \in Nat /\ usable \subseteq D
  BY LabAssumption DEF AbleMembers, BoundMembers
<1>2. IsFiniteSet(D)
  BY <1>1, FS_Interval
<1>3. IsFiniteSet(usable)
  <2> HIDE DEF D
  <2> QED
    BY <1>1, <1>2, FS_Subset
<1>4. ASSUME NEW m \in usable
      PROVE  /\ m \in Nat /\ m # 0 /\ Of(m).role \in Roles
             /\ Of(m).attack \in Int /\ Of(m).primary \in Int /\ Of(m).proxy \in Int
             /\ \A a \in LabAuras \cup {"guardian", "mystic"} : Of(m).aura[a] \in Nat
  BY <1>1, LabAssumption DEF AbleMembers, BoundMembers, Of
<1> QED
  BY <1>3, <1>4 DEF MysticLevel, PhysicalLevel

\* The ids are an order.
LEMMA ByIdIs ==
    ASSUME NEW S, S \subseteq Nat PROVE Chain(S, ById(S))
<1>1. ById(S) \in [S -> SUBSET S]
  BY DEF ById
<1>2. \A s, t \in S : t \in ById(S)[s] <=> t < s
  BY DEF ById
<1>3. ASSUME NEW s \in S, NEW t \in S, s \in ById(S)[t], NEW u \in ById(S)[s] PROVE u \in ById(S)[t]
  <2>1. u \in S /\ s < t /\ u < s /\ u \in Nat /\ s \in Nat /\ t \in Nat
    BY <1>1, <1>2, <1>3
  <2>2. u < t
    BY <2>1
  <2> QED
    BY <1>2, <2>1, <2>2
<1> QED
  BY <1>1, <1>2, <1>3 DEF Chain

\* A list of members by id.
LEMMA LineupIs ==
    ASSUME NEW S, S \subseteq Nat, IsFiniteSet(S)
    PROVE  /\ Lineup(S) \in Seq(S) /\ Len(Lineup(S)) = Cardinality(S) /\ Entries(Lineup(S)) = S
           /\ \A i, j \in 1..Cardinality(S) : Lineup(S)[i] = Lineup(S)[j] => i = j
<1> DEFINE ahead == ById(S)
<1>1. Chain(S, ahead)
  BY ByIdIs
<1>2. Lineup(S) = InOrder(S, ahead)
  BY DEF Lineup
<1> HIDE DEF ahead
<1> QED
  BY <1>1, <1>2, InOrderIs

\* In whatever order a role is gone through, of two members one comes first.
LEMMA GoesFirstIs ==
    ASSUME AbleMembers, NEW r, NEW m \in usable, NEW n \in usable, NEW k \in usable
    PROVE  /\ ~GoesFirst(r, m, m)
           /\ m # n => GoesFirst(r, m, n) \/ GoesFirst(r, n, m)
           /\ GoesFirst(r, m, n) /\ GoesFirst(r, n, k) => GoesFirst(r, m, k)
<1>0. \A x \in usable : /\ x \in Nat /\ Of(x).primary \in Int /\ Of(x).proxy \in Int
                        /\ Of(x).aura["guardian"] \in Int
  BY MembersAre
<1>1. /\ ~Guardian(m, m)
      /\ m # n => Guardian(m, n) \/ Guardian(n, m)
      /\ Guardian(m, n) /\ Guardian(n, k) => Guardian(m, k)
  BY <1>0 DEF Guardian, ByDefense
<1>2. /\ ~Weaker(m, m)
      /\ m # n => Weaker(m, n) \/ Weaker(n, m)
      /\ Weaker(m, n) /\ Weaker(n, k) => Weaker(m, k)
  BY <1>0 DEF Weaker
<1>3. ~(m < m) /\ (m # n => m < n \/ n < m) /\ (m < n /\ n < k => m < k)
  BY <1>0
<1> DEFINE A == r = "shield"
           B == r \in Physical \cup {"nature"} /\ Strategy(given.week).healers
           C == r \in {"fire", "water"} /\ given.week = "hedgehog"
<1>4. \A x, y \in usable : /\ A => GoesFirst(r, x, y) <=> Guardian(x, y)
                           /\ ~A /\ (B \/ C) => GoesFirst(r, x, y) <=> Weaker(x, y)
                           /\ ~A /\ ~(B \/ C) => GoesFirst(r, x, y) <=> (x < y)
  <2> TAKE x, y \in usable
  <2>1. A => GoesFirst(r, x, y) <=> Guardian(x, y)
    BY DEF GoesFirst, Physical
  <2>2. ~A /\ (B \/ C) => GoesFirst(r, x, y) <=> Weaker(x, y)
    BY DEF GoesFirst
  <2>3. ~A /\ ~(B \/ C) => GoesFirst(r, x, y) <=> (x < y)
    BY DEF GoesFirst
  <2> QED
    BY <2>1, <2>2, <2>3
<1> HIDE DEF A, B, C
<1>8. m \in usable /\ n \in usable /\ k \in usable
  OBVIOUS
<1>5. CASE A
  BY <1>1, <1>4, <1>5
<1>6. CASE ~A /\ (B \/ C)
  BY <1>2, <1>4, <1>6
<1>7. CASE ~A /\ ~(B \/ C)
  BY <1>3, <1>4, <1>7
<1> QED
  BY <1>5, <1>6, <1>7

\* A row of newcomers, all of one role.
LEMMA LateRowIs ==
    ASSUME AbleMembers, NEW S, S \subseteq usable, NEW r, \A m \in S : Of(m).role = r
    PROVE  /\ LateRow(S) \in Seq(S) /\ Len(LateRow(S)) = Cardinality(S) /\ Entries(LateRow(S)) = S
           /\ \A i, j \in 1..Cardinality(S) : LateRow(S)[i] = LateRow(S)[j] => i = j
<1> DEFINE ahead == [m \in S |-> BySource(m) \cap S]
<1>1. \A m, n \in S : n \in ahead[m] <=> GoesFirst(r, n, m)
  BY DEF BySource
<1>2. ahead \in [S -> SUBSET S]
  OBVIOUS
<1>3. IsFiniteSet(S)
  BY MembersAre, FS_Subset
<1>4. LateRow(S) = InOrder(S, ahead)
  BY DEF LateRow
<1> HIDE DEF ahead
<1>5. Chain(S, ahead)
  <2>1. \A m \in S : m \notin ahead[m]
    BY <1>1, GoesFirstIs
  <2>2. \A m, n \in S : m # n => m \in ahead[n] \/ n \in ahead[m]
    BY <1>1, GoesFirstIs
  <2>3. ASSUME NEW m \in S, NEW n \in S, m \in ahead[n], NEW k \in ahead[m] PROVE k \in ahead[n]
    BY <1>1, <1>2, <2>3, GoesFirstIs
  <2> QED
    BY <1>2, <2>1, <2>2, <2>3 DEF Chain
<1> QED
  BY <1>3, <1>4, <1>5, InOrderIs

\* The members of a side have the seats of their roles, each one of his own.
LEMMA SeatsAre ==
    ASSUME AbleMembers, NEW pool, pool \subseteq usable,
           NEW c, c = [r \in Roles |-> Cardinality(OfRole(pool, r))]
    PROVE  /\ c \in [Roles -> Nat]
           /\ \A m \in pool : Seat(pool, m) \in SeatsFor(c)
           /\ \A m, n \in pool : Seat(pool, m) = Seat(pool, n) => m = n
           /\ \A s \in SeatsFor(c) : \E m \in pool : Seat(pool, m) = s
<1>1. \A m \in pool : m \in Nat /\ Of(m).role \in Roles
  BY MembersAre
<1>2. ASSUME NEW r \in Roles
      PROVE  /\ IsFiniteSet(OfRole(pool, r)) /\ Cardinality(OfRole(pool, r)) \in Nat
             /\ OfRole(pool, r) \subseteq Nat
  <2>1. OfRole(pool, r) \subseteq usable /\ OfRole(pool, r) \subseteq Nat
    BY <1>1 DEF OfRole
  <2> QED
    BY <2>1, MembersAre, FS_Subset, FS_CardinalityType
<1>3. c \in [Roles -> Nat]
  BY <1>2
<1>4. ASSUME NEW r \in Roles
      PROVE  LET S == OfRole(pool, r)
                 ahead == ById(S)
             IN  /\ \A m \in S : Cardinality(ahead[m]) \in 0..(c[r] - 1)
                 /\ \A m, n \in S : Cardinality(ahead[m]) = Cardinality(ahead[n]) => m = n
                 /\ \A k \in 0..(c[r] - 1) : \E m \in S : Cardinality(ahead[m]) = k
                 /\ \A m \in S : Of(m).role = r /\ Seat(pool, m) = <<r, 1 + Cardinality(ahead[m])>>
  <2> DEFINE S == OfRole(pool, r)
             ahead == ById(S)
  <2>1. Chain(S, ahead) /\ IsFiniteSet(S) /\ c[r] = Cardinality(S)
    BY <1>2, ByIdIs
  <2>2. \A m \in S : Of(m).role = r
    BY DEF OfRole
  <2>3. ASSUME NEW m \in S PROVE Seat(pool, m) = <<r, 1 + Cardinality(ahead[m])>>
    <3>1. ahead[m] = {n \in S : n < m}
      BY DEF ById
    <3> QED
      BY <2>2, <3>1 DEF Seat
  <2> HIDE DEF S, ahead
  <2>4. /\ \A m \in S : Cardinality(ahead[m]) \in 0..(c[r] - 1)
        /\ \A m, n \in S : Cardinality(ahead[m]) = Cardinality(ahead[n]) => m = n
        /\ \A k \in 0..(c[r] - 1) : \E m \in S : Cardinality(ahead[m]) = k
    BY <2>1, ChainRanks
  <2> QED
    BY <2>2, <2>3, <2>4 DEF S, ahead
<1> DEFINE rank(m) == Cardinality(ById(OfRole(pool, Of(m).role))[m])
<1>5. ASSUME NEW m \in pool
      PROVE  /\ Of(m).role \in Roles /\ m \in OfRole(pool, Of(m).role)
             /\ rank(m) \in 0..(c[Of(m).role] - 1)
             /\ Seat(pool, m) = <<Of(m).role, 1 + rank(m)>>
  <2>1. Of(m).role \in Roles /\ m \in OfRole(pool, Of(m).role)
    BY <1>1 DEF OfRole
  <2> QED
    BY <1>4, <2>1
<1>6. ASSUME NEW m \in pool PROVE Seat(pool, m) \in SeatsFor(c)
  <2> DEFINE r == Of(m).role
             k == rank(m)
  <2>1. r \in Roles /\ k \in 0..(c[r] - 1) /\ c[r] \in Nat /\ Seat(pool, m) = <<r, 1 + k>>
    BY <1>3, <1>5
  <2> HIDE DEF r, k
  <2> QED
    BY <2>1 DEF SeatsFor
<1>7. ASSUME NEW m \in pool, NEW n \in pool, Seat(pool, m) = Seat(pool, n) PROVE m = n
  <2> DEFINE r == Of(m).role
  <2>1. r \in Roles /\ m \in OfRole(pool, r) /\ n \in OfRole(pool, Of(n).role)
        /\ Seat(pool, m) = <<r, 1 + rank(m)>> /\ Seat(pool, n) = <<Of(n).role, 1 + rank(n)>>
        /\ rank(m) \in 0..(c[r] - 1) /\ rank(n) \in 0..(c[Of(n).role] - 1)
        /\ c[r] \in Nat /\ c[Of(n).role] \in Nat
    BY <1>3, <1>5
  <2>2. Of(n).role = r /\ 1 + rank(m) = 1 + rank(n)
    <3> HIDE DEF rank, r
    <3>1. <<r, 1 + rank(m)>> = <<Of(n).role, 1 + rank(n)>>
      BY <1>7, <2>1
    <3> QED
      BY <3>1
  <2>3. rank(m) = rank(n)
    <3> HIDE DEF rank
    <3> QED
      BY <2>1, <2>2
  <2> QED
    BY <1>4, <2>1, <2>2, <2>3
<1>8. ASSUME NEW s \in SeatsFor(c) PROVE \E m \in pool : Seat(pool, m) = s
  <2> DEFINE r == s[1]
             k == s[2] - 1
  <2>1. r \in Roles /\ k \in 0..(c[r] - 1) /\ s = <<r, 1 + k>>
    BY <1>3 DEF SeatsFor
  <2> HIDE DEF r, k
  <2>2. PICK m \in OfRole(pool, r) : Seat(pool, m) = <<r, 1 + k>>
    BY <1>4, <2>1
  <2>3. m \in pool
    BY DEF OfRole
  <2> QED
    BY <2>1, <2>2, <2>3
<1> QED
  BY <1>3, <1>6, <1>7, <1>8

\* A pool that fits stays, one that does not is cut to the team's capacity exactly.
LEMMA CapIs ==
    ASSUME AbleMembers, NEW pool, pool \subseteq usable
    PROVE  /\ CapTeamPool(pool) \subseteq pool
           /\ IsFiniteSet(pool) /\ Cardinality(pool) \in Nat
           /\ Cardinality(CapTeamPool(pool)) <= TeamCap
           /\ CapTeamPool(pool) # pool => Cardinality(CapTeamPool(pool)) = TeamCap
<1> DEFINE seats == {Seat(pool, m) : m \in pool}
           target == Targets(given.week, seats, TeamCap)
           kept == {m \in pool : Seat(pool, m) \in target}
           c == [r \in Roles |-> Cardinality(OfRole(pool, r))]
<1>1. IsFiniteSet(pool) /\ Cardinality(pool) \in Nat
  BY MembersAre, FS_Subset, FS_CardinalityType
<1>2. TeamCap \in Nat \ {0}
  BY PartitionAssumption
<1>3. /\ c \in [Roles -> Nat] /\ seats = SeatsFor(c)
      /\ \A m, n \in pool : Seat(pool, m) = Seat(pool, n) => m = n
  <2>1. c = [r \in Roles |-> Cardinality(OfRole(pool, r))]
    OBVIOUS
  <2> HIDE DEF c
  <2> QED
    BY <2>1, SeatsAre
<1>4. CapTeamPool(pool) = IF Cardinality(pool) <= TeamCap THEN pool ELSE kept
  BY DEF CapTeamPool
<1>5. CASE Cardinality(pool) <= TeamCap
  BY <1>1, <1>4, <1>5
<1>6. CASE ~(Cardinality(pool) <= TeamCap)
  <2> DEFINE h == [m \in pool |-> Seat(pool, m)]
             g == [m \in kept |-> Seat(pool, m)]
  <2>1. h \in Bijection(pool, seats)
    BY <1>3 DEF Bijection, Injection, Surjection, IsInjective
  <2>2. IsFiniteSet(seats) /\ Cardinality(seats) = Cardinality(pool)
    <3> HIDE DEF h, seats
    <3> QED
      BY <1>1, <2>1, FS_Bijection DEF ExistsBijection
  <2>3. target \subseteq seats /\ Cardinality(target) = TeamCap
    <3>1. seats = SeatsFor(c) /\ c \in [Roles -> Nat] /\ Cardinality(seats) > TeamCap
      BY <1>1, <1>2, <1>3, <1>6, <2>2
    <3> HIDE DEF c, seats
    <3> QED
      BY <1>2, <2>2, <3>1, TargetsAre
  <2>4. g \in Bijection(kept, target)
    <3> HIDE DEF target
    <3>1. \A m \in kept : g[m] \in target
      OBVIOUS
    <3>2. \A m, n \in kept : g[m] = g[n] => m = n
      BY <1>3
    <3>3. \A s \in target : \E m \in kept : g[m] = s
      BY <2>3
    <3> QED
      BY <3>1, <3>2, <3>3 DEF Bijection, Injection, Surjection, IsInjective
  <2>5. Cardinality(kept) = TeamCap
    <3>1. IsFiniteSet(target)
      BY <2>2, <2>3, FS_Subset
    <3>2. IsFiniteSet(kept)
      BY <1>1, FS_Subset, kept \subseteq pool
    <3> HIDE DEF g, kept, target
    <3> QED
      BY <2>3, <2>4, <3>1, <3>2, FS_Bijection DEF ExistsBijection
  <2>6. kept \subseteq pool
    OBVIOUS
  <2> HIDE DEF kept
  <2> QED
    BY <1>1, <1>2, <1>4, <1>6, <2>5, <2>6
<1> QED
  BY <1>5, <1>6

\* Who fills up a team comes from the overflow and has a role of the order; the team is full
\* then, or everyone who may come has come.
LEMMA FillIs ==
    ASSUME AbleMembers, NEW base, NEW overflow, overflow \subseteq usable,
           NEW R, NEW list \in Seq(R), Cardinality(base) \in 0..TeamCap
    PROVE  LET late == FillUnderCap(base, overflow, list)
           IN  /\ late \subseteq overflow \ base
               /\ IsFiniteSet(late) /\ Cardinality(base) + Cardinality(late) <= TeamCap
               /\ \A m \in (overflow \ base) \ late : Of(m).role \in Entries(list) =>
                     Cardinality(base) + Cardinality(late) = TeamCap
<1> DEFINE free == {m \in overflow \ base : Of(m).role \in Entries(list)}
           Precedes(n, m) == \/ Position(list)[Of(n).role] < Position(list)[Of(m).role]
                           \/ n \in BySource(m)
           ahead == [m \in free |-> {n \in free : Precedes(n, m)}]
           k == TeamCap - Cardinality(base)
           late == FirstFew(free, ahead, k)
           pos(m) == Position(list)[Of(m).role]
<1>1. FillUnderCap(base, overflow, list) = late
  BY DEF FillUnderCap
<1>2. free \subseteq usable /\ IsFiniteSet(free)
  <2>1. free \subseteq usable
    OBVIOUS
  <2> QED
    BY <2>1, MembersAre, FS_Subset
<1>3. k \in Nat /\ Cardinality(base) \in Nat /\ k + Cardinality(base) = TeamCap
  BY PartitionAssumption
<1>4. Chain(free, ahead)
  <2>1. \A m \in free : pos(m) \in Nat
    BY PositionIs
  <2>2. \A m, n \in free : pos(m) = pos(n) => Of(m).role = Of(n).role
    BY PositionIs
  <2>3. \A m, n \in free : n \in ahead[m] <=>
           pos(n) < pos(m) \/ (Of(n).role = Of(m).role /\ GoesFirst(Of(m).role, n, m))
    BY <1>2 DEF BySource
  <2>4. ahead \in [free -> SUBSET free]
    OBVIOUS
  <2> HIDE DEF free, ahead
  <2>5. \A m \in free : m \notin ahead[m]
    BY <1>2, <2>1, <2>3, GoesFirstIs
  <2>6. ASSUME NEW m \in free, NEW n \in free, m # n PROVE m \in ahead[n] \/ n \in ahead[m]
    <3>1. CASE pos(m) = pos(n)
      BY <1>2, <2>2, <2>3, <2>6, <3>1, GoesFirstIs
    <3>2. CASE pos(m) # pos(n)
      <4> HIDE DEF pos
      <4> QED
        BY <2>1, <2>3, <3>2
    <3> QED
      BY <3>1, <3>2
  <2>7. ASSUME NEW m \in free, NEW n \in free, m \in ahead[n], NEW l \in ahead[m] PROVE l \in ahead[n]
    <3>1. l \in free
      BY <2>4
    <3>2. /\ pos(m) < pos(n) \/ (Of(m).role = Of(n).role /\ GoesFirst(Of(n).role, m, n))
          /\ pos(l) < pos(m) \/ (Of(l).role = Of(m).role /\ GoesFirst(Of(m).role, l, m))
      BY <2>3, <2>7, <3>1
    <3>3. pos(m) \in Nat /\ pos(n) \in Nat /\ pos(l) \in Nat
      BY <2>1, <3>1
    <3>4. \A x, y \in free : Of(x).role = Of(y).role => pos(x) = pos(y)
      OBVIOUS
    <3>5. CASE pos(m) < pos(n) \/ pos(l) < pos(m)
      <4>1. pos(l) < pos(n)
        <5> HIDE DEF pos
        <5> QED
          BY <3>1, <3>2, <3>3, <3>4, <3>5
      <4> QED
        BY <2>3, <3>1, <4>1
    <3>6. CASE ~(pos(m) < pos(n) \/ pos(l) < pos(m))
      <4>1. GoesFirst(Of(n).role, l, n) /\ Of(l).role = Of(n).role
        BY <1>2, <3>1, <3>2, <3>6, GoesFirstIs
      <4> QED
        BY <2>3, <3>1, <4>1
    <3> QED
      BY <3>5, <3>6
  <2> QED
    BY <2>4, <2>5, <2>6, <2>7 DEF Chain
<1>5. /\ late \subseteq free /\ IsFiniteSet(late)
      /\ Cardinality(late) = Least(k, Cardinality(free))
      /\ late # free => Cardinality(late) = k
  <2> HIDE DEF free, ahead, k
  <2> QED
    BY <1>2, <1>3, <1>4, FirstFewAre
<1>6. Cardinality(late) <= k /\ Cardinality(late) \in Nat /\ Cardinality(free) \in Nat
  <2> HIDE DEF free, ahead, k, late
  <2>1. Cardinality(late) \in Nat /\ Cardinality(free) \in Nat
    BY <1>2, <1>5, FS_CardinalityType
  <2> QED
    BY <1>3, <1>5, <2>1 DEF Least
<1>7. \A m \in (overflow \ base) \ late : Of(m).role \in Entries(list) => Cardinality(late) = k
  BY <1>5
<1>8. late \subseteq overflow \ base
  BY <1>5
<1> HIDE DEF late, k, free, ahead
<1> QED
  BY <1>1, <1>3, <1>5, <1>6, <1>7, <1>8

FillRoles == {"spear", "sword", "bow", "crossbow", "hammer", "fire", "nature"}

\* What a strategy names are sides, and roles to fill up with.
LEMMA StrategyIs ==
    ASSUME NEW wk
    PROVE  /\ Strategy(wk).fill \in Seq(FillRoles)
           /\ Strategy(wk).rebalance \in Sides \cup {""}
           /\ Strategy(wk).physical \in Sides /\ Strategy(wk).magic \in Sides
           /\ Strategy(wk).shield \in Sides /\ Strategy(wk).mystic \in Sides
<1>1. CASE wk = "chameleon"
  <2>1. Strategy(wk) =
           [physical |-> "st", magic |-> "swarm", shield |-> "st", mystic |-> "swarm",
            rebalance |-> "st", healers |-> FALSE, fill |-> <<>>]
    BY <1>1, Zenon DEF Strategy
  <2> QED
    BY <2>1 DEF Sides, FillRoles
<1>2. CASE wk = "badger"
  <2> DEFINE f == <<"spear", "sword", "bow", "crossbow", "hammer">>
             s == Strategy(wk)
  <2>1. s =
           [physical |-> "swarm", magic |-> "st", shield |-> "swarm", mystic |-> "st",
            rebalance |-> "", healers |-> TRUE,
            fill |-> f]
    BY <1>2, wk # "chameleon", Zenon DEF Strategy
  <2>2. f \in Seq(FillRoles)
    BY DEF FillRoles
  <2> HIDE DEF f, s
  <2>3. s.fill = f
    BY <2>1
  <2>4. /\ s.rebalance = "" /\ s.physical = "swarm"
        /\ s.magic \in Sides /\ s.shield \in Sides
        /\ s.mystic \in Sides
    BY <2>1 DEF Sides
  <2> QED
    BY <2>2, <2>3, <2>4 DEF Sides, s
<1>3. CASE wk = "hedgehog"
  <2> DEFINE f == <<"fire", "crossbow", "sword", "bow", "nature", "hammer">>
             s == Strategy(wk)
  <2>1. s =
           [physical |-> "swarm", magic |-> "swarm", shield |-> "st", mystic |-> "swarm",
            rebalance |-> "", healers |-> TRUE,
            fill |-> f]
    BY <1>3, wk # "chameleon", wk # "badger", Zenon DEF Strategy
  <2>2. f \in Seq(FillRoles)
    BY DEF FillRoles
  <2> HIDE DEF f, s
  <2>3. s.fill = f
    BY <2>1
  <2>4. /\ s.rebalance = "" /\ s.physical = "swarm"
        /\ s.magic \in Sides /\ s.shield \in Sides
        /\ s.mystic \in Sides
    BY <2>1 DEF Sides
  <2> QED
    BY <2>2, <2>3, <2>4 DEF Sides, s
<1>4. CASE wk # "chameleon" /\ wk # "badger" /\ wk # "hedgehog"
  <2>1. Strategy(wk) =
           [physical |-> "swarm", magic |-> "st", shield |-> "swarm", mystic |-> "st",
            rebalance |-> "swarm", healers |-> FALSE, fill |-> <<>>]
    BY <1>4, Zenon DEF Strategy
  <2> QED
    BY <2>1 DEF Sides
<1> QED
  BY <1>1, <1>2, <1>3, <1>4

\* There are two sides, each the other of the other.
LEMMA SidesAre ==
    /\ Sides = {"st", "swarm"} /\ Other("st") = "swarm" /\ Other("swarm") = "st"
    /\ \A s \in Sides : Other(s) \in Sides /\ Other(s) # s /\ Other(Other(s)) = s
BY DEF Sides, Other

\* Every row of a team has members of its role, each of them once.
SoundTeam(rows) ==
    /\ rows \in [Roles -> Seq(usable)]
    /\ \A r \in Roles :
          /\ \A i \in DOMAIN rows[r] : Of(rows[r][i]).role = r
          /\ \A i, j \in DOMAIN rows[r] : rows[r][i] = rows[r][j] => i = j

\* A team has as many places as fighters, and the row of a role has those of that role.
LEMMA TeamIs ==
    ASSUME AbleMembers, NEW rows, SoundTeam(rows)
    PROVE  /\ Fighters(rows) \subseteq usable /\ IsFiniteSet(Fighters(rows))
           /\ TeamSize(rows) = Cardinality(Fighters(rows))
           /\ \A r \in Roles : Entries(rows[r]) = OfRole(Fighters(rows), r)
<1> DEFINE P == UNION {{r} \X DOMAIN rows[r] : r \in Roles}
           F == Fighters(rows)
           h == [p \in P |-> rows[p[1]][p[2]]]
<1>1. \A r \in Roles : \A i \in DOMAIN rows[r] :
         rows[r][i] \in usable /\ Of(rows[r][i]).role = r
  BY DEF SoundTeam
<1>2. F \subseteq usable
  BY <1>1 DEF Fighters, Entries
<1>3. \A r \in Roles : Entries(rows[r]) = OfRole(F, r)
  BY <1>1 DEF Fighters, Entries, OfRole
<1>4. IsFiniteSet(F)
  BY <1>2, MembersAre, FS_Subset
<1>5. \A p \in P : p[1] \in Roles /\ p[2] \in DOMAIN rows[p[1]] /\ p = <<p[1], p[2]>>
  OBVIOUS
<1>6. \A r \in Roles : \A i \in DOMAIN rows[r] : <<r, i>> \in P /\ h[<<r, i>>] = rows[r][i]
  OBVIOUS
<1>7. h \in Bijection(P, F)
  <2>1. \A p \in P : h[p] \in F
    BY <1>5 DEF Fighters, Entries
  <2>2. ASSUME NEW p \in P, NEW q \in P, h[p] = h[q] PROVE p = q
    <3>1. rows[p[1]][p[2]] = rows[q[1]][q[2]]
      BY <2>2
    <3>2. p[1] = q[1]
      BY <1>1, <1>5, <3>1
    <3>3. p[2] = q[2]
      BY <1>5, <3>1, <3>2 DEF SoundTeam
    <3> QED
      BY <1>5, <3>2, <3>3
  <2>3. ASSUME NEW m \in F PROVE \E p \in P : h[p] = m
    <3>1. PICK r \in Roles : m \in Entries(rows[r])
      BY DEF Fighters
    <3>2. PICK i \in DOMAIN rows[r] : m = rows[r][i]
      BY <3>1 DEF Entries
    <3>3. <<r, i>> \in P /\ h[<<r, i>>] = m
      BY <1>6, <3>2
    <3> HIDE DEF h, P
    <3> QED
      BY <3>3
  <2>4. h = [p \in P |-> h[p]]
    OBVIOUS
  <2> HIDE DEF h, P, F
  <2> QED
    BY <2>1, <2>2, <2>3, <2>4 DEF Bijection, Injection, Surjection, IsInjective
<1>8. Cardinality(P) = Cardinality(F)
  <2> HIDE DEF h, P, F
  <2>1. h \in Injection(P, F)
    BY <1>7 DEF Bijection
  <2>2. IsFiniteSet(P)
    BY <1>4, <2>1, FS_Injection
  <2> QED
    BY <1>7, <2>2, FS_Bijection DEF ExistsBijection
<1> QED
  BY <1>2, <1>3, <1>4, <1>8 DEF TeamSize

\* Two rows one after the other.
LEMMA Joined ==
    ASSUME NEW S, NEW a \in Seq(S), NEW b \in Seq(S),
           \A i, j \in 1..Len(a) : a[i] = a[j] => i = j,
           \A i, j \in 1..Len(b) : b[i] = b[j] => i = j,
           Entries(a) \cap Entries(b) = {}
    PROVE  /\ a \o b \in Seq(S)
           /\ Entries(a \o b) = Entries(a) \cup Entries(b)
           /\ \A i, j \in DOMAIN (a \o b) : (a \o b)[i] = (a \o b)[j] => i = j
<1> DEFINE c == a \o b
           k == Len(a)
           l == Len(b)
<1>1. k \in Nat /\ l \in Nat /\ c \in Seq(S) /\ DOMAIN c = 1..(k + l)
      /\ DOMAIN a = 1..k /\ DOMAIN b = 1..l
  OBVIOUS
<1>2. \A i \in 1..k : c[i] = a[i] /\ a[i] \in Entries(a)
  BY DEF Entries
<1>3. \A i \in 1..(k + l) : i \notin 1..k => i - k \in 1..l /\ c[i] = b[i - k] /\ b[i - k] \in Entries(b)
  BY <1>1 DEF Entries
<1>4. \A i \in 1..l : c[i + k] = b[i] /\ i + k \in 1..(k + l)
  OBVIOUS
<1> HIDE DEF c, k, l
<1>5. Entries(c) = Entries(a) \cup Entries(b)
  <2>1. ASSUME NEW x \in Entries(c) PROVE x \in Entries(a) \cup Entries(b)
    <3>1. PICK i \in 1..(k + l) : x = c[i]
      BY <1>1 DEF Entries
    <3> QED
      BY <1>2, <1>3, <3>1
  <2>2. ASSUME NEW x \in Entries(a) PROVE x \in Entries(c)
    <3>1. PICK i \in 1..k : x = a[i]
      BY <1>1 DEF Entries
    <3>2. i \in 1..(k + l)
      BY <1>1
    <3> QED
      BY <1>1, <1>2, <3>1, <3>2 DEF Entries
  <2>3. ASSUME NEW x \in Entries(b) PROVE x \in Entries(c)
    <3>1. PICK i \in 1..l : x = b[i]
      BY <1>1 DEF Entries
    <3> QED
      BY <1>1, <1>4, <3>1 DEF Entries
  <2> QED
    BY <2>1, <2>2, <2>3
<1>6. ASSUME NEW i \in 1..(k + l), NEW j \in 1..(k + l), c[i] = c[j] PROVE i = j
  <2>1. CASE i \in 1..k /\ j \in 1..k
    BY <1>2, <1>6, <2>1 DEF k
  <2>2. CASE i \notin 1..k /\ j \notin 1..k
    <3>1. i - k = j - k
      BY <1>3, <1>6, <2>2 DEF l
    <3> QED
      BY <1>1, <3>1
  <2>3. CASE (i \in 1..k) # (j \in 1..k)
    BY <1>2, <1>3, <1>6, <2>3
  <2> QED
    BY <2>1, <2>2, <2>3
<1> QED
  BY <1>1, <1>5, <1>6 DEF c

\* The rows of members who were there and of those who came later are a team of both.
LEMMA RowsAre ==
    ASSUME AbleMembers, NEW S, NEW late, S \subseteq usable, late \subseteq usable, S \cap late = {},
           NEW rows, rows = [r \in Roles |-> rows[r]],
           \A r \in Roles : rows[r] = Lineup(OfRole(S, r)) \o LateRow(OfRole(late, r))
    PROVE  /\ SoundTeam(rows) /\ Fighters(rows) = S \cup late
           /\ TeamSize(rows) = Cardinality(S) + Cardinality(late)
<1>1. ASSUME NEW r \in Roles
      PROVE  /\ rows[r] \in Seq(usable) /\ Entries(rows[r]) = OfRole(S \cup late, r)
             /\ \A i, j \in DOMAIN rows[r] : rows[r][i] = rows[r][j] => i = j
  <2> DEFINE A == OfRole(S, r)
             B == OfRole(late, r)
             a == Lineup(A)
             b == LateRow(B)
  <2>1. /\ A \subseteq usable /\ B \subseteq usable /\ A \cap B = {} /\ A \cup B = OfRole(S \cup late, r)
        /\ \A m \in B : Of(m).role = r
    BY DEF OfRole
  <2>2. rows[r] = a \o b
    OBVIOUS
  <2> HIDE DEF A, B
  <2>3. IsFiniteSet(A) /\ A \subseteq Nat
    BY <2>1, MembersAre, FS_Subset
  <2>4. /\ a \in Seq(A) /\ Len(a) = Cardinality(A) /\ Entries(a) = A
        /\ \A i, j \in 1..Cardinality(A) : a[i] = a[j] => i = j
    BY <2>3, LineupIs
  <2>5. /\ b \in Seq(B) /\ Len(b) = Cardinality(B) /\ Entries(b) = B
        /\ \A i, j \in 1..Cardinality(B) : b[i] = b[j] => i = j
    BY <2>1, LateRowIs
  <2> HIDE DEF a, b
  <2>6. a \in Seq(usable) /\ b \in Seq(usable)
    BY <2>1, <2>4, <2>5
  <2>7. /\ a \o b \in Seq(usable)
        /\ Entries(a \o b) = Entries(a) \cup Entries(b)
        /\ \A i, j \in DOMAIN (a \o b) : (a \o b)[i] = (a \o b)[j] => i = j
    <3>1. /\ \A i, j \in 1..Len(a) : a[i] = a[j] => i = j
          /\ \A i, j \in 1..Len(b) : b[i] = b[j] => i = j
          /\ Entries(a) \cap Entries(b) = {}
      BY <2>1, <2>4, <2>5
    <3> QED
      BY <2>6, <3>1, Joined
  <2>8. Entries(a \o b) = OfRole(S \cup late, r)
    BY <2>1, <2>4, <2>5, <2>7
  <2> DEFINE c == a \o b
  <2>9. rows[r] = c /\ c \in Seq(usable) /\ Entries(c) = OfRole(S \cup late, r)
        /\ \A i, j \in DOMAIN c : c[i] = c[j] => i = j
    BY <2>2, <2>7, <2>8
  <2> HIDE DEF c
  <2> QED
    BY <2>9
<1>2. SoundTeam(rows)
  <2>1. rows \in [Roles -> Seq(usable)]
    BY <1>1
  <2>2. ASSUME NEW r \in Roles, NEW i \in DOMAIN rows[r] PROVE Of(rows[r][i]).role = r
    <3>1. rows[r][i] \in Entries(rows[r])
      BY DEF Entries
    <3>2. \E T : Entries(rows[r]) = OfRole(T, r)
      BY <1>1
    <3> QED
      BY <3>1, <3>2 DEF OfRole
  <2> QED
    BY <1>1, <2>1, <2>2 DEF SoundTeam
<1>3. Fighters(rows) = S \cup late
  <2>1. \A m \in S \cup late : Of(m).role \in Roles
    BY MembersAre
  <2>2. Fighters(rows) = UNION {OfRole(S \cup late, r) : r \in Roles}
    BY <1>1 DEF Fighters
  <2>3. ASSUME NEW m \in S \cup late PROVE m \in OfRole(S \cup late, Of(m).role)
    BY DEF OfRole
  <2>4. \A r \in Roles : OfRole(S \cup late, r) \subseteq S \cup late
    BY DEF OfRole
  <2> QED
    BY <2>1, <2>2, <2>3, <2>4
<1>4. TeamSize(rows) = Cardinality(S \cup late)
  BY <1>2, <1>3, TeamIs
<1>5. IsFiniteSet(S) /\ IsFiniteSet(late)
  BY MembersAre, FS_Subset
<1>6. Cardinality(S \cup late) = Cardinality(S) + Cardinality(late)
  <2>1. Cardinality(S \cap late) = 0
    BY FS_EmptySet
  <2>2. Cardinality(S) \in Nat /\ Cardinality(late) \in Nat
    BY <1>5, FS_CardinalityType
  <2>3. Cardinality(S \cup late) = Cardinality(S) + Cardinality(late) - Cardinality(S \cap late)
    BY <1>5, FS_Union
  <2> QED
    BY <2>1, <2>2, <2>3
<1> QED
  BY <1>2, <1>3, <1>4, <1>6

\* The same of a team without newcomers.
LEMMA LineupsAre ==
    ASSUME AbleMembers, NEW S, S \subseteq usable,
           NEW rows, rows = [r \in Roles |-> Lineup(OfRole(S, r))]
    PROVE  SoundTeam(rows) /\ Fighters(rows) = S /\ TeamSize(rows) = Cardinality(S)
<1>1. ASSUME NEW r \in Roles
      PROVE  /\ rows[r] \in Seq(usable) /\ Entries(rows[r]) = OfRole(S, r)
             /\ \A i, j \in DOMAIN rows[r] : rows[r][i] = rows[r][j] => i = j
  <2> DEFINE A == OfRole(S, r)
             a == Lineup(A)
  <2>1. A \subseteq usable /\ rows[r] = a
    BY DEF OfRole
  <2> HIDE DEF A
  <2>2. IsFiniteSet(A) /\ A \subseteq Nat
    BY <2>1, MembersAre, FS_Subset
  <2>3. /\ a \in Seq(A) /\ Len(a) = Cardinality(A) /\ Entries(a) = A
        /\ \A i, j \in 1..Cardinality(A) : a[i] = a[j] => i = j
    BY <2>2, LineupIs
  <2> HIDE DEF a
  <2>4. a \in Seq(usable) /\ DOMAIN a = 1..Cardinality(A)
    BY <2>1, <2>3
  <2> QED
    BY <2>1, <2>3, <2>4 DEF A
<1>2. SoundTeam(rows)
  <2>1. rows \in [Roles -> Seq(usable)]
    BY <1>1
  <2>2. ASSUME NEW r \in Roles, NEW i \in DOMAIN rows[r] PROVE Of(rows[r][i]).role = r
    <3>1. rows[r][i] \in Entries(rows[r])
      BY DEF Entries
    <3>2. \E T : Entries(rows[r]) = OfRole(T, r)
      BY <1>1
    <3> QED
      BY <3>1, <3>2 DEF OfRole
  <2> QED
    BY <1>1, <2>1, <2>2 DEF SoundTeam
<1>3. Fighters(rows) = S
  <2>1. \A m \in S : Of(m).role \in Roles
    BY MembersAre
  <2>2. Fighters(rows) = UNION {OfRole(S, r) : r \in Roles}
    BY <1>1 DEF Fighters
  <2>3. ASSUME NEW m \in S PROVE m \in OfRole(S, Of(m).role)
    BY DEF OfRole
  <2>4. \A r \in Roles : OfRole(S, r) \subseteq S
    BY DEF OfRole
  <2> QED
    BY <2>1, <2>2, <2>3, <2>4
<1> QED
  BY <1>2, <1>3, TeamIs

\* Two teams that share nobody, keep to the capacity and leave nobody out who may come.
TeamsFit(teams) ==
    /\ teams \in [Sides -> [Roles -> Seq(usable)]]
    /\ \A s \in Sides : SoundTeam(teams[s]) /\ TeamSize(teams[s]) <= TeamCap
    /\ Fighters(teams["st"]) \cap Fighters(teams["swarm"]) = {}
    /\ NobodyLeftOut(teams)

\* Either a side is cut to the capacity or nobody of it overflows; so whoever overflows
\* finds the own side full, and has come to the other or found it full too, or shut.
LEMMA ApplyTeamCapsIs ==
    ASSUME AbleMembers, NEW pools \in [Sides -> SUBSET usable],
           pools["st"] \cap pools["swarm"] = {}, pools["st"] \cup pools["swarm"] = usable
    PROVE  TeamsFit(ApplyTeamCaps(pools))
<1> DEFINE alone == [side \in Sides |-> CapTeamPool(pools[side])]
           Leftovers(side) == pools[side] \ alone[side]
           Open(side) == Cardinality(alone[side]) < TeamCap /\ Leftovers(Other(side)) # {}
           Joint(side) == CapTeamPool(alone[side] \cup Leftovers(Other(side)))
           fill == Strategy(given.week).fill
           swarm == IF Open("swarm") THEN Joint("swarm") ELSE alone["swarm"]
           st == IF Open("st") /\ fill = <<>> THEN Joint("st") ELSE alone["st"]
           late == IF Open("st") /\ fill # <<>>
                   THEN FillUnderCap(alone["st"], Leftovers("swarm"), fill) ELSE {}
           stRows == [r \in Roles |-> Lineup(OfRole(st, r)) \o LateRow(OfRole(late, r))]
           swarmRows == [r \in Roles |-> Lineup(OfRole(swarm, r))]
           teams == ApplyTeamCaps(pools)
           P == pools["st"]
           Q == pools["swarm"]
           A == alone["st"]
           B == alone["swarm"]
<1>1. /\ teams \in [Sides -> [Roles -> {stRows[r] : r \in Roles} \cup {swarmRows[r] : r \in Roles}]]
      /\ teams["st"] = stRows /\ teams["swarm"] = swarmRows
  <2>1. teams = [side \in Sides |-> [r \in Roles |->
            IF side = "st" THEN Lineup(OfRole(st, r)) \o LateRow(OfRole(late, r))
            ELSE Lineup(OfRole(swarm, r))]]
    BY DEF ApplyTeamCaps
  <2> HIDE DEF st, late, swarm, teams
  <2>2. teams["st"] = stRows /\ teams["swarm"] = swarmRows
    BY <2>1, SidesAre
  <2>3. teams = [s \in Sides |-> teams[s]]
    BY <2>1
  <2>4. stRows = [r \in Roles |-> stRows[r]] /\ swarmRows = [r \in Roles |-> swarmRows[r]]
    OBVIOUS
  <2> HIDE DEF stRows, swarmRows
  <2> QED
    BY <2>2, <2>3, <2>4, SidesAre
<1>2. /\ A = CapTeamPool(P) /\ B = CapTeamPool(Q) /\ P \subseteq usable /\ Q \subseteq usable
      /\ P \cap Q = {} /\ P \cup Q = usable
  BY SidesAre
<1>3. /\ Open("swarm") <=> Cardinality(B) < TeamCap /\ P \ A # {}
      /\ Open("st") <=> Cardinality(A) < TeamCap /\ Q \ B # {}
      /\ Joint("swarm") = CapTeamPool(B \cup (P \ A))
      /\ Joint("st") = CapTeamPool(A \cup (Q \ B))
      /\ Leftovers("swarm") = Q \ B
  BY SidesAre
<1>4. /\ swarm = IF Cardinality(B) < TeamCap /\ P \ A # {} THEN CapTeamPool(B \cup (P \ A)) ELSE B
      /\ st = IF Cardinality(A) < TeamCap /\ Q \ B # {} /\ fill = <<>> THEN CapTeamPool(A \cup (Q \ B)) ELSE A
      /\ late = IF Cardinality(A) < TeamCap /\ Q \ B # {} /\ fill # <<>> THEN FillUnderCap(A, Q \ B, fill) ELSE {}
  <2> HIDE DEF alone, Joint, Leftovers, fill
  <2> QED
    BY <1>3
<1>5. fill \in Seq(FillRoles) /\ TeamCap \in Nat \ {0}
  BY StrategyIs, PartitionAssumption
<1> HIDE DEF A, B, P, Q, alone, Joint, Leftovers, Open, fill, swarm, st, late, teams
<1>6. /\ A \subseteq P /\ Cardinality(A) \in Nat /\ Cardinality(A) <= TeamCap
      /\ A # P => Cardinality(A) = TeamCap
  <2>1. A \subseteq P
    BY <1>2, CapIs
  <2>2. Cardinality(A) \in Nat
    BY <1>2, <2>1, MembersAre, FS_Subset, FS_CardinalityType
  <2> QED
    BY <1>2, <2>1, <2>2, CapIs
<1>7. /\ B \subseteq Q /\ Cardinality(B) \in Nat /\ Cardinality(B) <= TeamCap
      /\ B # Q => Cardinality(B) = TeamCap
  <2>1. B \subseteq Q
    BY <1>2, CapIs
  <2>2. Cardinality(B) \in Nat
    BY <1>2, <2>1, MembersAre, FS_Subset, FS_CardinalityType
  <2> QED
    BY <1>2, <2>1, <2>2, CapIs
<1>8. /\ swarm \subseteq B \cup (P \ A) /\ Cardinality(swarm) <= TeamCap
      /\ swarm # B \cup (P \ A) => Cardinality(swarm) = TeamCap
      /\ B \ swarm # {} => P \ A # {}
  <2> DEFINE J == B \cup (P \ A)
  <2>1. J \subseteq usable
    BY <1>2, <1>7
  <2>2. CASE Cardinality(B) < TeamCap /\ P \ A # {}
    <3>1. swarm = CapTeamPool(J)
      BY <1>4, <2>2
    <3> HIDE DEF J
    <3>2. swarm \subseteq J /\ Cardinality(swarm) <= TeamCap /\ (swarm # J => Cardinality(swarm) = TeamCap)
      BY <2>1, <3>1, CapIs
    <3> QED
      BY <2>2, <3>2 DEF J
  <2>3. CASE ~(Cardinality(B) < TeamCap /\ P \ A # {})
    <3>1. swarm = B
      BY <1>4, <2>3
    <3>2. P \ A # {} => Cardinality(B) = TeamCap
      BY <1>5, <1>7, <2>3
    <3> QED
      BY <1>7, <3>1, <3>2
  <2> QED
    BY <2>2, <2>3
<1>9. /\ st \subseteq A \cup (Q \ B) /\ late \subseteq Q \ B /\ st \cap late = {}
      /\ Cardinality(st) + Cardinality(late) <= TeamCap
      /\ A \ st # {} => Cardinality(st) + Cardinality(late) = TeamCap /\ Q \ B # {}
      /\ \A m \in (Q \ B) \ (st \cup late) :
            \/ Cardinality(st) + Cardinality(late) = TeamCap
            \/ fill # <<>> /\ Of(m).role \notin Entries(fill)
  <2> DEFINE J == A \cup (Q \ B)
  <2>1. J \subseteq usable /\ Q \ B \subseteq usable /\ A \cap (Q \ B) = {}
    BY <1>2, <1>6
  <2>2. Cardinality({}) = 0
    BY FS_EmptySet
  <2>3. CASE Cardinality(A) < TeamCap /\ Q \ B # {} /\ fill = <<>>
    <3>1. st = CapTeamPool(J) /\ late = {}
      BY <1>4, <2>3
    <3> HIDE DEF J
    <3>2. st \subseteq J /\ Cardinality(st) <= TeamCap /\ (st # J => Cardinality(st) = TeamCap)
      BY <2>1, <3>1, CapIs
    <3>3. Cardinality(st) \in Nat
      BY <2>1, <3>2, MembersAre, FS_Subset, FS_CardinalityType
    <3>4. Cardinality(st) + Cardinality(late) = Cardinality(st)
      BY <2>2, <3>1, <3>3
    <3> QED
      BY <2>3, <3>1, <3>2, <3>4 DEF J
  <2>4. CASE Cardinality(A) < TeamCap /\ Q \ B # {} /\ fill # <<>>
    <3> DEFINE L == Q \ B
    <3>1. st = A /\ late = FillUnderCap(A, L, fill)
      BY <1>4, <2>4
    <3>2. Cardinality(A) \in 0..TeamCap
      BY <1>5, <1>6
    <3>4. L \subseteq usable /\ fill \in Seq(FillRoles)
      BY <1>5, <2>1
    <3> HIDE DEF L
    <3> DEFINE K == FillUnderCap(A, L, fill)
    <3>5. /\ K \subseteq L \ A
          /\ IsFiniteSet(K) /\ Cardinality(A) + Cardinality(K) <= TeamCap
          /\ \A m \in (L \ A) \ K : Of(m).role \in Entries(fill) =>
                Cardinality(A) + Cardinality(K) = TeamCap
      BY <3>2, <3>4, FillIs
    <3>3. /\ late \subseteq L \ A
          /\ IsFiniteSet(late) /\ Cardinality(A) + Cardinality(late) <= TeamCap
          /\ \A m \in (L \ A) \ late : Of(m).role \in Entries(fill) =>
                Cardinality(A) + Cardinality(late) = TeamCap
      BY <3>1, <3>5
    <3> QED
      BY <2>4, <3>1, <3>3 DEF L
  <2>5. CASE ~(Cardinality(A) < TeamCap /\ Q \ B # {})
    <3>1. st = A /\ late = {}
      BY <1>4, <2>5
    <3>2. Cardinality(st) + Cardinality(late) = Cardinality(A)
      BY <1>6, <2>2, <3>1
    <3>3. Q \ B # {} => Cardinality(A) = TeamCap
      BY <1>5, <1>6, <2>5
    <3> QED
      BY <1>6, <3>1, <3>2, <3>3
  <2> QED
    BY <2>3, <2>4, <2>5
<1>10. /\ swarm \subseteq usable /\ st \subseteq usable /\ late \subseteq usable
       /\ (st \cup late) \cap swarm = {}
  BY <1>2, <1>6, <1>7, <1>8, <1>9
<1>11. SoundTeam(stRows) /\ Fighters(stRows) = st \cup late
       /\ TeamSize(stRows) = Cardinality(st) + Cardinality(late)
  <2>1. /\ stRows = [r \in Roles |-> stRows[r]]
        /\ \A r \in Roles : stRows[r] = Lineup(OfRole(st, r)) \o LateRow(OfRole(late, r))
    OBVIOUS
  <2>2. st \subseteq usable /\ late \subseteq usable /\ st \cap late = {}
    BY <1>9, <1>10
  <2> HIDE DEF stRows
  <2> QED
    BY <2>1, <2>2, RowsAre
<1>12. SoundTeam(swarmRows) /\ Fighters(swarmRows) = swarm /\ TeamSize(swarmRows) = Cardinality(swarm)
  <2>1. swarmRows = [r \in Roles |-> Lineup(OfRole(swarm, r))]
    OBVIOUS
  <2> HIDE DEF swarmRows
  <2> QED
    BY <1>10, <2>1, LineupsAre
<1> HIDE DEF stRows, swarmRows
<1>13. teams \in [Sides -> [Roles -> Seq(usable)]]
  <2>1. stRows \in [Roles -> Seq(usable)] /\ swarmRows \in [Roles -> Seq(usable)]
    BY <1>11, <1>12 DEF SoundTeam
  <2>2. teams = [s \in Sides |-> teams[s]]
    BY <1>1
  <2> QED
    BY <1>1, <2>1, <2>2, SidesAre
<1>14. NobodyLeftOut(teams)
  <2>1. ASSUME NEW m \in usable, m \notin st \cup late, m \notin swarm
        PROVE  /\ Cardinality(swarm) = TeamCap
               /\ \/ Cardinality(st) + Cardinality(late) = TeamCap
                  \/ fill # <<>> /\ Of(m).role \notin Entries(fill)
    <3>1. CASE m \in A
      <4>1. /\ Cardinality(st) + Cardinality(late) = TeamCap /\ Q \ B # {}
        BY <1>9, <2>1, <3>1
      <4>2. Cardinality(B) = TeamCap
        BY <1>7, <4>1
      <4>3. swarm = B
        BY <1>4, <1>5, <4>2
      <4> QED
        BY <4>1, <4>2, <4>3
    <3>2. CASE m \in P \ A
      <4>1. Cardinality(A) = TeamCap
        BY <1>6, <3>2
      <4>2. st = A /\ late = {}
        BY <1>4, <1>5, <4>1
      <4>3. Cardinality(st) + Cardinality(late) = TeamCap
        BY <1>5, <4>1, <4>2, FS_EmptySet
      <4> QED
        BY <1>8, <2>1, <3>2, <4>3
    <3>3. CASE m \in B
      <4>1. Cardinality(swarm) = TeamCap /\ P \ A # {}
        BY <1>8, <2>1, <3>3
      <4>2. Cardinality(A) = TeamCap
        BY <1>6, <4>1
      <4>3. st = A /\ late = {}
        BY <1>4, <1>5, <4>2
      <4>4. Cardinality(st) + Cardinality(late) = TeamCap
        BY <1>5, <4>2, <4>3, FS_EmptySet
      <4> QED
        BY <4>1, <4>4
    <3>4. CASE m \in Q \ B
      <4>1. Cardinality(B) = TeamCap
        BY <1>7, <3>4
      <4>2. swarm = B
        BY <1>4, <1>5, <4>1
      <4> QED
        BY <1>9, <2>1, <3>4, <4>1, <4>2
    <3> QED
      BY <1>2, <3>1, <3>2, <3>3, <3>4
  <2> QED
    BY <1>1, <1>11, <1>12, <2>1, SidesAre DEF NobodyLeftOut, fill
<1>15. \A s \in Sides : SoundTeam(teams[s]) /\ TeamSize(teams[s]) <= TeamCap
  BY <1>1, <1>8, <1>9, <1>11, <1>12, SidesAre
<1>16. Fighters(teams["st"]) \cap Fighters(teams["swarm"]) = {}
  BY <1>1, <1>10, <1>11, <1>12
<1>17. TeamsFit(teams)
  BY <1>13, <1>14, <1>15, <1>16 DEF TeamsFit
<1> QED
  BY <1>17 DEF teams

-----------------------------------------------------------------------------
(* The composition lab: sides and exchanges *)

\* Whatever the policy, everybody goes to one of the sides.
LEMMA SideOfIs ==
    ASSUME NEW wk, NEW policy, NEW role, NEW i, NEW n
    PROVE  SideOf(wk, policy, role, i, n) \in Sides
<1>0. /\ Strategy(wk).physical \in Sides /\ Strategy(wk).magic \in Sides
      /\ Strategy(wk).shield \in Sides
  BY StrategyIs
<1>1. Majority(wk, role) \in Sides
  BY <1>0, SidesAre DEF Majority
<1>2. Other(Majority(wk, role)) \in Sides /\ Other(Strategy(wk).shield) \in Sides
  BY <1>0, <1>1, SidesAre
<1>3. CASE role = "shield"
  BY <1>0, <1>2, <1>3 DEF SideOf
<1>4. CASE role = "nature"
  BY <1>4, SidesAre DEF SideOf
<1>5. CASE role \notin {"shield", "nature"}
  BY <1>1, <1>2, <1>5 DEF SideOf
<1> QED
  BY <1>3, <1>4, <1>5

\* partitionAvailableMembers: everybody goes to one of the two sides.
LEMMA PartitionIs ==
    /\ Partition \in [Sides -> SUBSET usable]
    /\ Partition["st"] \cap Partition["swarm"] = {}
    /\ Partition["st"] \cup Partition["swarm"] = usable
<1> DEFINE Side(m) == SideOf(given.week, Head(policies), Of(m).role, 1 + Cardinality(BySource(m)),
                          Cardinality(OfRole(usable, Of(m).role)))
<1>1. Partition = [side \in Sides |-> {m \in usable : Side(m) = side}]
  BY DEF Partition
<1>2. \A m \in usable : Side(m) \in Sides
  BY SideOfIs
<1> HIDE DEF Side
<1> QED
  BY <1>1, <1>2, SidesAre

\* One of the weakest of a row is weakest, and one of the strongest of a row strongest.
LEMMA ExtremesAre ==
    ASSUME AbleMembers, NEW role, NEW toward, toward = Strategy(given.week).rebalance,
           Rows(toward, role) \subseteq usable, Rows(toward, role) # {},
           Rows(Other(toward), role) \subseteq usable, Rows(Other(toward), role) # {}
    PROVE  /\ Weakest(role) \in Rows(toward, role)
           /\ \A m \in Rows(toward, role) : PhysicalLevel(Weakest(role)) <= PhysicalLevel(m)
           /\ Strongest(role) \in Rows(Other(toward), role)
           /\ \A m \in Rows(Other(toward), role) : PhysicalLevel(m) <= PhysicalLevel(Strongest(role))
<1> DEFINE S == Rows(toward, role)
           T == Rows(Other(toward), role)
           up == [m \in S |-> {n \in S : \/ PhysicalLevel(n) < PhysicalLevel(m)
                                         \/ PhysicalLevel(n) = PhysicalLevel(m) /\ n < m}]
           down == [m \in T |-> {n \in T : \/ PhysicalLevel(n) > PhysicalLevel(m)
                                           \/ PhysicalLevel(n) = PhysicalLevel(m) /\ n < m}]
<1>1. Weakest(role) = Foremost(S, up)
  BY DEF Weakest
<1>2. Strongest(role) = Foremost(T, down)
  BY DEF Strongest
<1>3. /\ IsFiniteSet(S) /\ S # {} /\ S \subseteq usable
      /\ IsFiniteSet(T) /\ T # {} /\ T \subseteq usable
  BY MembersAre, FS_Subset
<1>4. \A m \in usable : m \in Nat /\ PhysicalLevel(m) \in Int
  BY MembersAre
<1>5. up \in [S -> SUBSET S] /\ down \in [T -> SUBSET T]
  OBVIOUS
<1>6. \A m, n \in S : n \in up[m] <=> \/ PhysicalLevel(n) < PhysicalLevel(m)
                                      \/ PhysicalLevel(n) = PhysicalLevel(m) /\ n < m
  OBVIOUS
<1>7. \A m, n \in T : n \in down[m] <=> \/ PhysicalLevel(n) > PhysicalLevel(m)
                                        \/ PhysicalLevel(n) = PhysicalLevel(m) /\ n < m
  OBVIOUS
<1> HIDE DEF S, T, up, down
<1>8. Chain(S, up)
  <2>1. \A m \in S : m \notin up[m]
    BY <1>3, <1>4, <1>6
  <2>2. \A m, n \in S : m # n => m \in up[n] \/ n \in up[m]
    BY <1>3, <1>4, <1>6
  <2>3. ASSUME NEW m \in S, NEW n \in S, m \in up[n], NEW k \in up[m] PROVE k \in up[n]
    <3>1. k \in S
      BY <1>5
    <3> QED
      BY <1>3, <1>4, <1>6, <2>3, <3>1
  <2> QED
    BY <1>5, <2>1, <2>2, <2>3 DEF Chain
<1>9. Chain(T, down)
  <2>1. \A m \in T : m \notin down[m]
    BY <1>3, <1>4, <1>7
  <2>2. \A m, n \in T : m # n => m \in down[n] \/ n \in down[m]
    BY <1>3, <1>4, <1>7
  <2>3. ASSUME NEW m \in T, NEW n \in T, m \in down[n], NEW k \in down[m] PROVE k \in down[n]
    <3>1. k \in T
      BY <1>5
    <3> QED
      BY <1>3, <1>4, <1>7, <2>3, <3>1
  <2> QED
    BY <1>5, <2>1, <2>2, <2>3 DEF Chain
<1>10. Foremost(S, up) \in S /\ \A x \in S : x \notin up[Foremost(S, up)]
  BY <1>3, <1>8, ForemostIs
<1>11. Foremost(T, down) \in T /\ \A x \in T : x \notin down[Foremost(T, down)]
  BY <1>3, <1>9, ForemostIs
<1>12. \A m \in S : PhysicalLevel(Weakest(role)) <= PhysicalLevel(m)
  BY <1>1, <1>3, <1>4, <1>6, <1>10
<1>13. \A m \in T : PhysicalLevel(m) <= PhysicalLevel(Strongest(role))
  BY <1>2, <1>3, <1>4, <1>7, <1>11
<1> QED
  BY <1>1, <1>2, <1>10, <1>11, <1>12, <1>13 DEF S, T

\* One for another in a row.
LEMMA ReplaceIs ==
    ASSUME NEW S, NEW row \in Seq(S), NEW a \in Entries(row), NEW b \in S, b \notin Entries(row),
           \A i, j \in DOMAIN row : row[i] = row[j] => i = j
    PROVE  /\ Replace(row, a, b) \in Seq(S) /\ DOMAIN Replace(row, a, b) = DOMAIN row
           /\ Len(Replace(row, a, b)) = Len(row)
           /\ Entries(Replace(row, a, b)) = (Entries(row) \ {a}) \cup {b}
           /\ \A i, j \in DOMAIN row : Replace(row, a, b)[i] = Replace(row, a, b)[j] => i = j
<1> DEFINE new == Replace(row, a, b)
           n == Len(row)
<1>1. n \in Nat /\ DOMAIN row = 1..n
  OBVIOUS
<1>2. new = [i \in 1..n |-> IF row[i] = a THEN b ELSE row[i]]
  BY <1>1 DEF Replace
<1>3. PICK k \in 1..n : row[k] = a
  BY <1>1 DEF Entries
<1>4. \A i \in 1..n : row[i] \in Entries(row) /\ row[i] \in S
  BY <1>1 DEF Entries
<1>5. \A i \in 1..n : new[i] = IF row[i] = a THEN b ELSE row[i]
  BY <1>2
<1>6. new \in Seq(S) /\ DOMAIN new = 1..n /\ Len(new) = n
  <2>1. new \in [1..n -> S]
    BY <1>2, <1>4
  <2> HIDE DEF new
  <2> QED
    BY <1>1, <2>1
<1> HIDE DEF new, n
<1>7. Entries(new) = (Entries(row) \ {a}) \cup {b}
  <2>1. ASSUME NEW x \in Entries(new) PROVE x \in (Entries(row) \ {a}) \cup {b}
    <3>1. PICK i \in 1..n : x = new[i]
      BY <1>6 DEF Entries
    <3> QED
      BY <1>4, <1>5, <3>1
  <2>2. ASSUME NEW x \in Entries(row), x # a PROVE x \in Entries(new)
    <3>1. PICK i \in 1..n : x = row[i]
      BY <1>1 DEF Entries
    <3>2. new[i] = x
      BY <1>5, <2>2, <3>1
    <3> QED
      BY <1>6, <3>2 DEF Entries
  <2>3. b \in Entries(new)
    <3>1. new[k] = b
      BY <1>3, <1>5
    <3> QED
      BY <1>6, <3>1 DEF Entries
  <2> QED
    BY <2>1, <2>2, <2>3
<1>8. ASSUME NEW i \in 1..n, NEW j \in 1..n, new[i] = new[j] PROVE i = j
  BY <1>1, <1>4, <1>5, <1>8
<1> QED
  BY <1>1, <1>6, <1>7, <1>8 DEF new, n

\* Members of a role on either side, who may change places, and what comes of it.
ExchangeFits(teams, r, side, a, b) ==
    /\ AbleMembers /\ TeamsFit(teams) /\ r \in Roles /\ side \in Sides
    /\ a \in Entries(teams[side][r]) /\ b \in Entries(teams[Other(side)][r])

Exchanged(teams, new, r, side, a, b) ==
    /\ TeamsFit(new)
    /\ \A s \in Sides : TeamSize(new[s]) = TeamSize(teams[s])
    /\ \A s \in Sides, q \in Roles : /\ Len(new[s][q]) = Len(teams[s][q])
                                     /\ q # r => new[s][q] = teams[s][q]
    /\ Entries(new[side][r]) = (Entries(teams[side][r]) \ {a}) \cup {b}
    /\ Entries(new[Other(side)][r]) = (Entries(teams[Other(side)][r]) \ {b}) \cup {a}
    /\ Fighters(new[side]) = (Fighters(teams[side]) \ {a}) \cup {b}
    /\ Fighters(new[Other(side)]) = (Fighters(teams[Other(side)]) \ {b}) \cup {a}

\* An exchange of two members of a role keeps the teams fit: the rows of this role get the
\* one for the other, no other row changes, and who fights at all stays the same.
LEMMA ExchangeIs ==
    ASSUME NEW teams, NEW r, NEW side, NEW a, NEW b, ExchangeFits(teams, r, side, a, b)
    PROVE  Exchanged(teams, Exchange(teams, r, side, a, b), r, side, a, b)
<1> SUFFICES ASSUME NEW new, new = Exchange(teams, r, side, a, b)
             PROVE  Exchanged(teams, new, r, side, a, b)
  OBVIOUS
<1> AbleMembers /\ TeamsFit(teams) /\ r \in Roles /\ side \in Sides
    /\ a \in Entries(teams[side][r]) /\ b \in Entries(teams[Other(side)][r])
  BY DEF ExchangeFits
<1> DEFINE o == Other(side)
           X == teams[side]
           Y == teams[o]
           rowA == Replace(X[r], a, b)
           rowB == Replace(Y[r], b, a)
           X1 == [X EXCEPT ![r] = rowA]
           Y1 == [Y EXCEPT ![r] = rowB]
<1>0. /\ side \in Sides /\ o \in Sides /\ o # side /\ Sides = {side, o} /\ Other(o) = side
      /\ Sides = {"st", "swarm"}
  BY SidesAre
<1>1. /\ X \in [Roles -> Seq(usable)] /\ Y \in [Roles -> Seq(usable)]
      /\ SoundTeam(X) /\ SoundTeam(Y)
      /\ teams \in [Sides -> [Roles -> Seq(usable)]]
      /\ Fighters(X) \cap Fighters(Y) = {}
      /\ TeamSize(X) <= TeamCap /\ TeamSize(Y) <= TeamCap
      /\ NobodyLeftOut(teams)
  BY <1>0 DEF TeamsFit
<1>2. /\ a \in Fighters(X) /\ b \in Fighters(Y)
      /\ \A q \in Roles : Entries(X[q]) \subseteq Fighters(X) /\ Entries(Y[q]) \subseteq Fighters(Y)
      /\ Fighters(X) \subseteq usable /\ Fighters(Y) \subseteq usable
      /\ \A q \in Roles : /\ Entries(X[q]) = OfRole(Fighters(X), q)
                          /\ Entries(Y[q]) = OfRole(Fighters(Y), q)
  <2>1. /\ Fighters(X) \subseteq usable /\ Fighters(Y) \subseteq usable
        /\ \A q \in Roles : /\ Entries(X[q]) = OfRole(Fighters(X), q)
                            /\ Entries(Y[q]) = OfRole(Fighters(Y), q)
    BY <1>1, TeamIs
  <2> QED
    BY <2>1 DEF OfRole
<1>3. Of(a).role = r /\ Of(b).role = r /\ a # b /\ b \notin Fighters(X) /\ a \notin Fighters(Y)
      /\ a \in usable /\ b \in usable
  <2>1. a \in OfRole(Fighters(X), r) /\ b \in OfRole(Fighters(Y), r)
    BY <1>2
  <2> QED
    BY <1>1, <1>2, <2>1 DEF OfRole
<1>4. /\ rowA \in Seq(usable) /\ DOMAIN rowA = DOMAIN X[r] /\ Len(rowA) = Len(X[r])
      /\ Entries(rowA) = (Entries(X[r]) \ {a}) \cup {b}
      /\ \A i, j \in DOMAIN rowA : rowA[i] = rowA[j] => i = j
  <2> DEFINE row == X[r]
  <2>1. /\ row \in Seq(usable) /\ a \in Entries(row) /\ b \in usable /\ b \notin Entries(row)
        /\ \A i, j \in DOMAIN row : row[i] = row[j] => i = j
    BY <1>1, <1>2, <1>3 DEF SoundTeam
  <2> HIDE DEF row
  <2>2. /\ Replace(row, a, b) \in Seq(usable) /\ DOMAIN Replace(row, a, b) = DOMAIN row
        /\ Len(Replace(row, a, b)) = Len(row)
        /\ Entries(Replace(row, a, b)) = (Entries(row) \ {a}) \cup {b}
        /\ \A i, j \in DOMAIN row : Replace(row, a, b)[i] = Replace(row, a, b)[j] => i = j
    BY <2>1, ReplaceIs
  <2> QED
    BY <2>2 DEF row
<1>5. /\ rowB \in Seq(usable) /\ DOMAIN rowB = DOMAIN Y[r] /\ Len(rowB) = Len(Y[r])
      /\ Entries(rowB) = (Entries(Y[r]) \ {b}) \cup {a}
      /\ \A i, j \in DOMAIN rowB : rowB[i] = rowB[j] => i = j
  <2> DEFINE row == Y[r]
  <2>1. /\ row \in Seq(usable) /\ b \in Entries(row) /\ a \in usable /\ a \notin Entries(row)
        /\ \A i, j \in DOMAIN row : row[i] = row[j] => i = j
    BY <1>1, <1>2, <1>3 DEF SoundTeam
  <2> HIDE DEF row
  <2>2. /\ Replace(row, b, a) \in Seq(usable) /\ DOMAIN Replace(row, b, a) = DOMAIN row
        /\ Len(Replace(row, b, a)) = Len(row)
        /\ Entries(Replace(row, b, a)) = (Entries(row) \ {b}) \cup {a}
        /\ \A i, j \in DOMAIN row : Replace(row, b, a)[i] = Replace(row, b, a)[j] => i = j
    BY <2>1, ReplaceIs
  <2> QED
    BY <2>2 DEF row
<1>6. /\ new = [s \in Sides |-> new[s]]
      /\ new[side] = X1 /\ new[o] = Y1
  <2>1. new = [teams EXCEPT ![side][r] = Replace(@, a, b), ![o][r] = Replace(@, b, a)]
    BY DEF Exchange
  <2> QED
    BY <1>0, <1>1, <2>1
<1> HIDE DEF rowA, rowB
<1>7. /\ X1 \in [Roles -> Seq(usable)] /\ X1[r] = rowA
      /\ Y1 \in [Roles -> Seq(usable)] /\ Y1[r] = rowB
      /\ \A q \in Roles : q # r => X1[q] = X[q] /\ Y1[q] = Y[q]
  BY <1>1, <1>4, <1>5
<1> HIDE DEF X1, Y1, X, Y
<1>8. /\ \A q \in Roles : /\ Len(X1[q]) = Len(X[q]) /\ DOMAIN X1[q] = DOMAIN X[q]
                          /\ Len(Y1[q]) = Len(Y[q]) /\ DOMAIN Y1[q] = DOMAIN Y[q]
  BY <1>4, <1>5, <1>7
<1>9. TeamSize(X1) = TeamSize(X) /\ TeamSize(Y1) = TeamSize(Y)
  <2>1. UNION {{q} \X DOMAIN X1[q] : q \in Roles} = UNION {{q} \X DOMAIN X[q] : q \in Roles}
    BY <1>8
  <2>2. UNION {{q} \X DOMAIN Y1[q] : q \in Roles} = UNION {{q} \X DOMAIN Y[q] : q \in Roles}
    BY <1>8
  <2> QED
    BY <2>1, <2>2 DEF TeamSize
<1>10. Fighters(X1) = (Fighters(X) \ {a}) \cup {b}
  <2>1. \A q \in Roles : q # r => Entries(X1[q]) = Entries(X[q]) /\ a \notin Entries(X[q])
    BY <1>2, <1>3, <1>7 DEF OfRole
  <2>2. Entries(X1[r]) = (Entries(X[r]) \ {a}) \cup {b}
    BY <1>4, <1>7 DEF X
  <2> QED
    BY <2>1, <2>2 DEF Fighters
<1>11. Fighters(Y1) = (Fighters(Y) \ {b}) \cup {a}
  <2>1. \A q \in Roles : q # r => Entries(Y1[q]) = Entries(Y[q]) /\ b \notin Entries(Y[q])
    BY <1>2, <1>3, <1>7 DEF OfRole
  <2>2. Entries(Y1[r]) = (Entries(Y[r]) \ {b}) \cup {a}
    BY <1>5, <1>7 DEF Y
  <2> QED
    BY <2>1, <2>2 DEF Fighters
<1>12. SoundTeam(X1)
  <2>1. ASSUME NEW q \in Roles
        PROVE  /\ \A i \in DOMAIN X1[q] : Of(X1[q][i]).role = q
               /\ \A i, j \in DOMAIN X1[q] : X1[q][i] = X1[q][j] => i = j
    <3>1. CASE q # r
      BY <1>1, <1>7, <3>1 DEF SoundTeam
    <3>2. CASE q = r
      <4>1. \A m \in Entries(rowA) : Of(m).role = r
        BY <1>2, <1>3, <1>4 DEF OfRole, X
      <4>2. \A i \in DOMAIN rowA : rowA[i] \in Entries(rowA)
        BY DEF Entries
      <4> QED
        BY <1>4, <1>7, <3>2, <4>1, <4>2
    <3> QED
      BY <3>1, <3>2
  <2> QED
    BY <1>7, <2>1 DEF SoundTeam
<1>13. SoundTeam(Y1)
  <2>1. ASSUME NEW q \in Roles
        PROVE  /\ \A i \in DOMAIN Y1[q] : Of(Y1[q][i]).role = q
               /\ \A i, j \in DOMAIN Y1[q] : Y1[q][i] = Y1[q][j] => i = j
    <3>1. CASE q # r
      BY <1>1, <1>7, <3>1 DEF SoundTeam
    <3>2. CASE q = r
      <4>1. \A m \in Entries(rowB) : Of(m).role = r
        BY <1>2, <1>3, <1>5 DEF OfRole, Y
      <4>2. \A i \in DOMAIN rowB : rowB[i] \in Entries(rowB)
        BY DEF Entries
      <4> QED
        BY <1>5, <1>7, <3>2, <4>1, <4>2
    <3> QED
      BY <3>1, <3>2
  <2> QED
    BY <1>7, <2>1 DEF SoundTeam
<1>14. \A s \in Sides : TeamSize(new[s]) = TeamSize(teams[s])
  BY <1>0, <1>6, <1>9 DEF X, Y
<1>15. (UNION {Fighters(new[s]) : s \in Sides}) = UNION {Fighters(teams[s]) : s \in Sides}
  <2>1. Fighters(new[side]) \cup Fighters(new[o]) = Fighters(teams[side]) \cup Fighters(teams[o])
    BY <1>2, <1>6, <1>10, <1>11 DEF X, Y
  <2> QED
    BY <1>0, <2>1
<1>16. TeamsFit(new)
  <2>1. new \in [Sides -> [Roles -> Seq(usable)]]
    BY <1>0, <1>6, <1>7
  <2>2. \A s \in Sides : SoundTeam(new[s]) /\ TeamSize(new[s]) <= TeamCap
    BY <1>0, <1>1, <1>6, <1>9, <1>12, <1>13
  <2>3. Fighters(new[side]) \cap Fighters(new[o]) = {}
    BY <1>1, <1>3, <1>6, <1>10, <1>11
  <2>4. Fighters(new["st"]) \cap Fighters(new["swarm"]) = {}
    BY <1>0, <2>3
  <2>5. NobodyLeftOut(new)
    <3>1. \A m : (\E s \in Sides : m \in Fighters(teams[s])) => \E s \in Sides : m \in Fighters(new[s])
      BY <1>15
    <3> QED
      BY <1>1, <1>0, <1>14, <3>1 DEF NobodyLeftOut
  <2> QED
    BY <2>1, <2>2, <2>4, <2>5 DEF TeamsFit
<1>17. \A s \in Sides, q \in Roles : /\ Len(new[s][q]) = Len(teams[s][q])
                                     /\ q # r => new[s][q] = teams[s][q]
  BY <1>0, <1>6, <1>7, <1>8 DEF X, Y
<1> QED
  BY <1>4, <1>5, <1>6, <1>7, <1>10, <1>11, <1>14, <1>16, <1>17 DEF X, Y, Exchanged

\* A list has finitely many entries, none when it is empty.
LEMMA EntriesAreFinite ==
    ASSUME NEW S, NEW row \in Seq(S)
    PROVE  IsFiniteSet(Entries(row)) /\ Entries(row) \subseteq S
           /\ (Entries(row) = {} <=> row = <<>>)
<1> DEFINE n == Len(row)
           D == 1..n
           h == [i \in D |-> row[i]]
<1>1. n \in Nat /\ DOMAIN row = D /\ \A i \in D : row[i] \in S
  OBVIOUS
<1>2. IsFiniteSet(D)
  BY <1>1, FS_Interval
<1>3. h \in Surjection(D, Entries(row))
  BY <1>1 DEF Surjection, Entries
<1>4. Entries(row) \subseteq S
  BY <1>1 DEF Entries
<1>5. Entries(row) = {} <=> row = <<>>
  <2>1. CASE n = 0
    BY <1>1, <2>1 DEF Entries
  <2>2. CASE n # 0
    <3>1. 1 \in D
      BY <1>1, <2>2
    <3> HIDE DEF D, n
    <3>2. row[1] \in Entries(row)
      BY <1>1, <3>1 DEF Entries
    <3> QED
      BY <2>2, <3>2 DEF n
  <2> QED
    BY <2>1, <2>2
<1> HIDE DEF D, h
<1> QED
  BY <1>2, <1>3, <1>4, <1>5, FS_Surjection

\* The auras in their order.
LEMMA LabAurasAre ==
    /\ IsFiniteSet(LabAuras) /\ "guardian" \in LabAuras
    /\ \A a \in LabAuras : Position(AuraOrder)[a] \in Nat
    /\ \A a, b \in LabAuras : Position(AuraOrder)[a] = Position(AuraOrder)[b] => a = b
<1>1. AuraOrder \in Seq(STRING) /\ "guardian" \in LabAuras
  BY LabAssumption
<1> QED
  BY <1>1, EntriesAreFinite, PositionIs DEF LabAuras

\* What a duty is worth to an aura is a number.
LEMMA PreferenceIs == ASSUME NEW side, NEW a, NEW m PROVE Preference(side, a, m) \in Nat
<1>1. CASE a = "mystic"
  BY <1>1 DEF Preference
<1>2. CASE a \in {"fierce", "critical"}
  BY <1>2 DEF Preference
<1>3. CASE a \notin {"mystic", "fierce", "critical"}
  BY <1>3 DEF Preference
<1> QED
  BY <1>1, <1>2, <1>3

\* The fittest of the free carriers is one of them.
LEMMA CarrierIs ==
    ASSUME AbleMembers, NEW side, NEW a \in LabAuras, FreeCarriers(side, a) \subseteq usable,
           FreeCarriers(side, a) # {}
    PROVE  Carrier(side, a) \in FreeCarriers(side, a)
<1> DEFINE S == FreeCarriers(side, a)
           ahead == [m \in S |-> {n \in S : Fitter(side, a, n, m)}]
<1>1. Carrier(side, a) = Foremost(S, ahead)
  BY DEF Carrier
<1>2. IsFiniteSet(S) /\ S # {} /\ S \subseteq usable
  BY MembersAre, FS_Subset
<1>3. \A m \in usable : m \in Nat /\ Of(m).aura[a] \in Int /\ Preference(side, a, m) \in Nat
  BY MembersAre, PreferenceIs
<1>4. ahead \in [S -> SUBSET S] /\ \A m, n \in S : n \in ahead[m] <=> Fitter(side, a, n, m)
  OBVIOUS
<1> HIDE DEF S, ahead
<1>5. Chain(S, ahead)
  <2>1. \A m \in S : m \notin ahead[m]
    BY <1>2, <1>3, <1>4 DEF Fitter
  <2>2. \A m, n \in S : m # n => m \in ahead[n] \/ n \in ahead[m]
    BY <1>2, <1>3, <1>4 DEF Fitter
  <2>3. ASSUME NEW m \in S, NEW n \in S, m \in ahead[n], NEW k \in ahead[m] PROVE k \in ahead[n]
    <3>1. k \in S
      BY <1>4
    <3> QED
      BY <1>2, <1>3, <1>4, <2>3, <3>1 DEF Fitter
  <2> QED
    BY <1>4, <2>1, <2>2, <2>3 DEF Chain
<1>6. Foremost(S, ahead) \in S
  BY <1>2, <1>5, ForemostIs
<1> QED
  BY <1>1, <1>6 DEF S

\* So is the shield with the highest aura.
LEMMA GuardianCarrierIs ==
    ASSUME AbleMembers, NEW side, Shields(side) \subseteq usable, Shields(side) # {}
    PROVE  GuardianCarrier(side) \in Shields(side)
<1> DEFINE S == Shields(side)
           ahead == [m \in S |-> {n \in S :
                       \/ Of(n).aura["guardian"] > Of(m).aura["guardian"]
                       \/ Of(n).aura["guardian"] = Of(m).aura["guardian"] /\ n < m}]
<1>1. GuardianCarrier(side) = Foremost(S, ahead)
  BY DEF GuardianCarrier
<1>2. IsFiniteSet(S) /\ S # {} /\ S \subseteq usable
  BY MembersAre, FS_Subset
<1>3. \A m \in usable : m \in Nat /\ Of(m).aura["guardian"] \in Int
  BY MembersAre
<1>4. /\ ahead \in [S -> SUBSET S]
      /\ \A m, n \in S : n \in ahead[m] <=>
            \/ Of(n).aura["guardian"] > Of(m).aura["guardian"]
            \/ Of(n).aura["guardian"] = Of(m).aura["guardian"] /\ n < m
  OBVIOUS
<1> HIDE DEF S, ahead
<1>5. Chain(S, ahead)
  <2>1. \A m \in S : m \notin ahead[m]
    BY <1>2, <1>3, <1>4
  <2>2. \A m, n \in S : m # n => m \in ahead[n] \/ n \in ahead[m]
    BY <1>2, <1>3, <1>4
  <2>3. ASSUME NEW m \in S, NEW n \in S, m \in ahead[n], NEW k \in ahead[m] PROVE k \in ahead[n]
    <3>1. k \in S
      BY <1>4
    <3> QED
      BY <1>2, <1>3, <1>4, <2>3, <3>1
  <2> QED
    BY <1>4, <2>1, <2>2, <2>3 DEF Chain
<1>6. Foremost(S, ahead) \in S
  BY <1>2, <1>5, ForemostIs
<1> QED
  BY <1>1, <1>6 DEF S

\* And the next aura is one of those that remain.
LEMMA NextAuraIs ==
    ASSUME AbleMembers, NEW side, Fighters(capped[side]) \subseteq usable, Remaining(side) # {}
    PROVE  NextAura(side) \in Remaining(side)
<1> DEFINE S == Remaining(side)
           count(a) == Cardinality(Learned(side, a))
           ahead == [a \in S |-> {b \in S :
                        LET n == Cardinality(Learned(side, a))
                            l == Cardinality(Learned(side, b))
                        IN  l < n \/ (l = n /\ Position(AuraOrder)[b] < Position(AuraOrder)[a])}]
<1>1. NextAura(side) = Foremost(S, ahead)
  BY DEF NextAura
<1>2. IsFiniteSet(S) /\ S # {} /\ S \subseteq LabAuras
  <2>1. S \subseteq LabAuras
    BY DEF Remaining
  <2> QED
    BY <2>1, LabAurasAre, FS_Subset
<1>3. \A a \in LabAuras : count(a) \in Nat /\ Position(AuraOrder)[a] \in Nat
  <2>1. \A a : IsFiniteSet(Learned(side, a))
    <3>1. \A a : Learned(side, a) \subseteq usable
      BY DEF Learned
    <3> QED
      BY <3>1, MembersAre, FS_Subset
  <2> QED
    BY <2>1, LabAurasAre, FS_CardinalityType
<1>4. /\ ahead \in [S -> SUBSET S]
      /\ \A a, b \in S : b \in ahead[a] <=>
            \/ count(b) < count(a)
            \/ count(b) = count(a) /\ Position(AuraOrder)[b] < Position(AuraOrder)[a]
  OBVIOUS
<1>5. \A a, b \in LabAuras : Position(AuraOrder)[a] = Position(AuraOrder)[b] => a = b
  BY LabAurasAre
<1> HIDE DEF S, ahead, count
<1>6. Chain(S, ahead)
  <2>1. \A m \in S : m \notin ahead[m]
    BY <1>2, <1>3, <1>4
  <2>2. \A m, n \in S : m # n => m \in ahead[n] \/ n \in ahead[m]
    BY <1>2, <1>3, <1>4, <1>5
  <2>3. ASSUME NEW m \in S, NEW n \in S, m \in ahead[n], NEW k \in ahead[m] PROVE k \in ahead[n]
    <3>1. k \in S
      BY <1>4
    <3> QED
      BY <1>2, <1>3, <1>4, <2>3, <3>1
  <2> QED
    BY <1>4, <2>1, <2>2, <2>3 DEF Chain
<1>7. Foremost(S, ahead) \in S
  BY <1>2, <1>6, ForemostIs
<1> QED
  BY <1>1, <1>7 DEF S

-----------------------------------------------------------------------------
(* The composition lab: the inductive invariant and its steps *)

\* The role's gap is closed, or both its rows are longer than the exchanges the lab allows.
GapClosed(teams, r) ==
    LET row == teams[Strategy(given.week).rebalance][r]
        rest == teams[Other(Strategy(given.week).rebalance)][r]
    IN  Len(row) <= MaxSwaps \/ Len(rest) <= MaxSwaps =>
          \A m \in Entries(row), n \in Entries(rest) : PhysicalLevel(n) - PhysicalLevel(m) < MinGap

\* Who of the target side is above everyone of the other, and the other way round.
AboveAll(teams, r) ==
    {m \in Entries(teams[Strategy(given.week).rebalance][r]) :
        \A n \in Entries(teams[Other(Strategy(given.week).rebalance)][r]) : PhysicalLevel(n) <= PhysicalLevel(m)}
BelowAll(teams, r) ==
    {n \in Entries(teams[Other(Strategy(given.week).rebalance)][r]) :
        \A m \in Entries(teams[Strategy(given.week).rebalance][r]) : PhysicalLevel(n) <= PhysicalLevel(m)}

\* The roles before the one at hand are done; every exchange of it has put one more member
\* of the target side above all of the other, and one more of the other below all of it.
SwapsAre(teams, sw) ==
    Strategy(given.week).rebalance # "" =>
       /\ sw \in [role : Nat \ {0}, guard : Nat]
       /\ \A k \in 1..Len(RoleOrder) :
             k < sw.role /\ RoleOrder[k] \in Physical => GapClosed(teams, RoleOrder[k])
       /\ sw.role <= Len(RoleOrder) =>
             /\ sw.guard <= Cardinality(AboveAll(teams, RoleOrder[sw.role]))
             /\ sw.guard <= Cardinality(BelowAll(teams, RoleOrder[sw.role]))

\* Whoever carries an aura is in the team and carries no other; a shield carries its own only.
CarriersAre(teams, c) ==
    /\ c \in [Sides -> [LabAuras -> Nat]]
    /\ \A s \in Sides : \A a \in LabAuras : c[s][a] # 0 =>
          /\ c[s][a] \in Fighters(teams[s])
          /\ \A b \in LabAuras : a # b => c[s][a] # c[s][b]
          /\ a # "guardian" /\ "shield" \in Roles => c[s][a] \notin Entries(teams[s]["shield"])

ScreenedRow == [policy : DOMAIN PolicyRank, score : Int, teams : [Sides -> [Roles -> Seq(usable)]],
           carriers : [Sides -> [LabAuras -> Nat]], insane : [Sides -> SUBSET usable]]

RosterInv ==
    /\ AbleMembers
    /\ labPhase = "assess" => screened = <<>>
    /\ screened \in Seq(ScreenedRow) /\ TeamsAreSound
    /\ labPhase \in {"split", "rebalance", "mystic", "auras"} => policies \in Seq(DOMAIN PolicyRank)
    /\ labPhase \in {"rebalance", "mystic", "auras"} => policies # <<>> /\ TeamsFit(capped)
    /\ labPhase \in {"rebalance", "mystic"} => carriers = NoAuras
    /\ labPhase = "rebalance" => SwapsAre(capped, swaps)
    /\ labPhase \in {"mystic", "auras"} => NoGapLeft(capped)
    /\ labPhase = "auras" =>
          /\ MysticInPlace(capped) /\ CarriersAre(capped, carriers)
          /\ \A s \in Sides : Fighters(capped[s]) # {}
    /\ labPhase = "validate" => policies \in Seq(DOMAIN screened) /\ screened # <<>>

\* Two members of the sides who are far enough apart: their exchange puts one more of each
\* side where he belongs, and whoever was there stays there.
LEMMA SwapSettles ==
    ASSUME AbleMembers, NEW teams, TeamsFit(teams), NEW r \in Roles,
           NEW toward \in Sides, toward = Strategy(given.week).rebalance,
           NEW w \in Entries(teams[toward][r]), NEW s \in Entries(teams[Other(toward)][r]),
           \A m \in Entries(teams[toward][r]) : PhysicalLevel(w) <= PhysicalLevel(m),
           \A m \in Entries(teams[Other(toward)][r]) : PhysicalLevel(m) <= PhysicalLevel(s),
           PhysicalLevel(s) - PhysicalLevel(w) >= MinGap,
           NEW new, new = Exchange(teams, r, toward, w, s)
    PROVE  /\ Cardinality(AboveAll(new, r)) >= Cardinality(AboveAll(teams, r)) + 1
           /\ Cardinality(BelowAll(new, r)) >= Cardinality(BelowAll(teams, r)) + 1
<1> DEFINE X == Entries(teams[toward][r])
           Y == Entries(teams[Other(toward)][r])
           X1 == Entries(new[toward][r])
           Y1 == Entries(new[Other(toward)][r])
           A == AboveAll(teams, r)
           B == BelowAll(teams, r)
           A1 == AboveAll(new, r)
           B1 == BelowAll(new, r)
           L(m) == PhysicalLevel(m)
<1>1. X1 = (X \ {w}) \cup {s} /\ Y1 = (Y \ {s}) \cup {w} /\ TeamsFit(new)
  <2>1. /\ TeamsFit(new)
        /\ Entries(new[toward][r]) = (Entries(teams[toward][r]) \ {w}) \cup {s}
        /\ Entries(new[Other(toward)][r]) = (Entries(teams[Other(toward)][r]) \ {s}) \cup {w}
    <3>1. ExchangeFits(teams, r, toward, w, s)
      BY DEF ExchangeFits
    <3>2. Exchanged(teams, new, r, toward, w, s)
      BY <3>1, ExchangeIs
    <3> QED
      BY <3>2 DEF Exchanged
  <2> QED
    BY <2>1
<1>2. /\ X \subseteq usable /\ Y \subseteq usable /\ X \cap Y = {}
      /\ X1 \subseteq usable /\ Y1 \subseteq usable
  <2>1. /\ SoundTeam(teams[toward]) /\ SoundTeam(teams[Other(toward)])
        /\ SoundTeam(new[toward]) /\ SoundTeam(new[Other(toward)])
    BY <1>1, SidesAre DEF TeamsFit
  <2>2. Fighters(teams[toward]) \cap Fighters(teams[Other(toward)]) = {}
    BY SidesAre DEF TeamsFit
  <2>3. X \subseteq Fighters(teams[toward]) /\ Y \subseteq Fighters(teams[Other(toward)])
        /\ X1 \subseteq Fighters(new[toward]) /\ Y1 \subseteq Fighters(new[Other(toward)])
    BY DEF Fighters
  <2> QED
    BY <2>1, <2>2, <2>3, TeamIs
<1>3. /\ A = {m \in X : \A n \in Y : L(n) <= L(m)} /\ B = {n \in Y : \A m \in X : L(n) <= L(m)}
      /\ A1 = {m \in X1 : \A n \in Y1 : L(n) <= L(m)} /\ B1 = {n \in Y1 : \A m \in X1 : L(n) <= L(m)}
  BY DEF AboveAll, BelowAll
<1>4. \A m \in usable : L(m) \in Int
  BY MembersAre
<1>5. L(w) < L(s) /\ w \in X /\ s \in Y
  BY <1>2, <1>4, PartitionAssumption
<1>6. (\A m \in X : L(w) <= L(m)) /\ (\A m \in Y : L(m) <= L(s))
  OBVIOUS
<1> HIDE DEF A, B, A1, B1, X, Y, X1, Y1, L
<1>7. A \cup {s} \subseteq A1 /\ s \notin A
  <2>1. s \in A1
    BY <1>1, <1>2, <1>3, <1>4, <1>5, <1>6
  <2>2. ASSUME NEW m \in A PROVE m \in A1
    <3>1. m \in X /\ m # w /\ \A n \in Y : L(n) <= L(m)
      BY <1>2, <1>3, <1>4, <1>5
    <3>2. L(w) <= L(m)
      BY <1>6, <3>1
    <3> QED
      BY <1>1, <1>3, <3>1, <3>2
  <2>3. s \notin A
    BY <1>2, <1>3, <1>5
  <2> QED
    BY <2>1, <2>2, <2>3
<1>8. B \cup {w} \subseteq B1 /\ w \notin B
  <2>1. w \in B1
    BY <1>1, <1>2, <1>3, <1>4, <1>5, <1>6
  <2>2. ASSUME NEW n \in B PROVE n \in B1
    <3>1. n \in Y /\ n # s /\ \A m \in X : L(n) <= L(m)
      BY <1>2, <1>3, <1>4, <1>5
    <3>2. L(n) <= L(s)
      BY <1>6, <3>1
    <3> QED
      BY <1>1, <1>3, <3>1, <3>2
  <2>3. w \notin B
    BY <1>2, <1>3, <1>5
  <2> QED
    BY <2>1, <2>2, <2>3
<1>9. IsFiniteSet(A) /\ IsFiniteSet(A1) /\ IsFiniteSet(B) /\ IsFiniteSet(B1)
  <2>1. A \subseteq usable /\ A1 \subseteq usable /\ B \subseteq usable /\ B1 \subseteq usable
    BY <1>2, <1>3
  <2> QED
    BY <2>1, MembersAre, FS_Subset
<1>10. Cardinality(A1) >= Cardinality(A) + 1
  <2>1. IsFiniteSet(A \cup {s}) /\ Cardinality(A \cup {s}) = Cardinality(A) + 1
    BY <1>7, <1>9, FS_AddElement
  <2>2. Cardinality(A \cup {s}) <= Cardinality(A1)
    BY <1>7, <1>9, FS_Subset
  <2>3. Cardinality(A) \in Nat /\ Cardinality(A1) \in Nat
    BY <1>9, FS_CardinalityType
  <2> QED
    BY <2>1, <2>2, <2>3
<1>11. Cardinality(B1) >= Cardinality(B) + 1
  <2>1. IsFiniteSet(B \cup {w}) /\ Cardinality(B \cup {w}) = Cardinality(B) + 1
    BY <1>8, <1>9, FS_AddElement
  <2>2. Cardinality(B \cup {w}) <= Cardinality(B1)
    BY <1>8, <1>9, FS_Subset
  <2>3. Cardinality(B) \in Nat /\ Cardinality(B1) \in Nat
    BY <1>9, FS_CardinalityType
  <2> QED
    BY <2>1, <2>2, <2>3
<1> QED
  BY <1>10, <1>11 DEF A, B, A1, B1

\* As many exchanges as the lab allows settle a role one of whose rows is no longer.
LEMMA EnoughSwaps ==
    ASSUME AbleMembers, NEW teams, TeamsFit(teams), NEW r \in Roles,
           Strategy(given.week).rebalance \in Sides,
           MaxSwaps <= Cardinality(AboveAll(teams, r)), MaxSwaps <= Cardinality(BelowAll(teams, r))
    PROVE  GapClosed(teams, r)
<1> DEFINE toward == Strategy(given.week).rebalance
           row == teams[toward][r]
           rest == teams[Other(toward)][r]
           X == Entries(row)
           Y == Entries(rest)
           A == AboveAll(teams, r)
           B == BelowAll(teams, r)
           L(m) == PhysicalLevel(m)
<1>1. /\ row \in Seq(usable) /\ (\A i, j \in DOMAIN row : row[i] = row[j] => i = j)
      /\ rest \in Seq(usable) /\ (\A i, j \in DOMAIN rest : rest[i] = rest[j] => i = j)
  BY SidesAre DEF TeamsFit, SoundTeam
<1>2. /\ A = {m \in X : \A n \in Y : L(n) <= L(m)} /\ B = {n \in Y : \A m \in X : L(n) <= L(m)}
  BY DEF AboveAll, BelowAll
<1>3. \A m \in usable : L(m) \in Int
  BY MembersAre
<1>4. X \subseteq usable /\ Y \subseteq usable
  BY <1>1, EntriesAreFinite
<1>5. GapClosed(teams, r) <=> (Len(row) <= MaxSwaps \/ Len(rest) <= MaxSwaps =>
          \A m \in X, n \in Y : L(n) - L(m) < MinGap)
  BY DEF GapClosed
<1>6. ASSUME NEW z \in Seq(usable), \A i, j \in DOMAIN z : z[i] = z[j] => i = j
      PROVE  IsFiniteSet(Entries(z)) /\ Cardinality(Entries(z)) = Len(z)
  <2> DEFINE k == Len(z)
             D == 1..k
             h == [i \in D |-> z[i]]
  <2>1. k \in Nat /\ DOMAIN z = D
    OBVIOUS
  <2>2. IsFiniteSet(D) /\ Cardinality(D) = k
    BY <2>1, FS_Interval
  <2>3. h \in Bijection(D, Entries(z))
    BY <1>6, <2>1 DEF Bijection, Injection, Surjection, IsInjective, Entries
  <2> HIDE DEF D, h, k
  <2>4. IsFiniteSet(Entries(z)) /\ Cardinality(Entries(z)) = k
    BY <2>2, <2>3, FS_Bijection DEF ExistsBijection
  <2> QED
    BY <2>4 DEF k
<1>7. ASSUME NEW S, NEW T, IsFiniteSet(S), T \subseteq S, Cardinality(S) <= Cardinality(T) PROVE T = S
  <2>1. Cardinality(T) <= Cardinality(S) /\ IsFiniteSet(T)
    BY <1>7, FS_Subset
  <2>2. Cardinality(T) \in Nat /\ Cardinality(S) \in Nat
    BY <1>7, <2>1, FS_CardinalityType
  <2>3. Cardinality(T) = Cardinality(S)
    BY <1>7, <2>1, <2>2
  <2> QED
    BY <1>7, <2>3, FS_Subset
<1>8. MaxSwaps \in Nat /\ MinGap \in Nat \ {0}
  BY PartitionAssumption
<1>9. IsFiniteSet(X) /\ Cardinality(X) = Len(row) /\ IsFiniteSet(Y) /\ Cardinality(Y) = Len(rest)
  BY <1>1, <1>6
<1> HIDE DEF X, Y, A, B, L, row, rest
<1>10. Len(row) \in Nat /\ Len(rest) \in Nat
  BY <1>1
<1>11. Cardinality(A) \in Nat /\ Cardinality(B) \in Nat
  BY <1>2, <1>9, FS_Subset, FS_CardinalityType
<1>12. CASE Len(row) <= MaxSwaps
  <2>1. Cardinality(X) <= Cardinality(A)
    BY <1>8, <1>9, <1>10, <1>11, <1>12 DEF A
  <2>2. A = X
    BY <1>2, <1>7, <1>9, <2>1
  <2>3. \A m \in X, n \in Y : L(n) <= L(m)
    BY <1>2, <2>2
  <2> QED
    BY <1>3, <1>4, <1>5, <1>8, <2>3
<1>13. CASE Len(rest) <= MaxSwaps
  <2>1. Cardinality(Y) <= Cardinality(B)
    BY <1>8, <1>9, <1>10, <1>11, <1>13 DEF B
  <2>2. B = Y
    BY <1>2, <1>7, <1>9, <2>1
  <2>3. \A m \in X, n \in Y : L(n) <= L(m)
    BY <1>2, <2>2
  <2> QED
    BY <1>3, <1>4, <1>5, <1>8, <2>3
<1> QED
  BY <1>5, <1>12, <1>13

\* Ranking reorders the rows.
LEMMA RankedIs ==
    ASSUME NEW rows \in Seq(ScreenedRow)
    PROVE  /\ Ranked(rows) \in Seq(ScreenedRow) /\ Len(Ranked(rows)) = Len(rows)
           /\ \A k \in 1..Len(rows) : \E i \in DOMAIN rows : Ranked(rows)[k] = rows[i]
<1> DEFINE Beats(x, y) ==
               \/ x.score > y.score
               \/ x.score = y.score /\ PolicyRank[x.policy] < PolicyRank[y.policy]
           n == Len(rows)
           D == 1..n
           ahead == [i \in D |-> {j \in D :
                       Beats(rows[j], rows[i]) \/ (~Beats(rows[i], rows[j]) /\ j < i)}]
           list == InOrder(D, ahead)
<1>1. n \in Nat /\ DOMAIN rows = D
  OBVIOUS
<1>2. Ranked(rows) = [k \in D |-> rows[list[k]]]
  BY <1>1 DEF Ranked
<1>3. \A i \in D : /\ rows[i].score \in Int /\ PolicyRank[rows[i].policy] \in Int /\ i \in Int
                   /\ rows[i] \in ScreenedRow
  <2>1. \A i \in D : rows[i] \in ScreenedRow
    OBVIOUS
  <2>2. \A i \in D : rows[i].score \in Int /\ rows[i].policy \in DOMAIN PolicyRank
    BY <2>1 DEF ScreenedRow
  <2> QED
    BY <2>1, <2>2, LabAssumption
<1>4. /\ ahead \in [D -> SUBSET D]
      /\ \A i, j \in D : j \in ahead[i] <=>
            Beats(rows[j], rows[i]) \/ (~Beats(rows[i], rows[j]) /\ j < i)
  OBVIOUS
<1>5. IsFiniteSet(D) /\ Cardinality(D) = n
  BY <1>1, FS_Interval
<1> HIDE DEF D, ahead
<1>6. Chain(D, ahead)
  <2>1. \A m \in D : m \notin ahead[m]
    BY <1>3, <1>4
  <2>2. \A i, j \in D : i # j => i \in ahead[j] \/ j \in ahead[i]
    BY <1>3, <1>4
  <2>3. ASSUME NEW i \in D, NEW j \in D, i \in ahead[j], NEW k \in ahead[i] PROVE k \in ahead[j]
    <3>1. k \in D
      BY <1>4
    <3> QED
      BY <1>3, <1>4, <2>3, <3>1
  <2> QED
    BY <1>4, <2>1, <2>2, <2>3 DEF Chain
<1>7. list \in Seq(D) /\ Len(list) = n
  BY <1>5, <1>6, InOrderIs
<1>8. \A k \in D : list[k] \in D
  BY <1>7 DEF D
<1>9. Ranked(rows) \in Seq(ScreenedRow) /\ Len(Ranked(rows)) = n
  <2>1. Ranked(rows) \in [1..n -> ScreenedRow]
    BY <1>2, <1>3, <1>8 DEF D
  <2> HIDE DEF n
  <2> QED
    BY <1>1, <2>1
<1>10. \A k \in D : \E i \in DOMAIN rows : Ranked(rows)[k] = rows[i]
  BY <1>1, <1>2, <1>8
<1> QED
  BY <1>9, <1>10 DEF D

\* What the guild's and the usable members decide is the same after a step that keeps both.
LEMMA Unmoved ==
    ASSUME given' = given, usable' = usable
    PROVE  /\ AbleMembers => AbleMembers'
           /\ ScreenedRow' = ScreenedRow
           /\ \A t : TeamsFit(t) => TeamsFit(t)'
           /\ \A t : NoGapLeft(t) => NoGapLeft(t)'
           /\ \A t : MysticInPlace(t) => MysticInPlace(t)'
           /\ \A t, sw : SwapsAre(t, sw) => SwapsAre(t, sw)'
           /\ \A row : RowIsSound(row) => RowIsSound(row)'
<1>1. AbleMembers => AbleMembers'
  BY DEF AbleMembers, BoundMembers, Of, Ready
<1>2. ScreenedRow' = ScreenedRow
  BY DEF ScreenedRow
<1>3. ASSUME NEW t, TeamsFit(t) PROVE TeamsFit(t)'
  BY <1>3 DEF TeamsFit, SoundTeam, NobodyLeftOut, Of
<1>4. ASSUME NEW t, NoGapLeft(t) PROVE NoGapLeft(t)'
  BY <1>4 DEF NoGapLeft, PhysicalLevel, Of
<1>5. ASSUME NEW t, MysticInPlace(t) PROVE MysticInPlace(t)'
  BY <1>5 DEF MysticInPlace, MysticLevel, Of
<1>6. \A t, r : /\ AboveAll(t, r)' = AboveAll(t, r) /\ BelowAll(t, r)' = BelowAll(t, r)
                /\ GapClosed(t, r) => GapClosed(t, r)'
  BY DEF AboveAll, BelowAll, GapClosed, PhysicalLevel, Of
<1>7. ASSUME NEW t, NEW sw, SwapsAre(t, sw) PROVE SwapsAre(t, sw)'
  BY <1>6, <1>7 DEF SwapsAre
<1>8. ASSUME NEW row, RowIsSound(row) PROVE RowIsSound(row)'
  <2>1. PlacesAreSound(row.teams) => PlacesAreSound(row.teams)'
    BY DEF PlacesAreSound, Of, Ready
  <2>2. NobodyLeftOut(row.teams) => NobodyLeftOut(row.teams)'
    BY DEF NobodyLeftOut, Of
  <2> QED
    BY <1>4, <1>5, <1>8, <2>1, <2>2 DEF RowIsSound
<1> QED
  BY <1>1, <1>2, <1>3, <1>4, <1>5, <1>7, <1>8

\* A step that leaves the screened partitions alone too keeps them sound.
LEMMA ScreenedStays ==
    ASSUME RosterInv, UNCHANGED <<given, usable, screened>>
    PROVE  AbleMembers' /\ screened' \in Seq(ScreenedRow') /\ TeamsAreSound'
<1>1. AbleMembers' /\ ScreenedRow' = ScreenedRow
  BY Unmoved DEF RosterInv
<1>2. \A i \in DOMAIN screened' : RowIsSound(screened[i])'
  BY Unmoved DEF RosterInv, TeamsAreSound
<1>3. TeamsAreSound'
  BY <1>2 DEF TeamsAreSound
<1> QED
  BY <1>1, <1>3 DEF RosterInv

\* A list of some is a list of more.
LEMMA WiderSeq ==
    ASSUME NEW S, NEW T, S \subseteq T, NEW q \in Seq(S) PROVE q \in Seq(T)
<1>1. q \in [1..Len(q) -> T] /\ Len(q) \in Nat
  OBVIOUS
<1> QED
  BY <1>1

\* The usable members of a role have it and are ready.
LEMMA UsableAre ==
    ASSUME NEW r
    PROVE  Usable(r) \subseteq {m \in BoundMembers : Of(m).role = r /\ Ready(m)}
  BY DEF Usable, FirstFew

\* Every policy of the week has a rank.
LEMMA PoliciesAre ==
    ASSUME given \in LabInputs
    PROVE  Policies(given.week, Cardinality(Usable("nature"))) \in Seq(DOMAIN PolicyRank)
<1> DEFINE n == Cardinality(Usable("nature"))
           l == Len(given.members)
           H == HealerCounts(n)
           D == 1..l
           R == 0..l
<1>1. l \in Nat /\ DOMAIN given.members = D /\ 0..l \subseteq DOMAIN PolicyRank
  BY LabAssumption
<1>2. IsFiniteSet(D) /\ Cardinality(D) = l
  BY <1>1, FS_Interval
<1>3. n \in 0..l
  <2>1. Usable("nature") \subseteq D
    BY <1>1, UsableAre DEF BoundMembers
  <2> HIDE DEF D
  <2>2. IsFiniteSet(Usable("nature")) /\ n <= l
    BY <1>2, <2>1, FS_Subset
  <2>3. n \in Nat
    BY <2>2, FS_CardinalityType
  <2> QED
    BY <1>1, <2>2, <2>3
<1>4. H \subseteq R /\ R \subseteq Nat /\ R \subseteq DOMAIN PolicyRank /\ IsFiniteSet(R)
  <2>1. \A k \in Nat : k \div 2 \in 0..k
    OBVIOUS
  <2>2. n \div 2 \in 0..l
    BY <1>1, <1>3, <2>1
  <2>3. CoverageReserve(n) \in Nat
    BY <1>3, <2>1, PartitionAssumption DEF CoverageReserve, Greatest
  <2>4. \A v \in Entries(Preferred) : v \in Nat
    BY PartitionAssumption, EntriesAreFinite
  <2>5. H \subseteq R
    BY <1>1, <1>3, <2>2, <2>3, <2>4 DEF HealerCounts
  <2> QED
    BY <1>1, <2>5, FS_Interval
<1> HIDE DEF n, H, D, R
<1>5. InOrder(H, ById(H)) \in Seq(H)
  <2>1. IsFiniteSet(H) /\ H \subseteq Nat
    BY <1>4, FS_Subset
  <2> QED
    BY <2>1, ByIdIs, InOrderIs
<1>6. InOrder(H, ById(H)) \in Seq(DOMAIN PolicyRank)
  BY <1>4, <1>5, WiderSeq
<1>7. Tenths \in Seq(DOMAIN PolicyRank)
  BY PartitionAssumption, LabAssumption DEF Entries
<1> QED
  BY <1>6, <1>7 DEF Policies, n, H

\* Nothing is screened at the start.
LEMMA RosterInvStarts == LabInit => RosterInv
<1> SUFFICES ASSUME LabInit PROVE RosterInv
  OBVIOUS
<1>1. AbleMembers
  BY DEF LabInit, AbleMembers
<1>2. screened = <<>> /\ labPhase = "assess"
  BY DEF LabInit
<1>3. screened \in Seq(ScreenedRow) /\ TeamsAreSound
  BY <1>2 DEF TeamsAreSound
<1> QED
  BY <1>1, <1>2, <1>3 DEF RosterInv

\* The readiness of the members is assessed before anything is screened.
LEMMA AssessKeeps == ASSUME RosterInv, Assess PROVE RosterInv'
<1>1. labPhase = "assess" /\ labPhase' = "split" /\ given' = given /\ screened' = screened
      /\ screened = <<>> /\ given \in LabInputs
  BY DEF Assess, RosterInv, AbleMembers
<1>2. AbleMembers'
  <2>1. \A m \in usable' : m \in BoundMembers /\ Of(m).role \in Roles /\ Ready(m)
    BY UsableAre DEF Assess
  <2> QED
    BY <1>1, <2>1 DEF AbleMembers, BoundMembers, Of, Ready
<1>3. policies' \in Seq(DOMAIN PolicyRank)
  <2> DEFINE all == Policies(given.week, Cardinality(Usable("nature")))
  <2>1. all \in Seq(DOMAIN PolicyRank)
    BY <1>1, PoliciesAre
  <2>2. policies' = IF given.only = 0 THEN all
                    ELSE IF given.only \in Entries(all) THEN <<given.only>> ELSE <<>>
    BY DEF Assess
  <2> HIDE DEF all
  <2>3. Entries(all) \subseteq DOMAIN PolicyRank
    BY <2>1, EntriesAreFinite
  <2>4. given.only \in Entries(all) => <<given.only>> \in Seq(DOMAIN PolicyRank)
    BY <2>3
  <2>5. <<>> \in Seq(DOMAIN PolicyRank)
    OBVIOUS
  <2> QED
    BY <2>1, <2>2, <2>4, <2>5
<1>4. screened' \in Seq(ScreenedRow') /\ TeamsAreSound'
  BY <1>1 DEF TeamsAreSound
<1> QED
  BY <1>1, <1>2, <1>3, <1>4 DEF RosterInv

\* The roles in their order.
LEMMA RoleOrderIs ==
    /\ Len(RoleOrder) \in Nat /\ MaxSwaps \in Nat /\ MinGap \in Int
    /\ \A k \in 1..Len(RoleOrder) : RoleOrder[k] \in Roles
    /\ \A i, j \in 1..Len(RoleOrder) : RoleOrder[i] = RoleOrder[j] => i = j
    /\ \A q \in Roles : \E k \in 1..Len(RoleOrder) : RoleOrder[k] = q
<1>1. RoleOrder \in Seq(STRING) /\ MaxSwaps \in Nat /\ MinGap \in Int
  BY PartitionAssumption
<1>2. \A i, j \in DOMAIN RoleOrder : RoleOrder[i] = RoleOrder[j] => i = j
  BY PartitionAssumption
<1>3. Len(RoleOrder) \in Nat /\ DOMAIN RoleOrder = 1..Len(RoleOrder)
  BY <1>1
<1> QED
  BY <1>1, <1>2, <1>3 DEF Roles, Entries

\* How many are where they belong is a number.
LEMMA SettledAre ==
    ASSUME AbleMembers, NEW teams, TeamsFit(teams), NEW r \in Roles,
           Strategy(given.week).rebalance \in Sides
    PROVE  Cardinality(AboveAll(teams, r)) \in Nat /\ Cardinality(BelowAll(teams, r)) \in Nat
<1> DEFINE toward == Strategy(given.week).rebalance
<1>1. toward \in Sides /\ Other(toward) \in Sides
  BY SidesAre
<1>2. teams[toward][r] \in Seq(usable) /\ teams[Other(toward)][r] \in Seq(usable)
  BY <1>1 DEF TeamsFit
<1>3. IsFiniteSet(Entries(teams[toward][r])) /\ IsFiniteSet(Entries(teams[Other(toward)][r]))
  BY <1>2, EntriesAreFinite
<1>4. /\ AboveAll(teams, r) \subseteq Entries(teams[toward][r])
      /\ BelowAll(teams, r) \subseteq Entries(teams[Other(toward)][r])
  BY DEF AboveAll, BelowAll
<1> QED
  BY <1>3, <1>4, FS_Subset, FS_CardinalityType

\* Before the first exchange of a role there is nothing to show for it.
LEMMA SwapsStart ==
    ASSUME AbleMembers, NEW teams, TeamsFit(teams), NEW k \in Nat \ {0},
           Strategy(given.week).rebalance # "" =>
               \A j \in 1..Len(RoleOrder) :
                  j < k /\ RoleOrder[j] \in Physical => GapClosed(teams, RoleOrder[j])
    PROVE  SwapsAre(teams, [role |-> k, guard |-> 0])
<1> DEFINE sw == [role |-> k, guard |-> 0]
<1>1. sw \in [role : Nat \ {0}, guard : Nat] /\ sw.role = k /\ sw.guard = 0
  OBVIOUS
<1> HIDE DEF sw
<1>2. ASSUME Strategy(given.week).rebalance # "", k <= Len(RoleOrder)
      PROVE  /\ 0 <= Cardinality(AboveAll(teams, RoleOrder[k]))
             /\ 0 <= Cardinality(BelowAll(teams, RoleOrder[k]))
  <2>1. Strategy(given.week).rebalance \in Sides
    BY <1>2, StrategyIs
  <2>2. k \in 1..Len(RoleOrder)
    <3>1. k \in Nat \ {0} /\ k <= Len(RoleOrder) /\ Len(RoleOrder) \in Nat
      BY <1>2, RoleOrderIs
    <3> QED
      BY ONLY <3>1
  <2>3. RoleOrder[k] \in Roles
    BY <2>2, RoleOrderIs
  <2>4. /\ Cardinality(AboveAll(teams, RoleOrder[k])) \in Nat
        /\ Cardinality(BelowAll(teams, RoleOrder[k])) \in Nat
    BY <2>1, <2>3, SettledAre
  <2> QED
    BY ONLY <2>4
<1>3. SwapsAre(teams, sw)
  BY <1>1, <1>2 DEF SwapsAre
<1> QED
  BY <1>3 DEF sw

\* Every policy splits the members and cuts the teams anew.
LEMMA SplitSidesKeeps == ASSUME RosterInv, SplitSides PROVE RosterInv'
<1> DEFINE new == ApplyTeamCaps(Partition)
<1>1. /\ labPhase = "split" /\ labPhase' = "rebalance" /\ UNCHANGED <<given, usable, policies, screened>>
      /\ capped' = new /\ swaps' = [role |-> 1, guard |-> 0] /\ carriers' = NoAuras
      /\ policies # <<>> /\ policies \in Seq(DOMAIN PolicyRank) /\ AbleMembers
  BY DEF SplitSides, RosterInv
<1> HIDE DEF new
<1>2. AbleMembers' /\ screened' \in Seq(ScreenedRow') /\ TeamsAreSound'
  BY <1>1, ScreenedStays
<1>3. TeamsFit(new)
  BY <1>1, PartitionIs, ApplyTeamCapsIs DEF new
<1>4. SwapsAre(new, [role |-> 1, guard |-> 0])
  <2> DEFINE one == 1
  <2>1. one \in Nat \ {0} /\ \A j \in 1..Len(RoleOrder) : ~(j < one)
    BY RoleOrderIs
  <2> HIDE DEF one
  <2>2. SwapsAre(new, [role |-> one, guard |-> 0])
    BY <1>1, <1>3, <2>1, SwapsStart
  <2> QED
    BY <2>2 DEF one
<1>5. TeamsFit(capped)' /\ SwapsAre(capped, swaps)'
  BY <1>1, <1>3, <1>4, Unmoved
<1>6. carriers' = NoAuras'
  BY <1>1 DEF NoAuras
<1> QED
  BY <1>1, <1>2, <1>5, <1>6 DEF RosterInv

\* An exchange settles one more of the role at hand, and touches no other role.
LEMMA SwapIs ==
    ASSUME AbleMembers, TeamsFit(capped), SwapsAre(capped, swaps),
           NEW toward \in Sides, toward = Strategy(given.week).rebalance,
           swaps.role <= Len(RoleOrder), NEW r, r = RoleOrder[swaps.role], MaySwap(r),
           NEW new, new = Exchange(capped, r, toward, Weakest(r), Strongest(r))
    PROVE  TeamsFit(new) /\ SwapsAre(new, [swaps EXCEPT !.guard = @ + 1])
<1> DEFINE w == Weakest(r)
           s == Strongest(r)
           g == swaps.guard
           p == swaps.role
<1>1. /\ swaps \in [role : Nat \ {0}, guard : Nat] /\ p \in 1..Len(RoleOrder) /\ g \in Nat
      /\ \A k \in 1..Len(RoleOrder) :
            k < p /\ RoleOrder[k] \in Physical => GapClosed(capped, RoleOrder[k])
      /\ g <= Cardinality(AboveAll(capped, r)) /\ g <= Cardinality(BelowAll(capped, r))
  <2>1. toward # ""
    BY SidesAre
  <2>2. swaps \in [role : Nat \ {0}, guard : Nat]
    BY <2>1 DEF SwapsAre
  <2>3. p \in 1..Len(RoleOrder) /\ g \in Nat
    BY <2>2, RoleOrderIs
  <2> QED
    BY <2>1, <2>2, <2>3 DEF SwapsAre
<1>2. /\ r \in Roles
      /\ \A i, j \in 1..Len(RoleOrder) : RoleOrder[i] = RoleOrder[j] => i = j
      /\ \A i \in 1..Len(RoleOrder) : RoleOrder[i] \in Roles
  BY <1>1, RoleOrderIs
<1>3. /\ Rows(toward, r) \subseteq usable /\ Rows(toward, r) # {}
      /\ Rows(Other(toward), r) \subseteq usable /\ Rows(Other(toward), r) # {}
  <2>1. /\ toward \in Sides /\ Other(toward) \in Sides
        /\ capped[toward][r] # <<>> /\ capped[Other(toward)][r] # <<>>
    BY SidesAre DEF MaySwap
  <2>2. capped[toward][r] \in Seq(usable) /\ capped[Other(toward)][r] \in Seq(usable)
    BY <1>2, <2>1 DEF TeamsFit
  <2> QED
    BY <2>1, <2>2, EntriesAreFinite DEF Rows
<1>4. /\ w \in Entries(capped[toward][r]) /\ s \in Entries(capped[Other(toward)][r])
      /\ \A m \in Entries(capped[toward][r]) : PhysicalLevel(w) <= PhysicalLevel(m)
      /\ \A m \in Entries(capped[Other(toward)][r]) : PhysicalLevel(m) <= PhysicalLevel(s)
  BY <1>3, ExtremesAre DEF Rows
<1>5. PhysicalLevel(s) - PhysicalLevel(w) >= MinGap
  BY DEF MaySwap
<1> HIDE DEF w, s
<1>6. new = Exchange(capped, r, toward, w, s)
  BY DEF w, s
<1>7. /\ Cardinality(AboveAll(new, r)) >= Cardinality(AboveAll(capped, r)) + 1
      /\ Cardinality(BelowAll(new, r)) >= Cardinality(BelowAll(capped, r)) + 1
  BY <1>2, <1>4, <1>5, <1>6, SwapSettles
<1>8. Exchanged(capped, new, r, toward, w, s)
  <2>1. ExchangeFits(capped, r, toward, w, s)
    BY <1>2, <1>4 DEF ExchangeFits
  <2> QED
    BY <1>6, <2>1, ExchangeIs
<1>9. TeamsFit(new) /\ \A d \in Sides, q \in Roles : q # r => new[d][q] = capped[d][q]
  BY <1>8 DEF Exchanged
<1>10. \A k \in 1..Len(RoleOrder) :
          k < p /\ RoleOrder[k] \in Physical => GapClosed(new, RoleOrder[k])
  <2> SUFFICES ASSUME NEW k \in 1..Len(RoleOrder), k < p, RoleOrder[k] \in Physical
               PROVE  GapClosed(new, RoleOrder[k])
    OBVIOUS
  <2> DEFINE q == RoleOrder[k]
  <2>1. q \in Roles /\ q # r /\ GapClosed(capped, q)
    BY <1>1, <1>2
  <2> HIDE DEF q
  <2>2. new[toward][q] = capped[toward][q] /\ new[Other(toward)][q] = capped[Other(toward)][q]
    BY <1>9, <2>1, SidesAre
  <2>3. GapClosed(new, q)
    BY <2>1, <2>2 DEF GapClosed
  <2> QED
    BY <2>3 DEF q
<1>11. g + 1 <= Cardinality(AboveAll(new, r)) /\ g + 1 <= Cardinality(BelowAll(new, r))
  <2>1. toward \in Sides
    OBVIOUS
  <2>2. /\ Cardinality(AboveAll(new, r)) \in Nat /\ Cardinality(BelowAll(new, r)) \in Nat
        /\ Cardinality(AboveAll(capped, r)) \in Nat /\ Cardinality(BelowAll(capped, r)) \in Nat
    BY <1>2, <1>9, SettledAre
  <2> QED
    BY <1>1, <1>7, <2>2
<1> DEFINE sw == [swaps EXCEPT !.guard = @ + 1]
<1>12. sw \in [role : Nat \ {0}, guard : Nat] /\ sw.role = p /\ sw.guard = g + 1
  BY <1>1
<1> HIDE DEF sw, g, p
<1>13. SwapsAre(new, sw)
  BY <1>10, <1>11, <1>12 DEF SwapsAre, p
<1> QED
  BY <1>9, <1>13 DEF sw

\* A role that is left has no gap the lab closes: nobody to exchange, no gap, or exchanges
\* enough.
LEMMA RoleIsDone ==
    ASSUME AbleMembers, TeamsFit(capped), SwapsAre(capped, swaps),
           NEW toward \in Sides, toward = Strategy(given.week).rebalance,
           swaps.role <= Len(RoleOrder), NEW r, r = RoleOrder[swaps.role], ~MaySwap(r),
           r \in Physical
    PROVE  GapClosed(capped, r)
<1>1. /\ r \in Roles /\ Other(toward) \in Sides /\ Sides = {toward, Other(toward)} /\ toward # ""
  BY SidesAre DEF Physical
<1>2. /\ swaps.guard \in Nat /\ MaxSwaps \in Nat /\ MinGap \in Int
      /\ swaps.guard <= Cardinality(AboveAll(capped, r))
      /\ swaps.guard <= Cardinality(BelowAll(capped, r))
  <2>1. swaps \in [role : Nat \ {0}, guard : Nat]
    BY <1>1 DEF SwapsAre
  <2> QED
    BY <1>1, <2>1, RoleOrderIs DEF SwapsAre
<1>3. CASE swaps.guard >= MaxSwaps
  <2>1. /\ Cardinality(AboveAll(capped, r)) \in Nat /\ Cardinality(BelowAll(capped, r)) \in Nat
    BY <1>1, SettledAre
  <2>2. MaxSwaps <= Cardinality(AboveAll(capped, r)) /\ MaxSwaps <= Cardinality(BelowAll(capped, r))
    BY <1>2, <1>3, <2>1
  <2> QED
    BY <1>1, <2>2, EnoughSwaps
<1>4. CASE capped[toward][r] = <<>> \/ capped[Other(toward)][r] = <<>>
  <2>1. Entries(capped[toward][r]) = {} \/ Entries(capped[Other(toward)][r]) = {}
    BY <1>4 DEF Entries
  <2> QED
    BY <2>1 DEF GapClosed
<1>5. CASE /\ capped[toward][r] # <<>> /\ capped[Other(toward)][r] # <<>>
           /\ ~(PhysicalLevel(Strongest(r)) - PhysicalLevel(Weakest(r)) >= MinGap)
  <2>1. capped[toward][r] \in Seq(usable) /\ capped[Other(toward)][r] \in Seq(usable)
    BY <1>1 DEF TeamsFit
  <2>2. /\ Rows(toward, r) \subseteq usable /\ Rows(toward, r) # {}
        /\ Rows(Other(toward), r) \subseteq usable /\ Rows(Other(toward), r) # {}
    BY <1>5, <2>1, EntriesAreFinite DEF Rows
  <2>3. /\ Weakest(r) \in usable /\ Strongest(r) \in usable
        /\ \A m \in Rows(toward, r) : PhysicalLevel(Weakest(r)) <= PhysicalLevel(m)
        /\ \A m \in Rows(Other(toward), r) : PhysicalLevel(m) <= PhysicalLevel(Strongest(r))
    BY <2>2, ExtremesAre
  <2>4. \A m \in usable : PhysicalLevel(m) \in Int
    BY MembersAre
  <2>5. \A m \in Rows(toward, r), n \in Rows(Other(toward), r) :
           PhysicalLevel(n) - PhysicalLevel(m) < MinGap
    BY <1>2, <1>5, <2>2, <2>3, <2>4
  <2> QED
    BY <2>5 DEF GapClosed, Rows
<1>6. \/ ~(swaps.guard < MaxSwaps)
      \/ \E d \in Sides : capped[d][r] = <<>>
      \/ ~(PhysicalLevel(Strongest(r)) - PhysicalLevel(Weakest(r)) >= MinGap)
  BY DEF MaySwap
<1>7. swaps.guard < MaxSwaps \/ swaps.guard >= MaxSwaps
  BY <1>2
<1> QED
  BY <1>1, <1>3, <1>4, <1>5, <1>6, <1>7

\* A round of the rebalancing exchanges two members or leaves a role that is done.
LEMMA RebalanceKeeps == ASSUME RosterInv, Rebalance PROVE RosterInv'
<1> DEFINE toward == Strategy(given.week).rebalance
           r == RoleOrder[swaps.role]
<1>1. /\ labPhase = "rebalance" /\ UNCHANGED <<given, usable, policies, carriers, screened>>
      /\ carriers = NoAuras /\ SwapsAre(capped, swaps) /\ TeamsFit(capped)
      /\ policies # <<>> /\ policies \in Seq(DOMAIN PolicyRank) /\ AbleMembers
  BY DEF Rebalance, RosterInv
<1>2. AbleMembers' /\ screened' \in Seq(ScreenedRow') /\ TeamsAreSound' /\ carriers' = NoAuras'
  BY <1>1, ScreenedStays DEF NoAuras
<1>3. toward \in Sides \cup {""}
  BY StrategyIs
<1>4. CASE toward = "" \/ swaps.role > Len(RoleOrder)
  <2>1. labPhase' = "mystic" /\ capped' = capped
    BY <1>4 DEF Rebalance
  <2>2. NoGapLeft(capped)
    <3>1. ASSUME NEW q \in Physical, toward # "" PROVE GapClosed(capped, q)
      <4>1. PICK k \in 1..Len(RoleOrder) : RoleOrder[k] = q
        BY <3>1, RoleOrderIs DEF Physical
      <4>2. k < swaps.role
        <5>1. swaps \in [role : Nat \ {0}, guard : Nat] /\ swaps.role > Len(RoleOrder)
          BY <1>1, <1>4, <3>1 DEF SwapsAre
        <5> QED
          BY <5>1, RoleOrderIs
      <4> QED
        BY <1>1, <3>1, <4>1, <4>2 DEF SwapsAre
    <3> QED
      BY <3>1 DEF NoGapLeft, GapClosed
  <2>3. TeamsFit(capped)' /\ NoGapLeft(capped)'
    BY <1>1, <2>1, <2>2, Unmoved
  <2> QED
    BY <1>1, <1>2, <2>1, <2>3 DEF RosterInv
<1>5. CASE toward \in Sides /\ ~(swaps.role > Len(RoleOrder))
  <2> USE <1>5
  <2>1. toward # "" /\ labPhase' = labPhase
    BY SidesAre DEF Rebalance
  <2>2. /\ swaps \in [role : Nat \ {0}, guard : Nat] /\ Len(RoleOrder) \in Nat
        /\ swaps.role <= Len(RoleOrder)
    <3>1. swaps \in [role : Nat \ {0}, guard : Nat]
      BY <1>1, <2>1 DEF SwapsAre
    <3> QED
      BY <3>1, RoleOrderIs
  <2>3. TeamsFit(capped)' /\ SwapsAre(capped, swaps)'
    <3>1. CASE MaySwap(r)
      <4> DEFINE new == Exchange(capped, r, toward, Weakest(r), Strongest(r))
      <4>1. capped' = new /\ swaps' = [swaps EXCEPT !.guard = @ + 1]
        BY <2>1, <3>1 DEF Rebalance
      <4>2. TeamsFit(new) /\ SwapsAre(new, [swaps EXCEPT !.guard = @ + 1])
        BY <1>1, <2>2, <3>1, SwapIs
      <4> HIDE DEF new
      <4> QED
        BY <1>1, <4>1, <4>2, Unmoved
    <3>2. CASE ~MaySwap(r)
      <4> DEFINE k == swaps.role + 1
      <4>1. capped' = capped /\ swaps' = [role |-> k, guard |-> 0]
        BY <2>1, <3>2 DEF Rebalance
      <4>2. r \in Physical => GapClosed(capped, r)
        BY <1>1, <2>2, <3>2, RoleIsDone
      <4>3. \A j \in 1..Len(RoleOrder) :
               j < k /\ RoleOrder[j] \in Physical => GapClosed(capped, RoleOrder[j])
        <5>1. \A j \in 1..Len(RoleOrder) : j < k => j < swaps.role \/ j = swaps.role
          BY <2>2
        <5> QED
          BY <1>1, <2>1, <4>2, <5>1 DEF SwapsAre
      <4>4. k \in Nat \ {0}
        BY <2>2
      <4> HIDE DEF k
      <4>5. SwapsAre(capped, [role |-> k, guard |-> 0])
        BY <1>1, <4>3, <4>4, SwapsStart
      <4> QED
        BY <1>1, <4>1, <4>5, Unmoved
    <3> QED
      BY <3>1, <3>2
  <2> QED
    BY <1>1, <1>2, <2>1, <2>3 DEF RosterInv
<1> QED
  BY <1>3, <1>4, <1>5

\* The fire, water and nature members of the teams.
LEMMA CastersAre ==
    ASSUME AbleMembers, NEW teams, TeamsFit(teams)
    PROVE  /\ Casters(teams) \subseteq usable
           /\ \A m \in Casters(teams) :
                 /\ Of(m).role \in Magic
                 /\ \E s \in Sides : m \in Entries(teams[s][Of(m).role])
<1>1. Magic \subseteq Roles
  BY DEF Magic
<1>2. ASSUME NEW s \in Sides, NEW r \in Magic, NEW m \in Entries(teams[s][r])
      PROVE  m \in usable /\ Of(m).role = r
  <2>1. teams[s][r] \in Seq(usable) /\ \A i \in DOMAIN teams[s][r] : Of(teams[s][r][i]).role = r
    BY <1>1 DEF TeamsFit, SoundTeam
  <2> QED
    BY <2>1, EntriesAreFinite DEF Entries
<1>3. ASSUME NEW m \in Casters(teams)
      PROVE  \E s \in Sides, r \in Magic : m \in Entries(teams[s][r])
  BY DEF Casters
<1> QED
  BY <1>2, <1>3

\* Where there are casters one has the best aura; by id if there are more of them.
LEMMA MysticIs ==
    ASSUME AbleMembers, TeamsFit(capped), Casters(capped) # {}
    PROVE  \E x \in Mystic : \A n \in Casters(capped) : MysticLevel(x) >= MysticLevel(n)
<1> DEFINE S == Casters(capped)
           ahead == [m \in S |-> {n \in S : \/ MysticLevel(n) > MysticLevel(m)
                                            \/ MysticLevel(n) = MysticLevel(m) /\ n < m}]
           x == Foremost(S, ahead)
<1>1. S \subseteq usable /\ S # {} /\ IsFiniteSet(S)
  BY CastersAre, MembersAre, FS_Subset
<1>2. \A m \in usable : m \in Nat /\ MysticLevel(m) \in Nat
  BY MembersAre
<1>3. Mystic = {m \in S : \A n \in S \ {m} :
                   MysticLevel(m) > MysticLevel(n) \/ (MysticLevel(m) = MysticLevel(n) /\ m < n)}
  BY DEF Mystic
<1>4. /\ ahead \in [S -> SUBSET S]
      /\ \A m, n \in S : n \in ahead[m] <=> \/ MysticLevel(n) > MysticLevel(m)
                                            \/ MysticLevel(n) = MysticLevel(m) /\ n < m
  OBVIOUS
<1> HIDE DEF S, ahead
<1>5. Chain(S, ahead)
  <2>1. \A m \in S : m \notin ahead[m]
    BY <1>1, <1>2, <1>4
  <2>2. \A m, n \in S : m # n => m \in ahead[n] \/ n \in ahead[m]
    BY <1>1, <1>2, <1>4
  <2>3. ASSUME NEW m \in S, NEW n \in S, m \in ahead[n], NEW k \in ahead[m] PROVE k \in ahead[n]
    <3>1. k \in S
      BY <1>4
    <3> QED
      BY <1>1, <1>2, <1>4, <2>3, <3>1
  <2> QED
    BY <1>4, <2>1, <2>2, <2>3 DEF Chain
<1>6. x \in S /\ \A n \in S : n # x => x \in ahead[n]
  BY <1>1, <1>5, ForemostIs
<1> HIDE DEF x
<1>7. \A n \in S \ {x} :
         MysticLevel(x) > MysticLevel(n) \/ (MysticLevel(x) = MysticLevel(n) /\ x < n)
  BY <1>4, <1>6
<1>8. x \in Mystic
  BY <1>3, <1>6, <1>7
<1>9. \A n \in S : MysticLevel(x) >= MysticLevel(n)
  BY <1>1, <1>2, <1>6, <1>7
<1> QED
  BY <1>8, <1>9 DEF S

\* The least of a role of the target side, whom the best changes places with.
WorstOf(S) ==
    Foremost(S, [p \in S |-> {q \in S : \/ MysticLevel(q) < MysticLevel(p)
                                        \/ MysticLevel(q) = MysticLevel(p) /\ q < p}])

\* He is one of them.
LEMMA WorstIs ==
    ASSUME AbleMembers, NEW S, S \subseteq usable, S # {}
    PROVE  WorstOf(S) \in S
<1> DEFINE ahead == [p \in S |-> {q \in S : \/ MysticLevel(q) < MysticLevel(p)
                                            \/ MysticLevel(q) = MysticLevel(p) /\ q < p}]
<1>1. IsFiniteSet(S)
  BY MembersAre, FS_Subset
<1>2. \A m \in S : m \in Nat /\ MysticLevel(m) \in Nat
  BY MembersAre
<1>3. WorstOf(S) = Foremost(S, ahead)
  BY DEF WorstOf
<1>4. /\ ahead \in [S -> SUBSET S]
      /\ \A m, n \in S : n \in ahead[m] <=> \/ MysticLevel(n) < MysticLevel(m)
                                            \/ MysticLevel(n) = MysticLevel(m) /\ n < m
  OBVIOUS
<1> HIDE DEF ahead
<1>5. Chain(S, ahead)
  <2>1. \A m \in S : m \notin ahead[m]
    BY <1>2, <1>4
  <2>2. \A m, n \in S : m # n => m \in ahead[n] \/ n \in ahead[m]
    BY <1>2, <1>4
  <2>3. ASSUME NEW m \in S, NEW n \in S, m \in ahead[n], NEW k \in ahead[m] PROVE k \in ahead[n]
    <3>1. k \in S
      BY <1>4
    <3> QED
      BY <1>2, <1>4, <2>3, <3>1
  <2> QED
    BY <1>4, <2>1, <2>2, <2>3 DEF Chain
<1> QED
  BY <1>1, <1>3, <1>5, ForemostIs

\* The best, where one must move for it.
ToMove ==
    LET target == Strategy(given.week).mystic
        Peers(m) == Rows(target, Of(m).role)
    IN  {m \in Mystic : /\ m \notin Fighters(capped[target]) /\ MysticLevel(m) > 0
                        /\ Peers(m) # {} /\ MysticLevel(m) > MysticLevel(WorstOf(Peers(m)))}

\* preferHighestMysticAuraOn exchanges one or leaves the teams alone.
LEMMA PreferMysticIs ==
    ASSUME PreferMystic
    PROVE  LET target == Strategy(given.week).mystic
           IN  \/ ToMove = {} /\ capped' = capped
               \/ \E m \in ToMove :
                     capped' = Exchange(capped, Of(m).role, target,
                                        WorstOf(Rows(target, Of(m).role)), m)
  BY DEF PreferMystic, ToMove, WorstOf

\* Nobody moves: the best is there, or has no aura, or no place, or is no better.
LEMMA NobodyMoves ==
    ASSUME AbleMembers, TeamsFit(capped), ToMove = {}
    PROVE  MysticInPlace(capped)
<1> DEFINE target == Strategy(given.week).mystic
           finest == {m \in Casters(capped) : \A n \in Casters(capped) : MysticLevel(m) >= MysticLevel(n)}
<1> SUFFICES ASSUME Casters(capped) # {}
             PROVE  \/ \E n \in finest : n \in Fighters(capped[target])
                    \/ \E n \in finest : MysticLevel(n) = 0 \/ capped[target][Of(n).role] = <<>>
  BY DEF MysticInPlace
<1>1. PICK x \in Mystic : \A n \in Casters(capped) : MysticLevel(x) >= MysticLevel(n)
  BY MysticIs
<1>2. x \in Casters(capped) /\ x \in finest
  BY <1>1 DEF Mystic
<1>3. target \in Sides /\ x \in usable /\ Of(x).role \in Magic /\ Of(x).role \in Roles
      /\ MysticLevel(x) \in Nat
  BY <1>2, CastersAre, StrategyIs, MembersAre
<1> DEFINE P == Rows(target, Of(x).role)
<1>4. \/ x \in Fighters(capped[target]) \/ ~(MysticLevel(x) > 0) \/ P = {}
      \/ ~(MysticLevel(x) > MysticLevel(WorstOf(P)))
  BY <1>1 DEF ToMove
<1>5. CASE x \in Fighters(capped[target])
  BY <1>2, <1>5
<1>6. CASE ~(MysticLevel(x) > 0)
  <2>1. MysticLevel(x) = 0
    BY <1>3, <1>6
  <2> QED
    BY <1>2, <2>1
<1>7. capped[target][Of(x).role] \in Seq(usable)
  BY <1>3 DEF TeamsFit
<1>8. CASE P = {}
  <2>1. capped[target][Of(x).role] = <<>>
    BY <1>7, <1>8, EntriesAreFinite DEF Rows
  <2> QED
    BY <1>2, <2>1
<1>9. CASE P # {} /\ ~(MysticLevel(x) > MysticLevel(WorstOf(P)))
  <2> DEFINE z == WorstOf(P)
  <2>1. P \subseteq usable
    BY <1>7, EntriesAreFinite DEF Rows
  <2>2. z \in P
    BY <1>9, <2>1, WorstIs
  <2> HIDE DEF z
  <2>3. z \in Casters(capped) /\ z \in Fighters(capped[target])
    BY <1>3, <2>2 DEF Rows, Casters, Fighters
  <2>4. MysticLevel(z) >= MysticLevel(x)
    BY <1>3, <1>9, <2>1, <2>2, MembersAre DEF z
  <2>5. \A n \in Casters(capped) : MysticLevel(z) >= MysticLevel(n)
    <3>1. \A n \in Casters(capped) : MysticLevel(n) \in Nat
      BY CastersAre, MembersAre
    <3> QED
      BY <1>1, <1>3, <2>3, <2>4, <3>1
  <2> QED
    BY <2>3, <2>5
<1> QED
  BY <1>4, <1>5, <1>6, <1>8, <1>9

\* One moves: he takes the best aura along, and no physical role changes.
LEMMA OneMoves ==
    ASSUME AbleMembers, TeamsFit(capped), NoGapLeft(capped), NEW m \in ToMove,
           NEW target, target = Strategy(given.week).mystic,
           NEW new, new = Exchange(capped, Of(m).role, target, WorstOf(Rows(target, Of(m).role)), m)
    PROVE  /\ TeamsFit(new) /\ NoGapLeft(new) /\ MysticInPlace(new)
           /\ \A s \in Sides : Fighters(new[s]) # {}
<1> DEFINE r == Of(m).role
           w == WorstOf(Rows(target, r))
<1>1. /\ m \in Mystic /\ m \notin Fighters(capped[target]) /\ Rows(target, r) # {}
  BY DEF ToMove
<1>2. m \in Casters(capped) /\ \A n \in Casters(capped) \ {m} :
         MysticLevel(m) > MysticLevel(n) \/ (MysticLevel(m) = MysticLevel(n) /\ m < n)
  BY <1>1 DEF Mystic
<1>3. /\ target \in Sides /\ Other(target) \in Sides /\ Sides = {target, Other(target)}
      /\ m \in usable /\ r \in Magic /\ r \in Roles
  BY <1>2, CastersAre, StrategyIs, SidesAre, MembersAre
<1>4. m \in Entries(capped[Other(target)][r])
  <2>1. PICK s \in Sides : m \in Entries(capped[s][r])
    BY <1>2, CastersAre
  <2>2. s # target
    BY <1>1, <1>3, <2>1 DEF Fighters
  <2> QED
    BY <1>3, <2>1, <2>2
<1>5. w \in Entries(capped[target][r])
  <2>1. capped[target][r] \in Seq(usable)
    BY <1>3 DEF TeamsFit
  <2>2. Rows(target, r) \subseteq usable
    BY <2>1, EntriesAreFinite DEF Rows
  <2>3. w \in Rows(target, r)
    BY <1>1, <2>2, WorstIs
  <2> QED
    BY <2>3 DEF Rows
<1>6. new = Exchange(capped, r, target, w, m)
  OBVIOUS
<1> HIDE DEF r, w
<1>7. Exchanged(capped, new, r, target, w, m)
  <2>1. ExchangeFits(capped, r, target, w, m)
    BY <1>3, <1>4, <1>5 DEF ExchangeFits
  <2> QED
    BY <1>6, <2>1, ExchangeIs
<1>8. /\ TeamsFit(new)
      /\ \A s \in Sides, q \in Roles : q # r => new[s][q] = capped[s][q]
      /\ Entries(new[target][r]) = (Entries(capped[target][r]) \ {w}) \cup {m}
      /\ Entries(new[Other(target)][r]) = (Entries(capped[Other(target)][r]) \ {m}) \cup {w}
      /\ m \in Fighters(new[target]) /\ w \in Fighters(new[Other(target)])
  BY <1>7 DEF Exchanged
<1>9. NoGapLeft(new)
  <2> DEFINE toward == Strategy(given.week).rebalance
  <2>1. \A q \in Physical : q \in Roles /\ q # r
    BY <1>3 DEF Physical, Magic
  <2>2. toward # "" => toward \in Sides /\ Other(toward) \in Sides
    BY StrategyIs, SidesAre
  <2>3. ASSUME toward # "", NEW q \in Physical
        PROVE  new[toward][q] = capped[toward][q] /\ new[Other(toward)][q] = capped[Other(toward)][q]
    BY <1>8, <2>1, <2>2, <2>3
  <2> QED
    BY <2>3 DEF NoGapLeft
<1>10. Casters(new) = Casters(capped)
  <2>1. \A q \in Magic : Entries(new[target][q]) \cup Entries(new[Other(target)][q])
                       = Entries(capped[target][q]) \cup Entries(capped[Other(target)][q])
    <3>1. \A q \in Magic : q \in Roles
      BY DEF Magic
    <3> QED
      BY <1>3, <1>4, <1>5, <1>8, <3>1
  <2>2. \A t, n : n \in Casters(t) <=>
           \E q \in Magic : n \in Entries(t[target][q]) \cup Entries(t[Other(target)][q])
    BY <1>3 DEF Casters
  <2>3. \A n : n \in Casters(new) <=> n \in Casters(capped)
    BY <2>1, <2>2
  <2> QED
    BY <2>3
<1>11. MysticInPlace(new)
  <2>1. \A n \in Casters(capped) : MysticLevel(n) \in Nat
    BY CastersAre, MembersAre
  <2>2. \A n \in Casters(new) : MysticLevel(m) >= MysticLevel(n)
    BY <1>2, <1>10, <2>1
  <2> QED
    BY <1>2, <1>8, <1>10, <2>2 DEF MysticInPlace
<1>12. \A s \in Sides : Fighters(new[s]) # {}
  BY <1>3, <1>8
<1> QED
  BY <1>8, <1>9, <1>11, <1>12

\* After it the best mystic aura is where it should be, or could not get there.
LEMMA PreferMysticKeeps == ASSUME RosterInv, PreferMystic PROVE RosterInv'
<1> DEFINE target == Strategy(given.week).mystic
<1>1. /\ labPhase = "mystic" /\ UNCHANGED <<given, usable, policies, swaps, carriers, screened>>
      /\ carriers = NoAuras /\ NoGapLeft(capped) /\ TeamsFit(capped)
      /\ policies # <<>> /\ policies \in Seq(DOMAIN PolicyRank) /\ AbleMembers
      /\ labPhase' = IF \E side \in Sides : Fighters(capped[side]) = {} THEN "failed" ELSE "auras"
  BY DEF PreferMystic, RosterInv
<1>2. AbleMembers' /\ screened' \in Seq(ScreenedRow') /\ TeamsAreSound' /\ carriers' = NoAuras
  BY <1>1, ScreenedStays
<1>3. CASE \E side \in Sides : Fighters(capped[side]) = {}
  <2>1. labPhase' = "failed"
    BY <1>1, <1>3
  <2> QED
    BY <1>2, <2>1 DEF RosterInv
<1>4. CASE \A side \in Sides : Fighters(capped[side]) # {}
  <2>1. labPhase' = "auras"
    BY <1>1, <1>4
  <2>2. \E new : /\ capped' = new /\ TeamsFit(new) /\ NoGapLeft(new) /\ MysticInPlace(new)
                 /\ \A s \in Sides : Fighters(new[s]) # {}
    <3>1. CASE ToMove = {} /\ capped' = capped
      BY <1>1, <1>4, <3>1, NobodyMoves
    <3>2. CASE \E m \in ToMove : capped' = Exchange(capped, Of(m).role, target,
                                                    WorstOf(Rows(target, Of(m).role)), m)
      <4>1. PICK m \in ToMove : capped' = Exchange(capped, Of(m).role, target,
                                                    WorstOf(Rows(target, Of(m).role)), m)
        BY <3>2
      <4> QED
        BY <1>1, <4>1, OneMoves
    <3> QED
      BY <3>1, <3>2, PreferMysticIs
  <2>3. PICK new : /\ capped' = new /\ TeamsFit(new) /\ NoGapLeft(new) /\ MysticInPlace(new)
                   /\ \A s \in Sides : Fighters(new[s]) # {}
    BY <2>2
  <2>4. TeamsFit(capped)' /\ NoGapLeft(capped)' /\ MysticInPlace(capped)'
    BY <1>1, <2>3, Unmoved
  <2>5. CarriersAre(capped, carriers)'
    <3>1. /\ carriers' \in [Sides -> [LabAuras -> Nat]]
          /\ \A s \in Sides : \A a \in LabAuras : carriers'[s][a] = 0
      BY <1>2 DEF NoAuras
    <3> QED
      BY <3>1 DEF CarriersAre
  <2>6. \A s \in Sides : Fighters(capped[s])' # {}
    BY <2>3
  <2> QED
    BY <1>1, <1>2, <2>1, <2>4, <2>5, <2>6 DEF RosterInv
<1> QED
  BY <1>3, <1>4

\* One more carrier: a fighter of the side who carries nothing yet.
LEMMA OneCarrierMore ==
    ASSUME NEW teams, NEW c, CarriersAre(teams, c), NEW s \in Sides, NEW a \in LabAuras,
           NEW m \in Nat, m \in Fighters(teams[s]), \A b \in LabAuras : c[s][b] # m,
           a # "guardian" /\ "shield" \in Roles => m \notin Entries(teams[s]["shield"])
    PROVE  CarriersAre(teams, [c EXCEPT ![s][a] = m])
<1> DEFINE d == [c EXCEPT ![s][a] = m]
<1>1. c \in [Sides -> [LabAuras -> Nat]]
  BY DEF CarriersAre
<1>2. /\ d \in [Sides -> [LabAuras -> Nat]] /\ d[s][a] = m
      /\ \A t \in Sides, b \in LabAuras : t # s \/ b # a => d[t][b] = c[t][b]
  BY <1>1
<1> HIDE DEF d
<1>3. ASSUME NEW t \in Sides, NEW b \in LabAuras, d[t][b] # 0
      PROVE  /\ d[t][b] \in Fighters(teams[t])
             /\ \A e \in LabAuras : b # e => d[t][b] # d[t][e]
             /\ b # "guardian" /\ "shield" \in Roles => d[t][b] \notin Entries(teams[t]["shield"])
  <2>1. CASE t # s
    BY <1>2, <1>3, <2>1 DEF CarriersAre
  <2>2. CASE t = s /\ b = a
    BY <1>2, <2>2
  <2>3. CASE t = s /\ b # a
    <3>1. d[t][b] = c[s][b] /\ c[s][b] # 0
      BY <1>2, <1>3, <2>3
    <3>2. /\ c[s][b] \in Fighters(teams[s])
          /\ \A e \in LabAuras : b # e => c[s][b] # c[s][e]
          /\ b # "guardian" /\ "shield" \in Roles => c[s][b] \notin Entries(teams[s]["shield"])
      BY <3>1 DEF CarriersAre
    <3>3. \A e \in LabAuras : e # a => d[s][e] = c[s][e]
      BY <1>2
    <3> QED
      BY <1>2, <2>3, <3>1, <3>2, <3>3
  <2> QED
    BY <2>1, <2>2, <2>3
<1>4. CarriersAre(teams, d)
  BY <1>2, <1>3 DEF CarriersAre
<1> QED
  BY <1>4 DEF d

\* An aura more has a carrier, or the lab is over.
LEMMA AssignAuraKeeps ==
    ASSUME RosterInv, NEW side \in Sides, AssignAura(side) PROVE RosterInv'
<1>1. /\ labPhase = "auras" /\ UNCHANGED <<given, usable, policies, capped, swaps, screened>>
      /\ CarriersAre(capped, carriers) /\ NoGapLeft(capped) /\ MysticInPlace(capped)
      /\ TeamsFit(capped) /\ \A s \in Sides : Fighters(capped[s]) # {}
      /\ policies # <<>> /\ policies \in Seq(DOMAIN PolicyRank) /\ AbleMembers
  BY DEF AssignAura, RosterInv
<1>2. AbleMembers' /\ screened' \in Seq(ScreenedRow') /\ TeamsAreSound'
  BY <1>1, ScreenedStays
<1>3. /\ SoundTeam(capped[side]) /\ Fighters(capped[side]) \subseteq usable
      /\ \A m \in usable : m \in Nat /\ m # 0
      /\ carriers \in [Sides -> [LabAuras -> Nat]]
  <2>1. SoundTeam(capped[side])
    BY <1>1 DEF TeamsFit
  <2> QED
    BY <1>1, <2>1, TeamIs, MembersAre DEF CarriersAre
<1>4. /\ Shields(side) \subseteq Fighters(capped[side])
      /\ "shield" \in Roles => Shields(side) = Entries(capped[side]["shield"])
  BY DEF Shields, Rows, Fighters
<1>5. CASE labPhase' = "failed"
  BY <1>2, <1>5 DEF RosterInv
<1>6. ASSUME CarriersAre(capped, carriers'), labPhase' = "auras" PROVE RosterInv'
  <2>1. TeamsFit(capped)' /\ NoGapLeft(capped)' /\ MysticInPlace(capped)'
    BY <1>1, Unmoved
  <2>2. CarriersAre(capped, carriers)'
    BY <1>1, <1>6 DEF CarriersAre
  <2>3. \A s \in Sides : Fighters(capped[s])' # {}
    BY <1>1
  <2> QED
    BY <1>1, <1>2, <1>6, <2>1, <2>2, <2>3 DEF RosterInv
<1>7. CASE labPhase' # "failed" /\ carriers[side]["guardian"] = 0 /\ Shields(side) # {}
  <2> DEFINE m == GuardianCarrier(side)
  <2>1. labPhase' = "auras" /\ carriers' = [carriers EXCEPT ![side]["guardian"] = m]
    BY <1>1, <1>7 DEF AssignAura
  <2>2. m \in Shields(side)
    BY <1>1, <1>3, <1>4, <1>7, GuardianCarrierIs
  <2> HIDE DEF m
  <2>3. m \in Nat /\ m # 0 /\ m \in Fighters(capped[side])
    BY <1>3, <1>4, <2>2
  <2>4. \A b \in LabAuras : carriers[side][b] # m
    <3>1. "shield" \in Roles
      BY <2>2 DEF Shields
    <3> QED
      BY <1>1, <1>4, <1>7, <2>2, <2>3, <3>1 DEF CarriersAre
  <2>5. CarriersAre(capped, [carriers EXCEPT ![side]["guardian"] = m])
    BY <1>1, <2>3, <2>4, LabAurasAre, OneCarrierMore
  <2> QED
    BY <1>6, <2>1, <2>5
<1>8. CASE labPhase' # "failed" /\ ~(carriers[side]["guardian"] = 0 /\ Shields(side) # {})
  <2> DEFINE a == NextAura(side)
             m == Carrier(side, a)
  <2>1. /\ Remaining(side) # {} /\ FreeCarriers(side, a) # {} /\ labPhase' = "auras"
        /\ carriers' = [carriers EXCEPT ![side][a] = m]
    BY <1>1, <1>8 DEF AssignAura
  <2>2. a \in LabAuras
    BY <1>1, <1>3, <2>1, NextAuraIs DEF Remaining
  <2> HIDE DEF a
  <2>3. FreeCarriers(side, a) \subseteq Fighters(capped[side]) \ Shields(side)
    BY DEF FreeCarriers, Learned
  <2>4. m \in FreeCarriers(side, a)
    BY <1>1, <1>3, <2>1, <2>2, <2>3, CarrierIs
  <2> HIDE DEF m
  <2>5. /\ m \in Nat /\ m \in Fighters(capped[side]) /\ \A b \in LabAuras : carriers[side][b] # m
        /\ a # "guardian" /\ "shield" \in Roles => m \notin Entries(capped[side]["shield"])
    BY <1>3, <1>4, <2>3, <2>4 DEF FreeCarriers
  <2>6. CarriersAre(capped, [carriers EXCEPT ![side][a] = m])
    BY <1>1, <2>2, <2>5, OneCarrierMore
  <2> QED
    BY <1>6, <2>1, <2>6
<1> QED
  BY <1>5, <1>7, <1>8

\* A team whose kits are done has everything a partition promises.
LEMMA RowIsDone ==
    ASSUME AbleMembers, TeamsFit(capped), NoGapLeft(capped), MysticInPlace(capped),
           CarriersAre(capped, carriers), \A s \in Sides : Fighters(capped[s]) # {},
           \A s \in Sides : \A a \in LabAuras : carriers[s][a] # 0,
           NEW p \in DOMAIN PolicyRank, NEW s \in Scores,
           NEW row, row = [policy |-> p, score |-> s, teams |-> capped, carriers |-> carriers,
                           insane |-> [side \in Sides |-> {}]]
    PROVE  row \in ScreenedRow /\ RowIsSound(row)
<1>1. /\ row.teams = capped /\ row.carriers = carriers /\ \A t \in Sides : row.insane[t] = {}
  OBVIOUS
<1>2. row \in ScreenedRow
  <2>1. s \in Int /\ capped \in [Sides -> [Roles -> Seq(usable)]]
        /\ carriers \in [Sides -> [LabAuras -> Nat]]
    BY LabAssumption DEF TeamsFit, CarriersAre
  <2>2. [side \in Sides |-> {}] \in [Sides -> SUBSET usable]
    OBVIOUS
  <2> DEFINE none == [side \in Sides |-> {}]
  <2> HIDE DEF none
  <2> QED
    BY <2>1, <2>2 DEF ScreenedRow, none
<1>3. \A t \in Sides : TeamSize(capped[t]) \in 1..TeamCap
  <2> SUFFICES ASSUME NEW t \in Sides PROVE TeamSize(capped[t]) \in 1..TeamCap
    OBVIOUS
  <2>1. SoundTeam(capped[t]) /\ TeamSize(capped[t]) <= TeamCap /\ Fighters(capped[t]) # {}
    BY DEF TeamsFit
  <2>2. IsFiniteSet(Fighters(capped[t])) /\ TeamSize(capped[t]) = Cardinality(Fighters(capped[t]))
    BY <2>1, TeamIs
  <2>3. Cardinality(Fighters(capped[t])) \in Nat /\ Cardinality(Fighters(capped[t])) # 0
    BY <2>1, <2>2, FS_CardinalityType, FS_EmptySet
  <2> QED
    BY <2>1, <2>2, <2>3, PartitionAssumption
<1>4. PlacesAreSound(capped)
  <2> SUFFICES ASSUME NEW t \in Sides, NEW r \in Roles, NEW i \in DOMAIN capped[t][r]
               PROVE  /\ Of(capped[t][r][i]).role = r /\ Ready(capped[t][r][i])
                      /\ capped[t][r][i] \notin Fighters(capped[Other(t)])
                      /\ \A j \in DOMAIN capped[t][r] : capped[t][r][i] = capped[t][r][j] => i = j
    BY DEF PlacesAreSound
  <2>1. SoundTeam(capped[t]) /\ capped[t][r] \in Seq(usable)
    BY DEF TeamsFit
  <2>2. capped[t][r][i] \in Entries(capped[t][r]) /\ Entries(capped[t][r]) \subseteq usable
    BY <2>1, EntriesAreFinite DEF Entries
  <2>3. capped[t][r][i] \in Fighters(capped[t])
    BY <2>2 DEF Fighters
  <2>4. Fighters(capped[t]) \cap Fighters(capped[Other(t)]) = {}
    BY SidesAre DEF TeamsFit
  <2>5. Ready(capped[t][r][i])
    BY <2>2 DEF AbleMembers
  <2> QED
    BY <2>1, <2>3, <2>4, <2>5 DEF SoundTeam
<1>5. NobodyLeftOut(capped)
  BY DEF TeamsFit
<1>6. OneAuraEach(row)
  BY <1>1 DEF OneAuraEach, CarriersAre
<1> QED
  BY <1>1, <1>2, <1>3, <1>4, <1>5, <1>6 DEF RowIsSound

\* What is screened is a team whose kits are done.
LEMMA ScreenKeeps == ASSUME RosterInv, Screen PROVE RosterInv'
<1>1. /\ labPhase = "auras" /\ labPhase' = "split" /\ policies' = Tail(policies)
      /\ UNCHANGED <<given, usable, capped, swaps, carriers>>
      /\ \A s \in Sides : \A a \in LabAuras : carriers[s][a] # 0
      /\ CarriersAre(capped, carriers) /\ NoGapLeft(capped) /\ MysticInPlace(capped)
      /\ TeamsFit(capped) /\ \A s \in Sides : Fighters(capped[s]) # {}
      /\ policies # <<>> /\ policies \in Seq(DOMAIN PolicyRank) /\ AbleMembers
  BY DEF Screen, RosterInv
<1>2. PICK s \in Scores :
         screened' = Append(screened, [policy |-> Head(policies), score |-> s, teams |-> capped,
                                       carriers |-> carriers, insane |-> [side \in Sides |-> {}]])
  BY DEF Screen
<1> DEFINE row == [policy |-> Head(policies), score |-> s, teams |-> capped,
                   carriers |-> carriers, insane |-> [side \in Sides |-> {}]]
<1>3. Head(policies) \in DOMAIN PolicyRank /\ policies' \in Seq(DOMAIN PolicyRank)
  BY <1>1
<1>4. row \in ScreenedRow /\ RowIsSound(row)
  BY <1>1, <1>3, RowIsDone
<1>5. screened' = Append(screened, row) /\ screened \in Seq(ScreenedRow)
      /\ \A i \in DOMAIN screened : RowIsSound(screened[i])
  BY <1>2 DEF RosterInv, TeamsAreSound
<1> HIDE DEF row
<1>6. screened' \in Seq(ScreenedRow) /\ \A i \in DOMAIN screened' : RowIsSound(screened'[i])
  BY <1>4, <1>5
<1>7. AbleMembers' /\ ScreenedRow' = ScreenedRow
  BY <1>1, Unmoved
<1>8. \A i \in DOMAIN screened' : RowIsSound(screened[i])'
  BY <1>1, <1>6, Unmoved
<1>9. TeamsAreSound'
  BY <1>8 DEF TeamsAreSound
<1> QED
  BY <1>1, <1>3, <1>6, <1>7, <1>9 DEF RosterInv

\* Of the screened partitions the best go on.
LEMMA SelectKeeps == ASSUME RosterInv, Select PROVE RosterInv'
<1> DEFINE all == Ranked(screened)
           k == Least(Len(screened), Validated)
           n == Len(screened)
<1>1. /\ labPhase = "split" /\ UNCHANGED <<given, usable, capped, swaps, carriers>>
      /\ screened' = SubSeq(all, 1, k)
      /\ policies' = [i \in 1..Len(screened') |-> i]
      /\ labPhase' = IF screened = <<>> THEN "failed" ELSE "validate"
      /\ screened \in Seq(ScreenedRow) /\ AbleMembers
      /\ \A i \in DOMAIN screened : RowIsSound(screened[i])
  BY DEF Select, RosterInv, TeamsAreSound
<1>2. n \in Nat /\ Validated \in Nat \ {0} /\ k \in 0..n /\ (screened # <<>> => k # 0)
  <2>1. n \in Nat /\ (screened # <<>> => n # 0)
    BY <1>1
  <2> QED
    BY <2>1, LabAssumption DEF Least
<1>3. all \in Seq(ScreenedRow) /\ Len(all) = n
      /\ \A i \in 1..n : \E j \in DOMAIN screened : all[i] = screened[j]
  BY <1>1, RankedIs
<1> HIDE DEF all, k, n
<1>4. screened' \in Seq(ScreenedRow) /\ Len(screened') = k /\ \A i \in 1..k : screened'[i] = all[i]
  BY <1>1, <1>2, <1>3
<1>5. \A i \in DOMAIN screened' : RowIsSound(screened'[i])
  <2>1. DOMAIN screened' = 1..k
    BY <1>4
  <2>2. \A i \in 1..k : i \in 1..n
    BY <1>2
  <2> QED
    BY <1>1, <1>3, <1>4, <2>1, <2>2
<1>6. AbleMembers' /\ ScreenedRow' = ScreenedRow
  BY <1>1, Unmoved
<1>7. TeamsAreSound'
  <2>1. \A i \in DOMAIN screened' : RowIsSound(screened[i])'
    BY <1>1, <1>5, Unmoved
  <2> QED
    BY <2>1 DEF TeamsAreSound
<1>8. labPhase' = "validate" => policies' \in Seq(DOMAIN screened') /\ screened' # <<>>
  <2>1. DOMAIN screened' = 1..k /\ k \in Nat
    BY <1>2, <1>4
  <2>2. policies' = [i \in 1..k |-> i]
    BY <1>1, <1>4
  <2>3. policies' \in Seq(1..k)
    BY <2>1, <2>2
  <2>4. labPhase' = "validate" => k # 0
    BY <1>1, <1>2
  <2> QED
    BY <1>4, <2>1, <2>3, <2>4
<1>9. labPhase' \in {"failed", "validate"}
  BY <1>1
<1> QED
  BY <1>4, <1>6, <1>7, <1>8, <1>9 DEF RosterInv

\* A partition after its full validation.
AfterSeeds(row, s, x, y) ==
    [[row EXCEPT !.score = s] EXCEPT !.insane = [side \in Sides |-> IF side = "st" THEN x ELSE y]]

\* Insanity goes to members of the team who carry no aura.
LEMMA InsaneAre ==
    ASSUME AbleMembers, NEW row \in ScreenedRow, RowIsSound(row), NEW s \in Scores,
           NEW x, x \subseteq InsanityCandidates("st", row),
           NEW y, y \subseteq InsanityCandidates("swarm", row)
    PROVE  AfterSeeds(row, s, x, y) \in ScreenedRow /\ RowIsSound(AfterSeeds(row, s, x, y))
<1> DEFINE new == AfterSeeds(row, s, x, y)
           insane == [side \in Sides |-> IF side = "st" THEN x ELSE y]
<1>1. /\ row = [policy |-> row.policy, score |-> row.score, teams |-> row.teams,
                carriers |-> row.carriers, insane |-> row.insane]
      /\ row.policy \in DOMAIN PolicyRank /\ row.teams \in [Sides -> [Roles -> Seq(usable)]]
      /\ row.carriers \in [Sides -> [LabAuras -> Nat]]
  BY DEF ScreenedRow
<1>2. \A side \in Sides : insane[side] \subseteq InsanityCandidates(side, row)
  BY SidesAre
<1>3. insane \in [Sides -> SUBSET usable]
  <2>1. \A side \in Sides : Fighters(row.teams[side]) \subseteq usable
    <3> SUFFICES ASSUME NEW side \in Sides, NEW r \in Roles
                 PROVE  Entries(row.teams[side][r]) \subseteq usable
      BY DEF Fighters
    <3>1. row.teams[side][r] \in Seq(usable)
      BY <1>1
    <3> QED
      BY <3>1, EntriesAreFinite
  <2>2. \A side \in Sides : InsanityCandidates(side, row) \subseteq usable
    BY <2>1 DEF InsanityCandidates
  <2>3. \A side \in Sides : insane[side] \in SUBSET usable
    BY <1>2, <2>2
  <2> QED
    BY <2>3
<1>4. new = [[row EXCEPT !.score = s] EXCEPT !.insane = insane]
  BY DEF AfterSeeds
<1> HIDE DEF insane, new
<1>5. new = [policy |-> row.policy, score |-> s, teams |-> row.teams,
             carriers |-> row.carriers, insane |-> insane]
  BY ONLY <1>1, <1>4
<1>6. new \in ScreenedRow
  <2> DEFINE p == row.policy
             t == row.teams
             c == row.carriers
  <2>1. /\ p \in DOMAIN PolicyRank /\ s \in Int /\ t \in [Sides -> [Roles -> Seq(usable)]]
        /\ c \in [Sides -> [LabAuras -> Nat]] /\ insane \in [Sides -> SUBSET usable]
        /\ new = [policy |-> p, score |-> s, teams |-> t, carriers |-> c, insane |-> insane]
    BY <1>1, <1>3, <1>5, LabAssumption
  <2> HIDE DEF p, t, c
  <2> QED
    BY ONLY <2>1 DEF ScreenedRow
<1>7. new.teams = row.teams /\ new.carriers = row.carriers /\ new.insane = insane
  BY ONLY <1>5
<1>8. OneAuraEach(new)
  <2>1. OneAuraEach(row)
    BY DEF RowIsSound
  <2>2. \A side \in Sides : \A a \in LabAuras : row.carriers[side][a] \notin insane[side]
    BY <1>2 DEF InsanityCandidates
  <2> QED
    BY <1>7, <2>1, <2>2 DEF OneAuraEach
<1> QED
  BY <1>6, <1>7, <1>8 DEF RowIsSound, new

\* One place of a list is overwritten.
LEMMA Overwritten ==
    ASSUME NEW S, NEW q \in Seq(S), NEW h \in DOMAIN q, NEW v \in S,
           NEW r, r = [q EXCEPT ![h] = v]
    PROVE  /\ r \in Seq(S) /\ DOMAIN r = DOMAIN q
           /\ \A i \in DOMAIN q : r[i] = IF i = h THEN v ELSE q[i]
<1>1. DOMAIN q = 1..Len(q) /\ Len(q) \in Nat /\ \A i \in 1..Len(q) : q[i] \in S
  OBVIOUS
<1>2. r \in [1..Len(q) -> S] /\ \A i \in 1..Len(q) : r[i] = IF i = h THEN v ELSE q[i]
  BY <1>1
<1> QED
  BY <1>1, <1>2

\* The full validation changes a score and whom it makes insane.
LEMMA ValidateKeeps == ASSUME RosterInv, Validate PROVE RosterInv'
<1> DEFINE h == Head(policies)
           row == screened[h]
<1>1. /\ labPhase = "validate" /\ labPhase' = "validate" /\ policies' = Tail(policies)
      /\ UNCHANGED <<given, usable, capped, swaps, carriers>>
      /\ policies # <<>> /\ policies \in Seq(DOMAIN screened) /\ screened # <<>>
      /\ screened \in Seq(ScreenedRow) /\ AbleMembers
      /\ \A i \in DOMAIN screened : RowIsSound(screened[i])
  BY DEF Validate, RosterInv, TeamsAreSound
<1>2. h \in DOMAIN screened /\ policies' \in Seq(DOMAIN screened)
  BY <1>1
<1>3. row \in ScreenedRow /\ RowIsSound(row)
  BY <1>1, <1>2
<1> DEFINE Top(side) == kSubset(Least(given.top[side], Cardinality(InsanityCandidates(side, row))),
                                InsanityCandidates(side, row))
<1>4. PICK s \in Scores, x \in Top("st"), y \in Top("swarm") :
         screened' = [screened EXCEPT
                 ![h].score = s,
                 ![h].insane = [side \in Sides |-> IF side = "st" THEN x ELSE y]]
  BY DEF Validate
<1> DEFINE new == AfterSeeds(row, s, x, y)
<1>5. new \in ScreenedRow /\ RowIsSound(new)
  <2>1. x \subseteq InsanityCandidates("st", row) /\ y \subseteq InsanityCandidates("swarm", row)
    BY <1>4 DEF kSubset
  <2> HIDE DEF row, Top, h
  <2> QED
    BY <1>1, <1>3, <2>1, InsaneAre
<1>6. screened' = [screened EXCEPT ![h] = new]
  BY <1>1, <1>2, <1>4 DEF AfterSeeds
<1> HIDE DEF new, row, h
<1>7. screened' \in Seq(ScreenedRow) /\ DOMAIN screened' = DOMAIN screened
      /\ \A i \in DOMAIN screened : RowIsSound(screened'[i])
  <2>1. /\ screened' \in Seq(ScreenedRow) /\ DOMAIN screened' = DOMAIN screened
        /\ \A i \in DOMAIN screened : screened'[i] = IF i = h THEN new ELSE screened[i]
    BY <1>1, <1>2, <1>5, <1>6, Overwritten
  <2> QED
    BY <1>1, <1>5, <2>1
<1>8. AbleMembers' /\ ScreenedRow' = ScreenedRow
  BY <1>1, Unmoved
<1>9. TeamsAreSound'
  <2>1. \A i \in DOMAIN screened' : RowIsSound(screened[i])'
    BY <1>1, <1>7, Unmoved
  <2> QED
    BY <2>1 DEF TeamsAreSound
<1>10. screened' # <<>>
  BY <1>1, <1>7
<1> QED
  BY <1>1, <1>2, <1>7, <1>8, <1>9, <1>10 DEF RosterInv

\* The winner is one of those that were validated.
LEMMA WriteKeeps == ASSUME RosterInv, Write PROVE RosterInv'
<1> DEFINE all == Ranked(screened)
<1>1. /\ labPhase = "validate" /\ labPhase' = "written" /\ screened' = <<all[1]>>
      /\ UNCHANGED <<given, usable, policies, capped, swaps, carriers>>
      /\ screened # <<>> /\ screened \in Seq(ScreenedRow) /\ AbleMembers
      /\ \A i \in DOMAIN screened : RowIsSound(screened[i])
  BY DEF Write, RosterInv, TeamsAreSound
<1>2. 1 \in 1..Len(screened)
  BY <1>1
<1>3. all \in Seq(ScreenedRow) /\ Len(all) = Len(screened)
      /\ \E j \in DOMAIN screened : all[1] = screened[j]
  BY <1>1, <1>2, RankedIs
<1> HIDE DEF all
<1>4. all[1] \in ScreenedRow /\ RowIsSound(all[1])
  BY <1>1, <1>3
<1>5. screened' \in Seq(ScreenedRow) /\ \A i \in DOMAIN screened' : RowIsSound(screened'[i])
  BY <1>1, <1>4
<1>6. AbleMembers' /\ ScreenedRow' = ScreenedRow
  BY <1>1, Unmoved
<1>7. TeamsAreSound'
  <2>1. \A i \in DOMAIN screened' : RowIsSound(screened[i])'
    BY <1>1, <1>5, Unmoved
  <2> QED
    BY <2>1 DEF TeamsAreSound
<1> QED
  BY <1>1, <1>5, <1>6, <1>7 DEF RosterInv

\* Every step of the lab keeps the invariant.
LEMMA RosterInvStays == RosterInv /\ [LabNext]_labVars => RosterInv'
<1> SUFFICES ASSUME RosterInv, [LabNext]_labVars PROVE RosterInv'
  OBVIOUS
<1>1. CASE UNCHANGED labVars
  <2>1. /\ UNCHANGED <<given, usable, screened>>
        /\ policies' = policies /\ capped' = capped /\ swaps' = swaps
        /\ carriers' = carriers /\ labPhase' = labPhase
    BY <1>1 DEF labVars
  <2>2. AbleMembers' /\ screened' \in Seq(ScreenedRow') /\ TeamsAreSound'
    BY <2>1, ScreenedStays
  <2>3. /\ TeamsFit(capped) => TeamsFit(capped)'
        /\ SwapsAre(capped, swaps) => SwapsAre(capped, swaps)'
        /\ NoGapLeft(capped) => NoGapLeft(capped)'
        /\ MysticInPlace(capped) => MysticInPlace(capped)'
    BY <2>1, Unmoved
  <2>4. /\ CarriersAre(capped, carriers) => CarriersAre(capped, carriers)'
        /\ carriers = NoAuras => carriers' = NoAuras'
        /\ (\A s \in Sides : Fighters(capped[s]) # {}) => \A s \in Sides : Fighters(capped[s])' # {}
    BY <2>1 DEF CarriersAre, NoAuras
  <2> QED
    BY <2>1, <2>2, <2>3, <2>4 DEF RosterInv
<1>2. CASE LabNext
  BY <1>2, AssessKeeps, SplitSidesKeeps, RebalanceKeeps, PreferMysticKeeps, AssignAuraKeeps,
     ScreenKeeps, SelectKeeps, ValidateKeeps, WriteKeeps DEF LabNext
<1> QED
  BY <1>1, <1>2

\* Whatever members, levels, policies, capacities and results there are: every partition the
\* lab screens, validates or writes has sound teams on both sides.
THEOREM TeamsAreSoundHolds == LabSpec => []TeamsAreSound
<1>1. RosterInv => TeamsAreSound
  BY DEF RosterInv
<1> QED
  BY <1>1, RosterInvStarts, RosterInvStays, PTL DEF LabSpec
=============================================================================
