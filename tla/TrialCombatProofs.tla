------------------------- MODULE TrialCombatProofs -------------------------
(***************************************************************************)
(* The combat engine, for every party, every level's enemies and whatever  *)
(* their abilities, thorns and parries do.                                 *)
(*                                                                         *)
(* A unit is Fit when its queued events agree with what controls it, and   *)
(* Awake when it is dead or will act. The handlers of a unit's events all  *)
(* have one shape: they leave fit units and end the encounter, or leave    *)
(* fit and awake units with somebody standing on either side (Stepped).    *)
(* The invariants and the refinement follow from that shape.               *)
(***************************************************************************)
EXTENDS TrialCombat, TLAPS

Wakers == Acts \cup {"stunExpiration", "blindExpiration"}

(* Held keeps what concerns queue and controls, Fit adds that no dead unit *)
(* casts. A blinded unit that lives will see again.                        *)
Sighted(x) == x.hp > 0 /\ "blinded" \in x.cc => "blindExpiration" \in x.pend
Held(x) ==
  /\ x \in Unit
  /\ ~(Acts \subseteq x.pend)
  /\ "blinded" \in x.cc => "autoAttack" \notin x.pend
  /\ x.cc \cap {"stunned", "silenced"} # {} => "abilityCastEnd" \notin x.pend
  /\ "abilityCastEnd" \in x.pend => x.mp >= Cost
Standing(x) == "abilityCastEnd" \in x.pend => x.hp > 0
Fit(x) == Held(x) /\ Standing(x) /\ Sighted(x)
Awake(x) == x.hp > 0 => x.pend \cap Wakers # {}

(* What stuns or silences x will end, if x lives.                          *)
Timed(x) ==
  x.hp > 0 => /\ "stunned" \in x.cc => "stunExpiration" \in x.pend
              /\ "silenced" \in x.cc => "silenceExpiration" \in x.pend

-----------------------------------------------------------------------------
(* One unit.                                                               *)

LEMMA ActsDiffer ==
  /\ Acts = {"autoAttack", "abilityCastEnd"}
  /\ Acts \subseteq Events
BY DEF Acts, Events

LEMMA UnitFields ==
  ASSUME NEW x \in Unit
  PROVE  /\ x.hp \in 0 .. MaxHp /\ x.mp \in 0 .. MaxMp
         /\ x.cc \subseteq Controls /\ x.oom \in BOOLEAN /\ x.pend \subseteq Events
BY DEF Unit

LEMMA NextActShape ==
  ASSUME NEW x \in Unit, NEW foes \in BOOLEAN, NEW y \in NextAct(x, foes)
  PROVE  /\ y \in Unit
         /\ y.hp = x.hp /\ y.mp = x.mp /\ y.cc = x.cc
         /\ \/ y.pend = x.pend
            \/ /\ x.pend \cap Acts = {} /\ "blinded" \notin x.cc
               /\ y.pend = x.pend \cup {"autoAttack"}
            \/ /\ x.pend \cap Acts = {} /\ CanPay(x)
               /\ x.cc \cap {"stunned", "silenced"} = {}
               /\ y.pend = x.pend \cup {"abilityCastEnd"}
         /\ foes => y.pend \cap Acts # {} \/ "blinded" \in x.cc
<1>1. CASE x.pend \cap Acts # {}
  BY <1>1 DEF NextAct
<1>2. CASE x.pend \cap Acts = {}
  <2>1. CASE y = Swinging(x, foes)
    BY <2>1, <1>2 DEF Swinging, Unit, Acts, Events
  <2>2. CASE y = Casting(x) /\ CanPay(x) /\ x.cc \cap {"stunned", "silenced"} = {}
    BY <2>2, <1>2 DEF Casting, Unit, Acts, Events
  <2> QED
    BY <1>2, <2>1, <2>2 DEF NextAct
<1> QED
  BY <1>1, <1>2

LEMMA NextActHeld ==
  ASSUME NEW x, Held(x), NEW foes \in BOOLEAN, NEW y \in NextAct(x, foes)
  PROVE  /\ Held(y) /\ y.hp = x.hp /\ y.cc = x.cc /\ x.pend \subseteq y.pend
         /\ Standing(x) => Standing(y)
         /\ Sighted(x) => Sighted(y)
         /\ foes /\ Sighted(x) => Awake(y)
<1>1. x \in Unit
  BY DEF Held
<1>2. Held(y)
  BY <1>1, NextActShape DEF Held, Acts, CanPay
<1>3. y.hp = x.hp /\ y.cc = x.cc /\ x.pend \subseteq y.pend
  BY <1>1, NextActShape
<1>4. (Standing(x) => Standing(y)) /\ (Sighted(x) => Sighted(y))
  BY <1>1, NextActShape DEF Standing, Sighted, CanPay
<1>5. foes /\ Sighted(x) => Awake(y)
  <2> SUFFICES ASSUME foes, Sighted(x), y.hp > 0
              PROVE  y.pend \cap Wakers # {}
    BY DEF Awake
  <2>1. CASE y.pend \cap Acts # {}
    BY <2>1 DEF Wakers
  <2>2. CASE "blinded" \in x.cc
    <3>1. "blindExpiration" \in y.pend
      BY <2>2, <1>3 DEF Sighted
    <3> QED
      BY <3>1 DEF Wakers
  <2> QED
    BY <1>1, <2>1, <2>2, NextActShape
<1> QED
  BY <1>2, <1>3, <1>4, <1>5

LEMMA SettledFit ==
  ASSUME NEW x, Held(x), Sighted(x)
  PROVE  /\ Fit(Settled(x)) /\ Settled(x).hp = x.hp
         /\ Awake(x) => Awake(Settled(x))
<1>1. CASE x.hp = 0
  <2>1. Settled(x) = [x EXCEPT !.pend = {}] /\ Settled(x) \in Unit
    BY <1>1 DEF Settled, Held, Unit
  <2>2. Settled(x).pend = {} /\ Settled(x).hp = 0
    BY <1>1, <2>1 DEF Held, Unit
  <2> QED
    BY <1>1, <2>1, <2>2 DEF Fit, Held, Standing, Sighted, Awake, Acts
<1>2. CASE x.hp # 0
  BY <1>2 DEF Settled, Fit, Standing, Held, Unit
<1> QED
  BY <1>1, <1>2

(* A hit on a living unit, whatever it leaves of it.                       *)
LEMMA HitHeld ==
  ASSUME NEW x, Fit(x), x.hp > 0, Awake(x), NEW points \in 0 .. MaxHp
  PROVE  LET y == [x EXCEPT !.hp = points]
         IN Held(y) /\ Sighted(y) /\ Awake(y)
BY DEF Fit, Held, Sighted, Awake, Unit

LEMMA QueuedHeld ==
  ASSUME NEW x, Held(x), NEW e \in Events \ Acts
  PROVE  LET y == [x EXCEPT !.pend = @ \cup {e}]
         IN /\ Held(y) /\ y.hp = x.hp /\ y.cc = x.cc /\ y.pend = x.pend \cup {e}
            /\ Sighted(x) => Sighted(y)
            /\ Awake(x) => Awake(y)
BY DEF Held, Sighted, Awake, Unit, Acts

LEMMA StunnedHeld ==
  ASSUME NEW x, Held(x), Sighted(x), NEW y \in Stunned(x)
  PROVE  Held(y) /\ Sighted(y) /\ Awake(y) /\ y.hp = x.hp
<1>1. y = [x EXCEPT !.cc = @ \cup {"stunned"}, !.pend = (@ \ Acts) \cup {"stunExpiration"}]
  BY DEF Stunned
<1>2. y \in Unit
  BY <1>1 DEF Held, Unit, Controls, Events, Acts
<1>3. y.pend = (x.pend \ Acts) \cup {"stunExpiration"} /\ y.hp = x.hp /\ y.mp = x.mp
      /\ y.cc = x.cc \cup {"stunned"}
  BY <1>1 DEF Held, Unit
<1> QED
  BY <1>2, <1>3 DEF Held, Sighted, Awake, Acts, Wakers

LEMMA BlindedHeld ==
  ASSUME NEW x, Held(x), Sighted(x), NEW y \in Blinded(x)
  PROVE  Held(y) /\ Sighted(y) /\ Awake(y) /\ y.hp = x.hp
<1> DEFINE seen == [x EXCEPT !.cc = @ \cup {"blinded"}]
           still == [seen EXCEPT !.pend = @ \ {"autoAttack"}]
<1>1. Held(still) /\ still.hp = x.hp
  BY DEF Held, Unit, Controls, Acts
<1>2. "autoAttack" \notin x.pend => Held(seen) /\ seen.hp = x.hp
  BY DEF Held, Unit, Controls, Acts
<1>3. PICK z \in (IF "autoAttack" \in x.pend THEN NextAct(still, TRUE) ELSE {seen}) :
        y = [z EXCEPT !.pend = @ \cup {"blindExpiration"}]
  BY DEF Blinded
<1>4. Held(z) /\ z.hp = x.hp
  <2>1. CASE "autoAttack" \in x.pend
    <3> HIDE DEF still
    <3> QED
      BY <2>1, <1>1, <1>3, NextActHeld
  <2>2. CASE "autoAttack" \notin x.pend
    BY <2>2, <1>2, <1>3
  <2> QED
    BY <2>1, <2>2
<1>5. "blindExpiration" \in Events \ Acts
  BY DEF Events, Acts
<1>6. Held(y) /\ y.hp = z.hp /\ y.pend = z.pend \cup {"blindExpiration"}
  BY <1>3, <1>4, <1>5, QueuedHeld
<1> QED
  BY <1>4, <1>6 DEF Sighted, Awake, Wakers

LEMMA SilencedHeld ==
  ASSUME NEW x, Held(x), Sighted(x), Awake(x), NEW y \in Silenced(x)
  PROVE  Held(y) /\ Sighted(y) /\ Awake(y) /\ y.hp = x.hp
<1> DEFINE mute == [x EXCEPT !.cc = @ \cup {"silenced"}]
           still == [mute EXCEPT !.pend = @ \ {"abilityCastEnd"}]
<1>1. Held(still) /\ Sighted(still) /\ still.hp = x.hp
  BY DEF Held, Sighted, Unit, Controls, Acts
<1>2. "abilityCastEnd" \notin x.pend =>
        Held(mute) /\ Sighted(mute) /\ Awake(mute) /\ mute.hp = x.hp
  BY DEF Held, Sighted, Awake, Unit, Controls, Acts
<1>3. PICK z \in (IF "abilityCastEnd" \in x.pend THEN NextAct(still, TRUE) ELSE {mute}) :
        y = [z EXCEPT !.pend = @ \cup {"silenceExpiration"}]
  BY DEF Silenced
<1>4. Held(z) /\ Sighted(z) /\ Awake(z) /\ z.hp = x.hp
  <2>1. CASE "abilityCastEnd" \in x.pend
    <3> HIDE DEF still
    <3> QED
      BY <2>1, <1>1, <1>3, NextActHeld
  <2>2. CASE "abilityCastEnd" \notin x.pend
    BY <2>2, <1>2, <1>3
  <2> QED
    BY <2>1, <2>2
<1>5. "silenceExpiration" \in Events \ Acts
  BY DEF Events, Acts
<1> QED
  BY <1>3, <1>4, <1>5, QueuedHeld

(* Whatever a harmful cast leaves on its target.                           *)
LEMMA MarkedHeld ==
  ASSUME NEW x, Held(x), Sighted(x), Awake(x),
         NEW effect \in {"harm", "stun", "blind", "silence", "bleed"},
         NEW y \in Marked(x, effect)
  PROVE  Held(y) /\ Sighted(y) /\ Awake(y) /\ y.hp = x.hp
<1>1. CASE y = x
  BY <1>1
<1>2. CASE y \in Stunned(x)
  BY <1>2, StunnedHeld
<1>3. CASE y \in Blinded(x)
  BY <1>3, BlindedHeld
<1>4. CASE y \in Silenced(x)
  BY <1>4, SilencedHeld
<1>5. CASE y = [x EXCEPT !.pend = @ \cup {"damageOverTime"}]
  <2>1. "damageOverTime" \in Events \ Acts
    BY DEF Events, Acts
  <2> QED
    BY <1>5, <2>1, QueuedHeld
<1> QED
  BY <1>1, <1>2, <1>3, <1>4, <1>5 DEF Marked

-----------------------------------------------------------------------------
(* Controls: nothing sets one without queueing its end.                    *)

LEMMA NextActTimed ==
  ASSUME NEW x \in Unit, NEW foes \in BOOLEAN, NEW y \in NextAct(x, foes)
  PROVE  Timed(x) => Timed(y)
BY NextActShape DEF Timed

LEMMA SettledTimed ==
  ASSUME NEW x \in Unit
  PROVE  /\ Settled(x) \in Unit
         /\ Settled(x).hp = 0 => Settled(x).pend = {}
         /\ Timed(x) => Timed(Settled(x))
BY DEF Settled, Timed, Unit

LEMMA NextActKeeps ==
  ASSUME NEW x \in Unit, NEW y \in NextAct(x, TRUE)
  PROVE  y \in Unit /\ y.hp = x.hp /\ y.cc = x.cc /\ x.pend \subseteq y.pend
<1>1. TRUE \in BOOLEAN
  OBVIOUS
<1> QED
  BY <1>1, NextActShape

LEMMA MarkedTimed ==
  ASSUME NEW x \in Unit,
         NEW effect \in {"harm", "stun", "blind", "silence", "bleed"},
         NEW y \in Marked(x, effect), Timed(x)
  PROVE  Timed(y)
<1>1. CASE y = x
  BY <1>1
<1>2. CASE y \in Stunned(x)
  <2>1. y = [x EXCEPT !.cc = @ \cup {"stunned"}, !.pend = (@ \ Acts) \cup {"stunExpiration"}]
    BY <1>2 DEF Stunned
  <2>2. y.hp = x.hp /\ y.cc = x.cc \cup {"stunned"}
        /\ y.pend = (x.pend \ Acts) \cup {"stunExpiration"}
    BY <2>1 DEF Unit
  <2> QED
    BY <2>2 DEF Timed, Acts
<1>3. CASE y \in Blinded(x)
  <2> DEFINE seen == [x EXCEPT !.cc = @ \cup {"blinded"}]
             still == [seen EXCEPT !.pend = @ \ {"autoAttack"}]
  <2>1. seen \in Unit /\ Timed(seen) /\ still \in Unit /\ Timed(still)
    BY DEF Timed, Unit, Controls
  <2>2. PICK z \in (IF "autoAttack" \in x.pend THEN NextAct(still, TRUE) ELSE {seen}) :
          y = [z EXCEPT !.pend = @ \cup {"blindExpiration"}]
    BY <1>3 DEF Blinded
  <2> HIDE DEF seen, still
  <2>3. z \in Unit /\ Timed(z)
    BY <2>1, <2>2, NextActShape, NextActTimed
  <2> QED
    BY <2>2, <2>3 DEF Timed, Unit
<1>4. CASE y \in Silenced(x)
  <2> DEFINE mute == [x EXCEPT !.cc = @ \cup {"silenced"}]
             still == [mute EXCEPT !.pend = @ \ {"abilityCastEnd"}]
             Stuns(z) == z.hp > 0 /\ "stunned" \in z.cc => "stunExpiration" \in z.pend
  <2>1. mute \in Unit /\ Stuns(mute) /\ still \in Unit /\ Stuns(still)
    BY DEF Timed, Unit, Controls
  <2>2. PICK z \in (IF "abilityCastEnd" \in x.pend THEN NextAct(still, TRUE) ELSE {mute}) :
          y = [z EXCEPT !.pend = @ \cup {"silenceExpiration"}]
    BY <1>4 DEF Silenced
  <2> HIDE DEF mute, still
  <2>3. z \in Unit /\ Stuns(z)
    <3>1. CASE z = mute
      BY <2>1, <3>1
    <3>2. CASE z \in NextAct(still, TRUE)
      <4>1. z \in Unit /\ z.hp = still.hp /\ z.cc = still.cc /\ still.pend \subseteq z.pend
        BY <2>1, <3>2, NextActKeeps
      <4> QED
        BY <2>1, <4>1
    <3> QED
      BY <2>2, <3>1, <3>2
  <2> QED
    BY <2>2, <2>3 DEF Timed, Unit
<1>5. CASE y = [x EXCEPT !.pend = @ \cup {"damageOverTime"}]
  BY <1>5 DEF Timed, Unit
<1> QED
  BY <1>1, <1>2, <1>3, <1>4, <1>5 DEF Marked

-----------------------------------------------------------------------------
(* All units: the shape that every event of a unit has.                    *)

Stepped(after) ==
  /\ DOMAIN after = Units
  /\ after \in [Units -> Unit]
  /\ \A u \in Units : Fit(after[u])
  /\ \/ EndEncounter(after)
     \/ /\ fighting => \A u \in Units : Awake(after[u])
        /\ ~EncounterEnds(after)
        /\ GoOn(after)

\* What an event of one unit leaves of another: nothing has happened to it, or
\* it was alive, has nothing queued if it fell, and no control without an end.
Spared(u, x) ==
  \/ x = units[u]
  \/ /\ units[u].hp > 0
     /\ x.hp = 0 => x.pend = {}
     /\ Timed(units[u]) => Timed(x)

UnitsInv ==
  /\ units \in [Units -> Unit]
  /\ \A u \in Units : Held(units[u]) /\ Standing(units[u])
  /\ stop = Running => \A u \in Units : Sighted(units[u])
  /\ stop = Running /\ fighting => \A u \in Units : Awake(units[u])

LEMMA FinishCastSteps ==
  ASSUME NEW s \in Units, NEW done \in [Units -> Unit], fighting \in BOOLEAN,
         Held(done[s]), Sighted(done[s]),
         \A u \in Units \ {s} : Fit(done[u]) /\ (fighting => Awake(done[u])),
         FinishCast(s, done)
  PROVE  \E after : Stepped(after)
<1>1. PICK x \in NextAct(done[s], fighting) : Check([done EXCEPT ![s] = Settled(x)])
  BY DEF FinishCast
<1>2. Held(x) /\ Sighted(x) /\ (fighting => Awake(x))
  BY <1>1, NextActHeld
<1>3. Fit(Settled(x)) /\ (fighting => Awake(Settled(x)))
  BY <1>2, SettledFit
<1> DEFINE after == [done EXCEPT ![s] = Settled(x)]
<1>4. Settled(x) \in Unit
  BY <1>3 DEF Fit, Held
<1>5. after \in [Units -> Unit] /\ DOMAIN after = Units
  BY <1>4
<1>6. \A u \in Units : Fit(after[u]) /\ (fighting => Awake(after[u]))
  BY <1>3
<1>7. Check(after)
  BY <1>1
<1> HIDE DEF after
<1>8. Stepped(after)
  BY <1>5, <1>6, <1>7 DEF Check, Stepped
<1> QED
  BY <1>8

(* A step that changes one unit and leaves the life of all as it is.       *)
LEMMA OneUnitSteps ==
  ASSUME NEW u \in Units, NEW x, UnitsInv, stop = Running, ~EncounterEnds(units),
         Fit(x), x.hp = units[u].hp, fighting => Awake(x),
         GoOn([units EXCEPT ![u] = x])
  PROVE  \E after : Stepped(after)
<1> DEFINE after == [units EXCEPT ![u] = x]
<1>1. after \in [Units -> Unit] /\ DOMAIN after = Units
  BY DEF UnitsInv, Fit, Held
<1>2. \A v \in Units : Fit(after[v]) /\ (fighting => Awake(after[v]))
  BY DEF UnitsInv, Fit
<1>3. \A v \in Units : after[v].hp = units[v].hp
  BY DEF UnitsInv
<1>4. ~EncounterEnds(after)
  BY <1>3 DEF EncounterEnds, PartyWiped, EnemiesFell, Units
<1>5. GoOn(after)
  OBVIOUS
<1> HIDE DEF after
<1>6. Stepped(after)
  BY <1>1, <1>2, <1>4, <1>5 DEF Stepped
<1> QED
  BY <1>6

LEMMA ExpireSteps ==
  ASSUME NEW u \in Units, UnitsInv, ~EncounterEnds(units), fighting \in BOOLEAN,
         NEW event, NEW control, Expire(u, event, control),
         \/ event = "stunExpiration" /\ control = "stunned"
         \/ event = "blindExpiration" /\ control = "blinded"
  PROVE  \E after : Stepped(after)
<1> DEFINE freed == [Without(u, event) EXCEPT !.cc = @ \ {control}]
<1>1. stop = Running
  BY DEF Expire
<1>2. Held(freed) /\ Sighted(freed) /\ Standing(freed) /\ freed.hp = units[u].hp
  BY <1>1 DEF UnitsInv, Without, Held, Sighted, Standing, Unit
<1>3. PICK x \in NextAct(freed, fighting) : GoOn([units EXCEPT ![u] = x])
  BY DEF Expire
<1> HIDE DEF freed
<1>4. Fit(x) /\ x.hp = units[u].hp /\ (fighting => Awake(x))
  BY <1>2, <1>3, NextActHeld DEF Fit
<1> QED
  BY <1>1, <1>3, <1>4, OneUnitSteps

LEMMA SilenceSteps ==
  ASSUME NEW u \in Units, UnitsInv, ~EncounterEnds(units), fighting \in BOOLEAN,
         SilenceExpires(u)
  PROVE  \E after : Stepped(after)
<1> DEFINE x == [Without(u, "silenceExpiration") EXCEPT !.cc = @ \ {"silenced"}]
<1>1. stop = Running /\ GoOn([units EXCEPT ![u] = x])
  BY DEF SilenceExpires
<1>2. Held(x) /\ Sighted(x) /\ Standing(x) /\ x.hp = units[u].hp
  BY <1>1 DEF UnitsInv, Without, Held, Sighted, Standing, Unit
<1>3. fighting => Awake(x)
  BY <1>1 DEF UnitsInv, Without, Awake, Wakers, Acts, Unit
<1> HIDE DEF x
<1> QED
  BY <1>1, <1>2, <1>3, OneUnitSteps DEF Fit

LEMMA AwaitSteps ==
  ASSUME NEW u \in Units, UnitsInv, ~EncounterEnds(units), fighting \in BOOLEAN,
         AwaitCooldown(u)
  PROVE  \E after : Stepped(after)
<1>1. stop = Running
  BY DEF AwaitCooldown
<1>2. PICK y \in {units[u], Without(u, "awaitCooldown")} :
        \E x \in NextAct(y, fighting) : GoOn([units EXCEPT ![u] = x])
  BY DEF AwaitCooldown
<1>3. PICK x \in NextAct(y, fighting) : GoOn([units EXCEPT ![u] = x])
  BY <1>2
<1>4. Held(y) /\ Sighted(y) /\ Standing(y) /\ y.hp = units[u].hp
  BY <1>1, <1>2 DEF UnitsInv, Without, Held, Sighted, Standing, Unit
<1>5. Fit(x) /\ x.hp = units[u].hp /\ (fighting => Awake(x))
  BY <1>3, <1>4, NextActHeld DEF Fit
<1> QED
  BY <1>1, <1>3, <1>5, OneUnitSteps

LEMMA DamageOverTimeSteps ==
  ASSUME NEW u \in Units, UnitsInv, fighting \in BOOLEAN, DamageOverTime(u)
  PROVE  \E after : Stepped(after)
<1>1. stop = Running
  BY DEF DamageOverTime
<1>2. PICK y \in {units[u], Without(u, "damageOverTime")}, points \in 0 .. units[u].hp :
        Check([units EXCEPT ![u] = Settled([y EXCEPT !.hp = points])])
  BY DEF DamageOverTime
<1> DEFINE hurt == [y EXCEPT !.hp = points]
           after == [units EXCEPT ![u] = Settled(hurt)]
<1>3. units[u] \in Unit /\ points \in 0 .. MaxHp
  <2>1. units[u] \in Unit
    BY DEF UnitsInv
  <2> QED
    BY <2>1, PointsAssumption DEF Unit
<1>4. Held(hurt) /\ Sighted(hurt)
  BY <1>1, <1>2, <1>3 DEF UnitsInv, Without, Held, Sighted, Unit
<1>5. fighting => Awake(hurt)
  BY <1>1, <1>2, <1>3 DEF UnitsInv, Without, Awake, Wakers, Acts, Unit
<1> HIDE DEF hurt
<1>6. Fit(Settled(hurt)) /\ (fighting => Awake(Settled(hurt)))
  BY <1>4, <1>5, SettledFit
<1>7. after \in [Units -> Unit] /\ DOMAIN after = Units
  BY <1>6 DEF UnitsInv, Fit, Held
<1>8. \A v \in Units : Fit(after[v]) /\ (fighting => Awake(after[v]))
  BY <1>1, <1>6 DEF UnitsInv, Fit
<1>9. Check(after)
  BY <1>2 DEF hurt
<1> HIDE DEF after
<1>10. Stepped(after)
  BY <1>7, <1>8, <1>9 DEF Check, Stepped
<1> QED
  BY <1>10
-----------------------------------------------------------------------------
(* Casts: who pays, who is struck, who seeks the next act.                 *)

LEMMA PaidShape ==
  ASSUME NEW s \in Units, UnitsInv, CastEnds(s)
  PROVE  /\ Paid(s) \in [Units -> Unit]
         /\ \A u \in Units \ {s} : Paid(s)[u] = units[u]
         /\ Held(Paid(s)[s]) /\ Sighted(Paid(s)[s])
         /\ Paid(s)[s].hp = units[s].hp /\ units[s].hp > 0
         /\ "abilityCastEnd" \notin Paid(s)[s].pend
         /\ Timed(units[s]) => Timed(Paid(s)[s])
<1> DEFINE payer == [units[s] EXCEPT !.pend = @ \ {"abilityCastEnd"}, !.mp = @ - Cost]
<1>1. units[s] \in Unit /\ Held(units[s]) /\ Sighted(units[s]) /\ units \in [Units -> Unit]
  BY DEF UnitsInv, CastEnds
<1>2. units[s].hp > 0 /\ units[s].mp >= Cost
  BY DEF CastEnds, CanPay
<1>3. units[s].mp - Cost \in 0 .. MaxMp
  BY <1>1, <1>2, PointsAssumption DEF Unit
<1>4. payer \in Unit
  BY <1>1, <1>3 DEF Unit
<1>5. payer.pend = units[s].pend \ {"abilityCastEnd"} /\ payer.cc = units[s].cc
      /\ payer.hp = units[s].hp
  BY <1>1 DEF Unit
<1>6. Held(payer) /\ Sighted(payer)
  BY <1>1, <1>4, <1>5 DEF Held, Sighted
<1>7. Paid(s) = [units EXCEPT ![s] = payer]
  BY <1>1 DEF Paid, Unit
<1>8. Timed(units[s]) => Timed(payer)
  BY <1>1, <1>5 DEF Timed, Unit
<1> HIDE DEF payer
<1> QED
  BY <1>1, <1>2, <1>4, <1>5, <1>6, <1>7, <1>8

LEMMA HealSteps ==
  ASSUME NEW s \in Units, UnitsInv, fighting \in BOOLEAN, CastHeal(s)
  PROVE  \E after : Stepped(after)
<1>1. CastEnds(s) /\ stop = Running
  BY DEF CastHeal, CastEnds
<1>2. PICK friends \in SUBSET {t \in Friends(s) : Alive(t)} :
        \E h \in [friends -> 1 .. MaxHp] :
          FinishCast(s, [u \in Units |-> IF u \in friends
                                         THEN [Paid(s)[u] EXCEPT !.hp = h[u]] ELSE Paid(s)[u]])
  BY DEF CastHeal
<1>3. PICK h \in [friends -> 1 .. MaxHp] :
          FinishCast(s, [u \in Units |-> IF u \in friends
                                         THEN [Paid(s)[u] EXCEPT !.hp = h[u]] ELSE Paid(s)[u]])
  BY <1>2
<1> DEFINE done == [u \in Units |-> IF u \in friends
                                    THEN [Paid(s)[u] EXCEPT !.hp = h[u]] ELSE Paid(s)[u]]
<1>4. \A u \in friends : u \in Units /\ units[u].hp > 0 /\ h[u] \in 1 .. MaxHp
  BY <1>2, <1>3 DEF Friends, Alive, Units
<1>5. \A x \in Unit, n \in 1 .. MaxHp :
        /\ [x EXCEPT !.hp = n] \in Unit
        /\ Held(x) => Held([x EXCEPT !.hp = n])
        /\ Standing([x EXCEPT !.hp = n])
        /\ Sighted(x) /\ x.hp > 0 => Sighted([x EXCEPT !.hp = n])
        /\ Awake(x) /\ x.hp > 0 => Awake([x EXCEPT !.hp = n])
  BY PointsAssumption DEF Held, Standing, Sighted, Awake, Unit
<1>6. done \in [Units -> Unit]
  BY <1>1, <1>4, <1>5, PaidShape
<1>7. Held(done[s]) /\ Sighted(done[s])
  BY <1>1, <1>4, <1>5, PaidShape
<1>8. \A u \in Units \ {s} : Fit(done[u]) /\ (fighting => Awake(done[u]))
  BY <1>1, <1>4, <1>5, PaidShape DEF UnitsInv, Fit
<1>9. FinishCast(s, done)
  BY <1>3
<1> HIDE DEF done
<1> QED
  BY <1>6, <1>7, <1>8, <1>9, FinishCastSteps

(* A cast that changes nobody but its caster.                              *)
LEMMA AloneSteps ==
  ASSUME NEW s \in Units, UnitsInv, fighting \in BOOLEAN, CastEnds(s),
         NEW points \in 1 .. MaxHp, FinishCast(s, [Paid(s) EXCEPT ![s].hp = points])
  PROVE  \E after : Stepped(after)
<1> DEFINE done == [Paid(s) EXCEPT ![s].hp = points]
           caster == [Paid(s)[s] EXCEPT !.hp = points]
<1>1. Paid(s) \in [Units -> Unit] /\ Paid(s)[s] \in Unit
  BY PaidShape
<1>2. done[s] = caster /\ \A u \in Units \ {s} : done[u] = Paid(s)[u]
  BY <1>1
<1>3. caster \in Unit /\ caster.pend = Paid(s)[s].pend /\ caster.cc = Paid(s)[s].cc
  BY <1>1, PointsAssumption DEF Unit
<1>4. Held(caster) /\ Sighted(caster)
  BY <1>3, PaidShape DEF Held, Sighted
<1>5. done \in [Units -> Unit]
  BY <1>1, <1>3
<1>6. \A u \in Units \ {s} : Fit(done[u]) /\ (fighting => Awake(done[u]))
  BY <1>2, PaidShape DEF UnitsInv, Fit, CastEnds
<1>7. FinishCast(s, done)
  OBVIOUS
<1> HIDE DEF done, caster
<1> QED
  BY <1>2, <1>4, <1>5, <1>6, <1>7, FinishCastSteps

LEMMA PlainSteps ==
  ASSUME NEW s \in Units, UnitsInv, fighting \in BOOLEAN, CastEnds(s), FinishCast(s, Paid(s))
  PROVE  \E after : Stepped(after)
<1>1. \A u \in Units \ {s} : Fit(Paid(s)[u]) /\ (fighting => Awake(Paid(s)[u]))
  BY PaidShape DEF UnitsInv, Fit, CastEnds
<1> QED
  BY <1>1, PaidShape, FinishCastSteps

LEMMA SpendSteps ==
  ASSUME NEW s \in Units, UnitsInv, fighting \in BOOLEAN, CastSpendHp(s)
  PROVE  \E after : Stepped(after)
<1>1. PICK points \in 1 .. units[s].hp : FinishCast(s, [Paid(s) EXCEPT ![s].hp = points])
  BY DEF CastSpendHp
<1>2. units[s].hp \in 0 .. MaxHp
  BY DEF UnitsInv, Unit
<1>3. points \in 1 .. MaxHp
  BY <1>1, <1>2, PointsAssumption
<1> QED
  BY <1>1, <1>3, AloneSteps DEF CastSpendHp

LEMMA ReviveSteps ==
  ASSUME NEW s \in Units, UnitsInv, fighting \in BOOLEAN, CastRevive(s)
  PROVE  \E after : Stepped(after)
<1>1. CastEnds(s) /\ stop = Running
  BY DEF CastRevive, CastEnds
<1>2. CASE FinishCast(s, Paid(s))
  BY <1>1, <1>2, PlainSteps
<1>3. ASSUME NEW t \in Friends(s), NEW points \in 1 .. MaxHp, ~Alive(t),
             NEW x \in NextAct([units[t] EXCEPT !.hp = points, !.mp = MaxMp, !.cc = {}], fighting),
             FinishCast(s, [Paid(s) EXCEPT ![t] = x])
      PROVE  \E after : Stepped(after)
  <2> DEFINE risen == [units[t] EXCEPT !.hp = points, !.mp = MaxMp, !.cc = {}]
             done == [Paid(s) EXCEPT ![t] = x]
  <2>1. t \in Units /\ t # s /\ units[t] \in Unit
    BY <1>1, <1>3, PaidShape DEF Friends, Units, Alive, UnitsInv
  <2>2. units[t].hp = 0 /\ "abilityCastEnd" \notin units[t].pend
    BY <1>3, <2>1, PointsAssumption DEF Alive, UnitsInv, Standing, Unit
  <2>3. risen \in Unit /\ risen.pend = units[t].pend /\ risen.cc = {} /\ risen.hp = points
    <3>1. points \in 0 .. MaxHp /\ MaxMp \in 0 .. MaxMp /\ {} \in SUBSET Controls
      BY PointsAssumption
    <3> QED
      BY <2>1, <3>1 DEF Unit
  <2>4. Held(risen) /\ Standing(risen) /\ Sighted(risen)
    BY <2>1, <2>2, <2>3 DEF UnitsInv, Held, Standing, Sighted
  <2>5. x \in NextAct(risen, fighting)
    BY <1>3
  <2> HIDE DEF risen
  <2>6. Fit(x) /\ (fighting => Awake(x)) /\ x \in Unit
    BY <2>4, <2>5, NextActHeld DEF Fit, Held
  <2>7. done \in [Units -> Unit]
    BY <1>1, <2>6, PaidShape
  <2>8. done[s] = Paid(s)[s]
    BY <1>1, <2>1, PaidShape
  <2>9. \A u \in Units \ {s} : Fit(done[u]) /\ (fighting => Awake(done[u]))
    BY <1>1, <2>1, <2>6, PaidShape DEF UnitsInv, Fit
  <2>10. FinishCast(s, done)
    BY <1>3
  <2> HIDE DEF done
  <2> QED
    BY <1>1, <2>7, <2>8, <2>9, <2>10, PaidShape, FinishCastSteps
<1> QED
  BY <1>2, <1>3 DEF CastRevive

-----------------------------------------------------------------------------
(* Blows.                                                                  *)

LEMMA BlowsShape ==
  ASSUME NEW s \in Units, NEW struck \in SUBSET {t \in Foes(s) : Alive(t)},
         NEW h \in Blows(s, struck), UnitsInv
  PROVE  /\ struck \subseteq Units /\ s \notin struck
         /\ \A t \in struck : units[t].hp > 0
         /\ \A u \in struck \cup {s} :
              h[u] \in 0 .. MaxHp /\ Struck(h)[u] = [units[u] EXCEPT !.hp = h[u]]
         /\ \A u \in Units \ (struck \cup {s}) : Struck(h)[u] = units[u]
         /\ Struck(h) \in [Units -> Unit]
<1>1. struck \subseteq Units /\ s \notin struck
  BY UnitsAssumption DEF Foes, Units
<1>2. \A t \in struck : units[t].hp > 0
  BY DEF Alive
<1>3. h \in [struck \cup {s} -> 0 .. MaxHp] /\ DOMAIN h = struck \cup {s}
  BY DEF Blows
<1>4. \A u \in struck \cup {s} :
        /\ h[u] \in 0 .. MaxHp /\ Struck(h)[u] = [units[u] EXCEPT !.hp = h[u]]
        /\ [units[u] EXCEPT !.hp = h[u]] \in Unit
  BY <1>1, <1>3 DEF Struck, UnitsInv, Unit
<1>5. \A u \in Units \ (struck \cup {s}) : Struck(h)[u] = units[u] /\ units[u] \in Unit
  BY <1>3 DEF Struck, UnitsInv
<1>6. DOMAIN Struck(h) = Units /\ Struck(h) = [u \in Units |-> Struck(h)[u]]
  BY DEF Struck
<1>7. \A u \in Units : Struck(h)[u] \in Unit
  BY <1>4, <1>5
<1> QED
  BY <1>1, <1>2, <1>4, <1>5, <1>6, <1>7

LEMMA BlowsTimed ==
  ASSUME NEW s \in Units, NEW struck \in SUBSET {t \in Foes(s) : Alive(t)},
         NEW h \in Blows(s, struck), UnitsInv
  PROVE  \A v \in struck : Struck(h)[v] \in Unit /\ (Timed(units[v]) => Timed(Struck(h)[v]))
<1> SUFFICES ASSUME NEW v \in struck
             PROVE  Struck(h)[v] \in Unit /\ (Timed(units[v]) => Timed(Struck(h)[v]))
  OBVIOUS
<1>1. v \in Units /\ v \in struck \cup {s} /\ units[v].hp > 0 /\ Struck(h)[v] \in Unit
  BY BlowsShape
<1>2. h[v] \in 0 .. MaxHp /\ Struck(h)[v] = [units[v] EXCEPT !.hp = h[v]]
  <2>1. \A u \in struck \cup {s} :
          h[u] \in 0 .. MaxHp /\ Struck(h)[u] = [units[u] EXCEPT !.hp = h[u]]
    BY BlowsShape
  <2> QED
    BY <1>1, <2>1
<1>3. units[v] \in Unit
  BY <1>1 DEF UnitsInv
<1> QED
  BY <1>1, <1>2, <1>3 DEF Timed, Unit

LEMMA StruckHeld ==
  ASSUME NEW s \in Units, NEW struck \in SUBSET {t \in Foes(s) : Alive(t)},
         NEW h \in Blows(s, struck), UnitsInv, stop = Running, fighting,
         NEW u \in Units \ {s}
  PROVE  /\ Held(Struck(h)[u]) /\ Sighted(Struck(h)[u]) /\ Awake(Struck(h)[u])
         /\ u \notin struck => Fit(Struck(h)[u])
<1>1. Fit(units[u]) /\ Awake(units[u])
  BY DEF UnitsInv, Fit
<1>2. CASE u \in struck
  <2>1. h[u] \in 0 .. MaxHp /\ units[u].hp > 0 /\ Struck(h)[u] = [units[u] EXCEPT !.hp = h[u]]
    BY <1>2, BlowsShape
  <2> QED
    BY <1>1, <1>2, <2>1, HitHeld
<1>3. CASE u \notin struck
  <2>1. Struck(h)[u] = units[u]
    BY <1>3, BlowsShape
  <2> QED
    BY <1>1, <2>1 DEF Fit
<1> QED
  BY <1>2, <1>3

LEMMA HarmShape ==
  ASSUME NEW s \in Units, UnitsInv, fighting \in BOOLEAN, CastHarm(s)
  PROVE  \E done \in [Units -> Unit] :
           /\ FinishCast(s, done)
           /\ Held(done[s]) /\ Sighted(done[s])
           /\ Timed(units[s]) => Timed(done[s])
           /\ \A u \in Units \ {s} :
                Fit(done[u]) /\ (fighting => Awake(done[u])) /\ Spared(u, done[u])
<1>1. CastEnds(s) /\ stop = Running /\ fighting
  BY DEF CastHarm, CastEnds
<1> DEFINE harms == {"harm", "stun", "blind", "silence", "bleed"}
           hits(h) == [Struck(h) EXCEPT ![s].pend = Paid(s)[s].pend, ![s].mp = Paid(s)[s].mp]
           done(hit, left, struck) ==
             [u \in Units |-> IF u \in struck THEN Settled(left[u]) ELSE hit[u]]
<1>2. PICK effect \in Skills[s] \cap harms, struck \in (SUBSET {t \in Foes(s) : Alive(t)}) \ {{}} :
        \E h \in Blows(s, struck) :
          \E left \in [struck -> UNION {Marked(hits(h)[t], effect) : t \in struck}] :
            /\ \A t \in struck : left[t] \in Marked(hits(h)[t], effect)
            /\ FinishCast(s, done(hits(h), left, struck))
  BY DEF CastHarm
<1>3. PICK h \in Blows(s, struck) :
          \E left \in [struck -> UNION {Marked(hits(h)[t], effect) : t \in struck}] :
            /\ \A t \in struck : left[t] \in Marked(hits(h)[t], effect)
            /\ FinishCast(s, done(hits(h), left, struck))
  BY <1>2
<1>4. PICK left \in [struck -> UNION {Marked(hits(h)[t], effect) : t \in struck}] :
            /\ \A t \in struck : left[t] \in Marked(hits(h)[t], effect)
            /\ FinishCast(s, done(hits(h), left, struck))
  BY <1>3
<1> DEFINE hit == hits(h)
           all == done(hit, left, struck)
           caster == [Paid(s)[s] EXCEPT !.hp = h[s]]
<1>5. struck \subseteq Units /\ s \notin struck /\ Struck(h) \in [Units -> Unit]
      /\ \A v \in struck : Struck(h)[v] \in Unit /\ (Timed(units[v]) => Timed(Struck(h)[v]))
      /\ h[s] \in 0 .. MaxHp /\ Struck(h)[s] = [units[s] EXCEPT !.hp = h[s]]
  <2>1. struck \in SUBSET {t \in Foes(s) : Alive(t)} /\ h \in Blows(s, struck)
    BY <1>2, <1>3
  <2>2. s \in struck \cup {s}
    OBVIOUS
  <2> HIDE DEF harms, hits, done, hit, all, caster
  <2>3. struck \subseteq Units /\ s \notin struck /\ Struck(h) \in [Units -> Unit]
    BY <2>1, BlowsShape
  <2>4. h[s] \in 0 .. MaxHp /\ Struck(h)[s] = [units[s] EXCEPT !.hp = h[s]]
    BY <2>1, <2>2, BlowsShape
  <2>5. \A v \in struck : Struck(h)[v] \in Unit /\ (Timed(units[v]) => Timed(Struck(h)[v]))
    BY <2>1, BlowsTimed
  <2> QED
    BY <2>3, <2>4, <2>5
<1>6. units[s] \in Unit /\ Paid(s)[s] \in Unit
      /\ Paid(s)[s] = [units[s] EXCEPT !.pend = Paid(s)[s].pend, !.mp = Paid(s)[s].mp]
  <2>1. units \in [Units -> Unit]
    BY DEF UnitsInv
  <2>2. Paid(s)[s] = [units[s] EXCEPT !.pend = @ \ {"abilityCastEnd"}, !.mp = @ - Cost]
    BY <2>1 DEF Paid, Unit
  <2> QED
    BY <1>1, <2>1, <2>2, PaidShape DEF Unit
<1>7. hit[s] = caster /\ \A u \in Units \ {s} : hit[u] = Struck(h)[u]
  <2>1. \A u \in Units \ {s} : hit[u] = Struck(h)[u]
    BY <1>5
  <2>2. hit[s] = [Struck(h)[s] EXCEPT !.pend = Paid(s)[s].pend, !.mp = Paid(s)[s].mp]
    BY <1>5
  <2>3. caster = [Struck(h)[s] EXCEPT !.pend = Paid(s)[s].pend, !.mp = Paid(s)[s].mp]
    <3> DEFINE pend == Paid(s)[s].pend
               mp == Paid(s)[s].mp
    <3>1. Paid(s)[s] = [units[s] EXCEPT !.pend = pend, !.mp = mp]
      BY <1>6
    <3> HIDE DEF pend, mp
    <3>2. [[units[s] EXCEPT !.pend = pend, !.mp = mp] EXCEPT !.hp = h[s]]
          = [[units[s] EXCEPT !.hp = h[s]] EXCEPT !.pend = pend, !.mp = mp]
      BY <1>6 DEF Unit
    <3> QED
      BY <1>5, <3>1, <3>2 DEF pend, mp
  <2> QED
    BY <2>1, <2>2, <2>3
<1>8. caster \in Unit /\ Held(caster) /\ Sighted(caster)
  <2>1. caster \in Unit /\ caster.pend = Paid(s)[s].pend /\ caster.cc = Paid(s)[s].cc
        /\ caster.mp = Paid(s)[s].mp
    BY <1>5, <1>6 DEF Unit
  <2> QED
    BY <1>1, <2>1, PaidShape DEF Held, Sighted
<1>18. Timed(units[s]) => Timed(caster)
  BY <1>1, <1>5, <1>6, PaidShape DEF Timed, Unit
<1> HIDE DEF hit, caster
<1>9. \A u \in struck : Fit(Settled(left[u])) /\ Awake(Settled(left[u]))
  <2> SUFFICES ASSUME NEW u \in struck
               PROVE  Fit(Settled(left[u])) /\ Awake(Settled(left[u]))
    OBVIOUS
  <2>1. left[u] \in Marked(hit[u], effect)
    BY <1>4 DEF hit
  <2>2. Held(hit[u]) /\ Sighted(hit[u]) /\ Awake(hit[u])
    BY <1>1, <1>2, <1>3, <1>5, <1>7, StruckHeld
  <2>3. Held(left[u]) /\ Sighted(left[u]) /\ Awake(left[u])
    BY <1>2, <2>1, <2>2, MarkedHeld
  <2> QED
    BY <2>3, SettledFit
<1>10. \A u \in Units \ (struck \cup {s}) : Fit(hit[u]) /\ Awake(hit[u])
  BY <1>1, <1>2, <1>3, <1>7, StruckHeld
<1>11. \A u \in Units \ {s} : Fit(all[u]) /\ Awake(all[u])
  BY <1>9, <1>10
<1>12. all[s] = caster
  BY <1>5, <1>7
<1>13. all \in [Units -> Unit]
  BY <1>8, <1>11, <1>12 DEF Fit, Held
<1>14. FinishCast(s, all)
  BY <1>4 DEF hit
<1>15. \A u \in struck : Spared(u, all[u])
  <2> SUFFICES ASSUME NEW u \in struck
               PROVE  Spared(u, all[u])
    OBVIOUS
  <2>1. all[u] = Settled(left[u]) /\ units[u].hp > 0
    BY <1>2, <1>5 DEF Alive
  <2>2. left[u] \in Unit
    <3>1. left[u] \in Marked(hit[u], effect)
      BY <1>4 DEF hit
    <3>2. Held(hit[u]) /\ Sighted(hit[u]) /\ Awake(hit[u])
      BY <1>1, <1>2, <1>3, <1>5, <1>7, StruckHeld
    <3> QED
      BY <1>2, <3>1, <3>2, MarkedHeld DEF Held
  <2>3. Timed(units[u]) => Timed(left[u])
    <3>1. left[u] \in Marked(hit[u], effect)
      BY <1>4 DEF hit
    <3>2. hit[u] \in Unit /\ (Timed(units[u]) => Timed(hit[u]))
      BY <1>5, <1>7
    <3> QED
      BY <1>2, <3>1, <3>2, MarkedTimed
  <2> QED
    BY <2>1, <2>2, <2>3, SettledTimed DEF Spared
<1>16. \A u \in Units \ (struck \cup {s}) : all[u] = units[u]
  <2>1. \A u \in Units \ (struck \cup {s}) : Struck(h)[u] = units[u]
    BY <1>2, <1>3, BlowsShape
  <2> QED
    BY <1>7, <2>1
<1> HIDE DEF all
<1>17. \A u \in Units \ {s} : Spared(u, all[u])
  BY <1>15, <1>16 DEF Spared
<1> QED
  BY <1>8, <1>11, <1>12, <1>13, <1>14, <1>17, <1>18

LEMMA HarmSteps ==
  ASSUME NEW s \in Units, UnitsInv, fighting \in BOOLEAN, CastHarm(s)
  PROVE  \E after : Stepped(after)
<1>1. PICK done \in [Units -> Unit] :
        /\ FinishCast(s, done)
        /\ Held(done[s]) /\ Sighted(done[s])
        /\ \A u \in Units \ {s} :
             Fit(done[u]) /\ (fighting => Awake(done[u])) /\ Spared(u, done[u])
  BY HarmShape
<1> QED
  BY <1>1, FinishCastSteps

\* The attacker falls only to an answer, and keeps at most its next attack then.
Attacked(s, x) ==
  /\ x.hp = 0 => x.pend \subseteq {"autoAttack"}
  /\ units[s].hp > 0 /\ x.hp = 0 => Answered(s)
  /\ units[s].hp = 0 /\ x.hp > 0 => s \in Draining
  /\ units[s].hp > 0 /\ Timed(units[s]) => Timed(x)

LEMMA AttackShape ==
  ASSUME NEW s \in Units, UnitsInv, AutoAttack(s)
  PROVE  \E after : /\ Stepped(after) /\ Attacked(s, after[s])
                    /\ \A u \in Units \ {s} : Spared(u, after[u])
<1> DEFINE hits(h) == [Struck(h) EXCEPT ![s].pend = @ \ {"autoAttack"}]
           settle(hit, h) == [u \in Units |-> IF u \in DOMAIN h THEN Settled(hit[u]) ELSE units[u]]
           ends(after) ==
             \/ EndEncounter(after)
             \/ /\ ~EncounterEnds(after)
                /\ \E x \in NextAct(after[s], TRUE) : GoOn([after EXCEPT ![s] = x])
<1>1. stop = Running /\ fighting /\ "autoAttack" \in units[s].pend
  BY DEF AutoAttack
<1>2. PICK struck \in (SUBSET {t \in Foes(s) : Alive(t)}) \ {{}} :
        \E h \in Blows(s, struck) : ends(settle(hits(h), h))
  BY DEF AutoAttack
<1>3. PICK h \in Blows(s, struck) : ends(settle(hits(h), h))
  BY <1>2
<1> DEFINE hit == hits(h)
           after == settle(hit, h)
           attacker == [units[s] EXCEPT !.hp = h[s], !.pend = @ \ {"autoAttack"}]
<1>4. struck \subseteq Units /\ s \notin struck /\ Struck(h) \in [Units -> Unit]
      /\ h[s] \in 0 .. MaxHp /\ Struck(h)[s] = [units[s] EXCEPT !.hp = h[s]]
  BY <1>2, <1>3, BlowsShape
<1>5. units[s] \in Unit /\ Held(units[s])
  BY DEF UnitsInv
<1>6. hit[s] = attacker /\ \A u \in Units \ {s} : hit[u] = Struck(h)[u]
  BY <1>4, <1>5 DEF Unit
<1>7. Held(attacker) /\ Sighted(attacker)
  BY <1>1, <1>4, <1>5 DEF Held, Sighted, Unit
<1> HIDE DEF hit, attacker
<1>8. DOMAIN h = struck \cup {s}
  BY <1>3 DEF Blows
<1>9. /\ \A u \in struck \cup {s} : after[u] = Settled(hit[u])
      /\ \A u \in Units \ (struck \cup {s}) : after[u] = units[u]
  BY <1>4, <1>8
<1>10. \A u \in Units \ {s} : Fit(after[u]) /\ Awake(after[u])
  <2> HIDE DEF after
  <2>1. \A u \in struck : Fit(after[u]) /\ Awake(after[u])
    BY <1>1, <1>2, <1>3, <1>4, <1>6, <1>9, StruckHeld, SettledFit
  <2>2. \A u \in Units \ (struck \cup {s}) : Fit(after[u]) /\ Awake(after[u])
    BY <1>1, <1>9 DEF UnitsInv, Fit
  <2> QED
    BY <2>1, <2>2
<1>11. Fit(after[s])
  BY <1>6, <1>7, <1>9, SettledFit
<1>12. after \in [Units -> Unit] /\ DOMAIN after = Units
  BY <1>10, <1>11 DEF Fit, Held
<1>13. ends(after)
  BY <1>3 DEF hit
<1>14. \A u \in Units \ {s} : Spared(u, after[u])
  <2>1. \A u \in struck : /\ units[u].hp > 0 /\ hit[u] \in Unit
                          /\ after[u] = Settled(hit[u])
    BY <1>2, <1>4, <1>6, <1>9 DEF Alive
  <2>2. \A u \in struck : Timed(units[u]) => Timed(hit[u])
    <3>1. \A u \in struck : Timed(units[u]) => Timed(Struck(h)[u])
      BY <1>2, <1>3, BlowsTimed
    <3> QED
      BY <1>4, <1>6, <3>1
  <2>3. \A u \in Units \ (struck \cup {s}) : Spared(u, after[u])
    BY <1>9 DEF Spared
  <2> QED
    BY <2>1, <2>2, <2>3, SettledTimed DEF Spared
<1>15. Attacked(s, after[s])
  <2>1. attacker \in Unit /\ attacker.hp = h[s]
    BY <1>4, <1>5 DEF attacker, Unit
  <2>2. after[s] = Settled(attacker)
    BY <1>6, <1>9
  <2>3. after[s].hp = h[s] /\ (after[s].hp = 0 => after[s].pend = {})
    BY <2>1, <2>2 DEF Settled, Unit
  <2>4. /\ s \in Draining \/ h[s] <= units[s].hp
        /\ struck \cap (Thorny \cup Parrying) # {} \/ h[s] >= units[s].hp
    BY <1>3 DEF Blows
  <2>5. units[s].hp > 0 /\ h[s] = 0 => Answered(s)
    <3>1. units[s].hp \in Nat
      BY <1>5, PointsAssumption DEF Unit
    <3>2. struck \subseteq Foes(s)
      BY <1>2
    <3> QED
      BY <2>4, <3>1, <3>2 DEF Answered
  <2>6. units[s].hp = 0 /\ h[s] > 0 => s \in Draining
    BY <1>4, <2>4, PointsAssumption
  <2>7. units[s].hp > 0 /\ Timed(units[s]) => Timed(after[s])
    <3>1. units[s].hp > 0 /\ Timed(units[s]) => Timed(attacker)
      BY <1>4, <1>5 DEF attacker, Timed, Unit
    <3> QED
      BY <2>1, <2>2, <3>1, SettledTimed
  <2> QED
    BY <2>3, <2>5, <2>6, <2>7 DEF Attacked
<1> HIDE DEF after
<1>16. CASE EndEncounter(after)
  <2>1. Stepped(after)
    BY <1>10, <1>11, <1>12, <1>16 DEF Stepped
  <2> QED
    BY <2>1, <1>14, <1>15
<1>17. CASE /\ ~EncounterEnds(after)
            /\ \E x \in NextAct(after[s], TRUE) : GoOn([after EXCEPT ![s] = x])
  <2>1. PICK x \in NextAct(after[s], TRUE) : GoOn([after EXCEPT ![s] = x])
    BY <1>17
  <2>2. Fit(x) /\ Awake(x) /\ x.hp = after[s].hp
    BY <1>11, <2>1, NextActHeld DEF Fit
  <2> DEFINE next == [after EXCEPT ![s] = x]
  <2>3. next \in [Units -> Unit] /\ DOMAIN next = Units
    BY <1>12, <2>2 DEF Fit, Held
  <2>4. \A u \in Units : Fit(next[u]) /\ Awake(next[u]) /\ next[u].hp = after[u].hp
    BY <1>10, <1>12, <2>2
  <2>5. GoOn(next)
    BY <2>1
  <2> HIDE DEF next
  <2>6. ~EncounterEnds(next)
    BY <1>17, <2>4 DEF EncounterEnds, PartyWiped, EnemiesFell, Units
  <2>7. Stepped(next)
    BY <2>3, <2>4, <2>5, <2>6 DEF Stepped
  <2>8. Attacked(s, next[s])
    <3>1. after[s] \in Unit /\ next[s] = x /\ x.hp = after[s].hp
      BY <1>12, <2>2 DEF next
    <3>2. x.hp = 0 => x.pend \subseteq after[s].pend \cup {"autoAttack"}
      <4>1. TRUE \in BOOLEAN
        OBVIOUS
      <4>2. CanPay(after[s]) => after[s].hp > 0
        BY DEF CanPay
      <4>3. 0 > 0 <=> FALSE
        OBVIOUS
      <4> QED
        BY <2>1, <3>1, <4>1, <4>2, <4>3, NextActShape
    <3>3. Timed(after[s]) => Timed(x)
      <4>1. TRUE \in BOOLEAN
        OBVIOUS
      <4> QED
        BY <2>1, <3>1, <4>1, NextActTimed
    <3> QED
      BY <1>15, <3>1, <3>2, <3>3 DEF Attacked
  <2>9. \A u \in Units \ {s} : Spared(u, next[u])
    BY <1>12, <1>14 DEF next
  <2> QED
    BY <2>7, <2>8, <2>9
<1> QED
  BY <1>13, <1>16, <1>17

LEMMA AutoAttackSteps ==
  ASSUME NEW s \in Units, UnitsInv, AutoAttack(s)
  PROVE  \E after : Stepped(after)
BY AttackShape

(* CastBuff with the rest: every event of a unit has the shape.            *)
LEMMA UnitSteps ==
  ASSUME NEW u \in Units, UnitsInv, ~EncounterEnds(units), fighting \in BOOLEAN, UnitNext(u)
  PROVE  \E after : Stepped(after)
<1>1. CASE AutoAttack(u)
  BY <1>1, AutoAttackSteps
<1>2. CASE CastHarm(u)
  BY <1>2, HarmSteps
<1>3. CASE CastHeal(u)
  BY <1>3, HealSteps
<1>4. CASE CastRevive(u)
  BY <1>4, ReviveSteps
<1>5. CASE CastBuff(u)
  BY <1>5, PlainSteps DEF CastBuff
<1>6. CASE CastSpendHp(u)
  BY <1>6, SpendSteps
<1>7. CASE StunExpires(u) \/ BlindExpires(u)
  BY <1>7, ExpireSteps DEF StunExpires, BlindExpires
<1>8. CASE SilenceExpires(u)
  BY <1>8, SilenceSteps
<1>9. CASE AwaitCooldown(u)
  BY <1>9, AwaitSteps
<1>10. CASE DamageOverTime(u)
  BY <1>10, DamageOverTimeSteps
<1> QED
  BY <1>1, <1>2, <1>3, <1>4, <1>5, <1>6, <1>7, <1>8, <1>9, <1>10 DEF UnitNext

-----------------------------------------------------------------------------
(* The run as a whole.                                                     *)

RungInv ==
  /\ clock \subseteq ClockEvents
  /\ fighting \in BOOLEAN
  /\ level \in 0 .. Levels /\ cleared \in 0 .. Levels
  /\ stop \in {Running, "party_wipe", "complete", "time_cap"}
  /\ level = IF fighting THEN cleared + 1 ELSE cleared
  /\ (stop = "complete") <=> (cleared = Levels)
  /\ "combatStart" \in clock => level = 0
  /\ level = 0 => /\ clock = {"combatStart"} /\ stop = Running
                  /\ \A u \in Units : units[u].pend = {}
  /\ QueueCarriesOn

TrialInv == UnitsInv /\ RungInv /\ FallsAreNoticed

LEMMA InvInit == TrialInit => TrialInv
<1> SUFFICES ASSUME TrialInit
             PROVE  TrialInv
  OBVIOUS
<1>1. \A u \in Units : /\ units[u] \in Unit /\ units[u].pend = {} /\ units[u].cc = {}
  <2>1. \A n \in 0 .. MaxHp : [Fresh EXCEPT !.hp = n] \in Unit
                              /\ [Fresh EXCEPT !.hp = n].pend = {}
                              /\ [Fresh EXCEPT !.hp = n].cc = {}
    <3>1. MaxHp \in 0 .. MaxHp /\ MaxMp \in 0 .. MaxMp /\ FALSE \in BOOLEAN
          /\ {} \in SUBSET Controls /\ {} \in SUBSET Events
      BY PointsAssumption
    <3>2. Fresh \in Unit /\ Fresh.pend = {} /\ Fresh.cc = {}
      BY <3>1 DEF Fresh, Unit
    <3> QED
      BY <3>2 DEF Unit
  <2>2. MaxHp \in 0 .. MaxHp /\ 0 \in 0 .. MaxHp
    BY PointsAssumption
  <2> QED
    BY <2>1, <2>2 DEF TrialInit
<1>2. units \in [Units -> Unit]
  BY <1>1 DEF TrialInit
<1>3. UnitsInv
  BY <1>1, <1>2 DEF UnitsInv, Held, Standing, Sighted, Awake, Acts, TrialInit
<1>4. FallsAreNoticed
  BY DEF TrialInit, FallsAreNoticed
<1>5. QueueCarriesOn
  BY DEF TrialInit, QueueCarriesOn, Running
<1>6. RungInv
  <2>1. clock = {"combatStart"} /\ fighting = FALSE /\ level = 0 /\ cleared = 0 /\ stop = "none"
    BY DEF TrialInit, Running
  <2>2. clock \subseteq ClockEvents
    BY <2>1 DEF ClockEvents
  <2>3. 0 \in 0 .. Levels /\ 0 # Levels
    BY PointsAssumption
  <2> QED
    BY <1>1, <1>5, <2>1, <2>2, <2>3 DEF RungInv, Running
<1> QED
  BY <1>3, <1>4, <1>6 DEF TrialInv

(* The shape of a unit's event keeps the invariant.                        *)
LEMMA SteppedInv ==
  ASSUME NEW after, Stepped(after), TrialInv, level > 0, stop = Running
  PROVE  TrialInv'
<1> USE PointsAssumption
<1>1. after \in [Units -> Unit] /\ \A u \in Units : Fit(after[u])
  BY DEF Stepped
<1>2. RungInv /\ UnitsInv
  BY DEF TrialInv
<1>3. CASE (fighting => \A u \in Units : Awake(after[u])) /\ ~EncounterEnds(after) /\ GoOn(after)
  <2>1. UnitsInv'
    BY <1>1, <1>3 DEF UnitsInv, Fit, GoOn, ladder
  <2>2. FallsAreNoticed'
    BY <1>1, <1>2, <1>3 DEF FallsAreNoticed, EncounterEnds, PartyWiped, EnemiesFell, GoOn, ladder,
         Alive, Unit, Units, RungInv
  <2>3. RungInv'
    BY <1>2, <1>3 DEF RungInv, QueueCarriesOn, GoOn, ladder
  <2> QED
    BY <2>1, <2>2, <2>3 DEF TrialInv
<1>4. ASSUME NEW reason \in {"party_wipe", "complete", "time_cap"}, Stop(after, reason)
      PROVE  /\ UnitsInv' /\ clock' = {} /\ stop' = reason
             /\ \A u \in Units : units'[u].pend = {}
             /\ FallsAreNoticed'
  <2>1. \A u \in Units : units'[u] = [after[u] EXCEPT !.pend = {}]
    BY <1>4 DEF Stop
  <2>2. \A u \in Units : units'[u] \in Unit /\ units'[u].pend = {}
    BY <1>1, <2>1 DEF Unit
  <2>3. units' \in [Units -> Unit] /\ stop' = reason /\ reason # Running
    BY <1>4, <2>2 DEF Stop, Running
  <2>4. UnitsInv'
    BY <2>2, <2>3 DEF UnitsInv, Held, Standing, Acts
  <2> QED
    BY <1>4, <2>2, <2>3, <2>4 DEF Stop, FallsAreNoticed
<1>5. CASE PartyWipe(after)
  <2>1. Stop(after, "party_wipe") /\ UNCHANGED <<fighting, level, cleared>>
    BY <1>5 DEF PartyWipe
  <2>2. RungInv'
    BY <1>2, <1>4, <2>1 DEF RungInv, QueueCarriesOn, Running
  <2> QED
    BY <1>4, <2>1, <2>2 DEF TrialInv
<1>6. CASE TrialComplete(after)
  <2>1. /\ Stop(after, "complete") /\ fighting /\ level = Levels
        /\ cleared' = cleared + 1 /\ fighting' = FALSE /\ level' = level
    BY <1>6 DEF TrialComplete, EnemiesFell
  <2>2. RungInv'
    BY <1>2, <1>4, <2>1 DEF RungInv, QueueCarriesOn, Running
  <2> QED
    BY <1>4, <2>1, <2>2 DEF TrialInv
<1>7. CASE LevelCleared(after)
  <2>1. /\ fighting /\ level < Levels /\ clock' = clock \cup {"enemyRespawn"}
        /\ cleared' = cleared + 1 /\ fighting' = FALSE /\ UNCHANGED <<level, stop>>
    BY <1>7 DEF LevelCleared, EnemiesFell
  <2>2. \A u \in Units : units'[u] = [after[u] EXCEPT !.pend = @ \ {"autoAttack"}]
    BY <1>7 DEF LevelCleared
  <2>3. \A u \in Units : /\ units'[u] \in Unit /\ units'[u].pend = after[u].pend \ {"autoAttack"}
                         /\ units'[u].cc = after[u].cc /\ units'[u].hp = after[u].hp
                         /\ units'[u].mp = after[u].mp
    <3> SUFFICES ASSUME NEW u \in Units, NEW x, x = after[u], NEW y, y = units'[u]
                 PROVE  /\ y \in Unit /\ y.pend = x.pend \ {"autoAttack"}
                        /\ y.cc = x.cc /\ y.hp = x.hp /\ y.mp = x.mp
      OBVIOUS
    <3>1. y = [x EXCEPT !.pend = @ \ {"autoAttack"}] /\ x \in Unit
      BY <1>1, <2>2
    <3> QED
      BY <3>1 DEF Unit
  <2>4. units' \in [Units -> Unit]
    BY <1>7, <2>3 DEF LevelCleared
  <2>5. UnitsInv'
    <3>1. \A u \in Units : Held(units'[u]) /\ Standing(units'[u]) /\ Sighted(units'[u])
      BY <1>1, <2>3 DEF Fit, Held, Standing, Sighted, Acts
    <3> QED
      BY <2>1, <2>4, <3>1 DEF UnitsInv
  <2>6. FallsAreNoticed'
    BY <1>1, <1>7, <2>1, <2>3 DEF LevelCleared, FallsAreNoticed, PartyWiped, Alive, Unit, Units
  <2>7. RungInv'
    <3>1. cleared + 1 = level /\ level' = cleared' /\ level' \in 0 .. Levels /\ level' # Levels
      BY <1>2, <2>1 DEF RungInv
    <3>2. QueueCarriesOn'
      BY <2>1, <3>1 DEF QueueCarriesOn, Running
    <3>3. clock' \subseteq ClockEvents
      BY <1>2, <2>1 DEF RungInv, ClockEvents
    <3>4. "combatStart" \notin clock'
      BY <1>2, <2>1 DEF RungInv
    <3> QED
      BY <1>2, <2>1, <3>1, <3>2, <3>3, <3>4 DEF RungInv, Running
  <2> QED
    BY <2>5, <2>6, <2>7 DEF TrialInv
<1> QED
  BY <1>3, <1>5, <1>6, <1>7 DEF Stepped, EndEncounter

LEMMA StartInv ==
  ASSUME TrialInv, StartEncounter, stop = Running, ~fighting, level < Levels
  PROVE  TrialInv'
<1> USE PointsAssumption
<1>1. RungInv /\ UnitsInv
  BY DEF TrialInv
<1>2. /\ level' = level + 1 /\ fighting' = TRUE /\ clock' = {"regenTick", "enrageTick"}
      /\ cleared' = cleared /\ stop' = Running
  BY DEF StartEncounter
<1>3. units' \in [Units -> NextAct(Fresh, TRUE)]
  BY DEF StartEncounter
<1>4. Fresh \in Unit /\ Fresh.pend = {} /\ Fresh.cc = {} /\ Fresh.hp = MaxHp
  <2>1. MaxHp \in 0 .. MaxHp /\ MaxMp \in 0 .. MaxMp /\ FALSE \in BOOLEAN
        /\ {} \in SUBSET Controls /\ {} \in SUBSET Events
    OBVIOUS
  <2> QED
    BY <2>1 DEF Fresh, Unit
<1>5. Held(Fresh) /\ Standing(Fresh) /\ Sighted(Fresh)
  BY <1>4 DEF Held, Standing, Sighted, Acts
<1>6. \A u \in Units : Fit(units'[u]) /\ Awake(units'[u]) /\ units'[u].hp = MaxHp
  BY <1>3, <1>4, <1>5, NextActHeld DEF Fit
<1>7. units' \in [Units -> Unit]
  BY <1>3, <1>6 DEF Fit, Held
<1>8. UnitsInv'
  BY <1>6, <1>7 DEF UnitsInv, Fit
<1>9. FallsAreNoticed'
  BY <1>6, UnitsAssumption DEF FallsAreNoticed, Alive, Units
<1>10. QueueCarriesOn'
  BY <1>2 DEF QueueCarriesOn
<1>11. RungInv'
  <2>1. level = cleared /\ cleared # Levels /\ level + 1 \in 1 .. Levels
    BY <1>1 DEF RungInv
  <2>2. clock' \subseteq ClockEvents /\ "combatStart" \notin clock'
    BY <1>2 DEF ClockEvents
  <2> QED
    BY <1>1, <1>2, <1>10, <2>1, <2>2 DEF RungInv, Running
<1> QED
  BY <1>8, <1>9, <1>11 DEF TrialInv

LEMMA StartGuards ==
  ASSUME TrialInv, CombatStart \/ EnemyRespawn
  PROVE  StartEncounter /\ stop = Running /\ ~fighting /\ level < Levels
BY PointsAssumption DEF TrialInv, RungInv, QueueCarriesOn, CombatStart, EnemyRespawn

LEMMA UnitNextQueued ==
  ASSUME TrialInv, NEW u \in Units, UnitNext(u)
  PROVE  stop = Running /\ level > 0 /\ ~EncounterEnds(units)
<1>1. stop = Running /\ units[u].pend # {}
  BY DEF UnitNext, AutoAttack, CastHarm, CastHeal, CastRevive, CastBuff, CastSpendHp, CastEnds,
     StunExpires, BlindExpires, Expire, SilenceExpires, AwaitCooldown, DamageOverTime
<1>2. level > 0
  BY <1>1, PointsAssumption DEF TrialInv, RungInv
<1>3. ~EncounterEnds(units)
  BY <1>1, <1>2 DEF TrialInv, FallsAreNoticed, EncounterEnds, PartyWiped, EnemiesFell, Alive
<1> QED
  BY <1>1, <1>2, <1>3

LEMMA RegenInv ==
  ASSUME TrialInv, RegenTick
  PROVE  TrialInv'
<1> USE PointsAssumption
<1>1. RungInv /\ UnitsInv /\ FallsAreNoticed
  BY DEF TrialInv
<1>2. stop = Running /\ "regenTick" \in clock /\ UNCHANGED <<clock, ladder>>
  BY DEF RegenTick, GoOn
<1>3. \A u \in Units : units'[u] = (IF u \in Players /\ Alive(u) THEN Regained(units[u]) ELSE units[u])
  BY DEF RegenTick, GoOn
<1>4. ASSUME NEW x \in Unit, Held(x)
      PROVE  LET y == Regained(x)
             IN /\ Held(y) /\ (Standing(x) => Standing(y))
                /\ (Sighted(x) => Sighted(y) \/ x.hp = 0) /\ (Awake(x) => Awake(y) \/ x.hp = 0)
                /\ y.hp >= x.hp /\ y.hp \in 0 .. MaxHp
  <2> DEFINE y == Regained(x)
  <2>1. x.hp \in 0 .. MaxHp /\ x.mp \in 0 .. MaxMp
    BY DEF Unit
  <2>2. y.hp = (IF x.hp < MaxHp THEN x.hp + 1 ELSE x.hp) /\ y.mp = (IF x.mp < MaxMp THEN x.mp + 1 ELSE x.mp)
        /\ y.cc = x.cc /\ y.oom = x.oom
        /\ y.pend = (IF x.oom THEN x.pend \cup {"awaitCooldown"} ELSE x.pend)
    BY DEF Regained, Unit
  <2>3. y.hp \in 0 .. MaxHp /\ y.mp \in 0 .. MaxMp /\ y.hp >= x.hp /\ y.mp >= x.mp
    BY <2>1, <2>2
  <2>4. y \in Unit
    BY <2>2, <2>3 DEF Regained, Unit, Events
  <2> HIDE DEF y
  <2>5. Held(y)
    <3>1. y.pend \cap Acts = x.pend \cap Acts
      BY <2>2 DEF Acts
    <3>2. "abilityCastEnd" \in x.pend => y.mp >= Cost
      BY <1>4, <2>1, <2>3 DEF Held
    <3> QED
      BY <1>4, <2>2, <2>4, <3>1, <3>2 DEF Held, Acts
  <2>6. (Standing(x) => Standing(y)) /\ (Sighted(x) => Sighted(y) \/ x.hp = 0) /\ (Awake(x) => Awake(y) \/ x.hp = 0)
    BY <2>1, <2>2, <2>3 DEF Standing, Sighted, Awake
  <2> QED
    BY <2>3, <2>5, <2>6 DEF y
<1>5. \A u \in Units : /\ units[u] \in Unit /\ Held(units[u]) /\ Standing(units[u]) /\ Sighted(units[u])
                       /\ fighting => Awake(units[u])
  BY <1>1, <1>2 DEF UnitsInv
<1>6. \A u \in Units : /\ Held(units'[u]) /\ Standing(units'[u]) /\ Sighted(units'[u])
                       /\ fighting => Awake(units'[u])
                       /\ Alive(u) => units'[u].hp > 0
  <2> SUFFICES ASSUME NEW u \in Units
               PROVE  /\ Held(units'[u]) /\ Standing(units'[u]) /\ Sighted(units'[u])
                      /\ fighting => Awake(units'[u])
                      /\ Alive(u) => units'[u].hp > 0
    OBVIOUS
  <2>1. CASE units'[u] = units[u]
    BY <1>5, <2>1 DEF Alive
  <2>2. CASE Alive(u) /\ units'[u] = Regained(units[u])
    <3>1. units[u].hp \in 0 .. MaxHp /\ units[u].hp > 0
      BY <1>5, <2>2 DEF Alive, Unit
    <3> QED
      BY <1>4, <1>5, <2>2, <3>1
  <2> QED
    BY <1>3, <2>1, <2>2
<1>7. units' \in [Units -> Unit]
  <2>1. \A u \in Units : units'[u] \in Unit
    BY <1>6 DEF Held
  <2>2. units' = [u \in Units |-> IF u \in Players /\ Alive(u) THEN Regained(units[u]) ELSE units[u]]
    BY DEF RegenTick, GoOn
  <2> QED
    BY <2>1, <2>2
<1>8. UnitsInv'
  BY <1>2, <1>6, <1>7 DEF UnitsInv, ladder
<1>9. FallsAreNoticed'
  BY <1>1, <1>2, <1>6 DEF FallsAreNoticed, Alive, ladder, Units
<1>10. RungInv'
  BY <1>1, <1>2 DEF RungInv, QueueCarriesOn, ladder
<1> QED
  BY <1>8, <1>9, <1>10 DEF TrialInv

LEMMA TimeCapInv ==
  ASSUME TrialInv, TimeCap
  PROVE  TrialInv'
<1>1. RungInv /\ UnitsInv
  BY DEF TrialInv
<1>2. stop = Running /\ level > 0 /\ clock' = {} /\ stop' = "time_cap"
      /\ UNCHANGED <<fighting, level, cleared>>
  BY DEF TimeCap, Stop
<1>3. \A u \in Units : units'[u] = [units[u] EXCEPT !.pend = {}]
  BY DEF TimeCap, Stop
<1>4. \A u \in Units : units'[u] \in Unit /\ units'[u].pend = {}
  BY <1>1, <1>3 DEF UnitsInv, Unit
<1>5. units' \in [Units -> Unit]
  BY <1>4 DEF TimeCap, Stop
<1>6. UnitsInv'
  BY <1>2, <1>4, <1>5 DEF UnitsInv, Held, Standing, Acts, Running
<1>7. FallsAreNoticed'
  BY <1>2 DEF FallsAreNoticed, Running
<1>8. RungInv'
  BY <1>1, <1>2, <1>4, PointsAssumption DEF RungInv, QueueCarriesOn, Running
<1> QED
  BY <1>6, <1>7, <1>8 DEF TrialInv

LEMMA InvNext == TrialInv /\ [TrialNext]_vars => TrialInv'
<1> SUFFICES ASSUME TrialInv, [TrialNext]_vars
             PROVE  TrialInv'
  OBVIOUS
<1>1. CASE CombatStart \/ EnemyRespawn
  BY <1>1, StartGuards, StartInv
<1>2. CASE RegenTick
  BY <1>2, RegenInv
<1>3. CASE EnrageTick
  <2>1. UNCHANGED <<units, ladder>> /\ clock' = IF fighting THEN clock ELSE clock \ {"enrageTick"}
    BY <1>3 DEF EnrageTick
  <2>2. stop = Running /\ "enrageTick" \in clock
    BY <1>3 DEF EnrageTick
  <2>3. UnitsInv' /\ FallsAreNoticed'
    BY <2>1 DEF TrialInv, UnitsInv, FallsAreNoticed, Alive, ladder
  <2>4. RungInv'
    BY <2>1, <2>2, PointsAssumption DEF TrialInv, RungInv, QueueCarriesOn, ladder
  <2> QED
    BY <2>3, <2>4 DEF TrialInv
<1>4. CASE TimeCap
  BY <1>4, TimeCapInv
<1>5. ASSUME NEW u \in Units, UnitNext(u)
      PROVE  TrialInv'
  <2>1. \E after : Stepped(after)
    BY <1>5, UnitNextQueued, UnitSteps DEF TrialInv, RungInv
  <2> QED
    BY <1>5, <2>1, UnitNextQueued, SteppedInv
<1>6. CASE UNCHANGED vars
  BY <1>6 DEF vars, ladder, TrialInv, UnitsInv, RungInv, FallsAreNoticed, QueueCarriesOn, Alive
<1> QED
  BY <1>1, <1>2, <1>3, <1>4, <1>5, <1>6 DEF TrialNext

LEMMA InvHolds == TrialSpec => []TrialInv
<1> QED
  BY InvInit, InvNext, PTL DEF TrialSpec

-----------------------------------------------------------------------------
(* The variables keep their types: points stay within their maxima, and no *)
(* level beyond the last is counted.                                       *)
THEOREM TrialTypeOKHolds == TrialSpec => []TrialTypeOK
<1>1. TrialInv => TrialTypeOK
  BY DEF TrialInv, UnitsInv, RungInv, TrialTypeOK
<1> QED
  BY <1>1, InvHolds, PTL

(* No lost wake-up: in a fight every living unit has an event queued that  *)
(* makes it act or frees it to, for any party, enemies and abilities.      *)
THEOREM NobodyFrozenHolds == TrialSpec => []NobodyFrozen
<1>1. TrialInv => NobodyFrozen
  BY DEF TrialInv, UnitsInv, NobodyFrozen, Awake, Wakers, Alive
<1> QED
  BY <1>1, InvHolds, PTL

(* No unit swings and casts at once, and none does what a control forbids. *)
THEOREM HeldInCheckHolds == TrialSpec => []HeldInCheck
<1>1. TrialInv => HeldInCheck
  BY DEF TrialInv, UnitsInv, HeldInCheck, Held
<1> QED
  BY <1>1, InvHolds, PTL

(* The mana tested when a cast starts is still there when it ends.         *)
THEOREM CastIsPaidHolds == TrialSpec => []CastIsPaid
<1>1. TrialInv => CastIsPaid
  BY DEF TrialInv, UnitsInv, CastIsPaid, CanPay, Held, Standing
<1> QED
  BY <1>1, InvHolds, PTL

(* The event that fells the party or the last enemy ends the encounter.    *)
THEOREM FallsAreNoticedHolds == TrialSpec => []FallsAreNoticed
<1>1. TrialInv => FallsAreNoticed
  BY DEF TrialInv
<1> QED
  BY <1>1, InvHolds, PTL

(* The queue holds what carries the run on, and nothing once it stopped.   *)
THEOREM QueueCarriesOnHolds == TrialSpec => []QueueCarriesOn
<1>1. TrialInv => QueueCarriesOn
  BY DEF TrialInv, RungInv
<1> QED
  BY <1>1, InvHolds, PTL

(* The cleared levels are those that spawned but for the one being fought, *)
(* and the run is complete exactly when the last level is cleared.         *)
THEOREM LadderStandsHolds == TrialSpec => []LadderStands
<1>1. TrialInv => LadderStands
  BY PointsAssumption DEF TrialInv, RungInv, LadderStands, Ladder!LadderInv,
     Ladder!StopReasons, Ladder!Running, Running
<1> QED
  BY <1>1, InvHolds, PTL

-----------------------------------------------------------------------------
(* Every event is a step of the abstract ladder, or none.                  *)

LEMMA EndIsLadderStep ==
  ASSUME NEW after, EndEncounter(after), TrialInv, level > 0, stop = Running
  PROVE  Ladder!LadderNext
<1>1. CASE PartyWipe(after)
  BY <1>1 DEF PartyWipe, Stop, Ladder!LadderNext, Ladder!Wipe, Ladder!Running, Running
<1>2. CASE TrialComplete(after)
  BY <1>2 DEF TrialComplete, EnemiesFell, Stop, Ladder!LadderNext, Ladder!Clear,
     Ladder!Running, Running
<1>3. CASE LevelCleared(after)
  <2>1. level # Levels
    BY <1>3, PointsAssumption DEF LevelCleared, TrialInv, RungInv
  <2> QED
    BY <1>3, <2>1 DEF LevelCleared, EnemiesFell, Ladder!LadderNext, Ladder!Clear,
       Ladder!Running, Running
<1> QED
  BY <1>1, <1>2, <1>3 DEF EndEncounter

LEMMA StepIsLadderStep ==
  TrialInv /\ [TrialNext]_vars => [Ladder!LadderNext]_(Ladder!ladderVars)
<1> SUFFICES ASSUME TrialInv, [TrialNext]_vars
             PROVE  Ladder!LadderNext \/ UNCHANGED Ladder!ladderVars
  OBVIOUS
<1>1. CASE CombatStart \/ EnemyRespawn
  <2>1. StartEncounter /\ stop = Running /\ ~fighting /\ level < Levels
    BY <1>1, StartGuards
  <2>2. cleared = level
    BY <2>1 DEF TrialInv, RungInv
  <2>3. Ladder!Climb
    BY <2>1, <2>2 DEF StartEncounter, Ladder!Climb, Ladder!Running, Running
  <2> QED
    BY <2>3 DEF Ladder!LadderNext
<1>2. CASE RegenTick
  BY <1>2 DEF RegenTick, GoOn, ladder, Ladder!ladderVars
<1>3. CASE EnrageTick
  BY <1>3 DEF EnrageTick, ladder, Ladder!ladderVars
<1>4. CASE TimeCap
  BY <1>4 DEF TimeCap, Stop, Ladder!LadderNext, Ladder!TimeUp, Ladder!Running, Running
<1>5. ASSUME NEW u \in Units, UnitNext(u)
      PROVE  Ladder!LadderNext \/ UNCHANGED Ladder!ladderVars
  <2>1. PICK after : Stepped(after)
    BY <1>5, UnitNextQueued, UnitSteps DEF TrialInv, RungInv
  <2>2. CASE EndEncounter(after)
    BY <1>5, <2>2, UnitNextQueued, EndIsLadderStep
  <2>3. CASE GoOn(after)
    BY <2>3 DEF GoOn, ladder, Ladder!ladderVars
  <2> QED
    BY <2>1, <2>2, <2>3 DEF Stepped
<1>6. CASE UNCHANGED vars
  BY <1>6 DEF vars, Ladder!ladderVars
<1> QED
  BY <1>1, <1>2, <1>3, <1>4, <1>5, <1>6 DEF TrialNext

(* The engine implements the ladder: one level at a time, each cleared     *)
(* before the next, none above the last, and one stop for one reason.      *)
THEOREM EngineClimbsTheLadder == TrialSpec => LadderHolds
<1>1. TrialInit => Ladder!LadderInit
  BY DEF TrialInit, Ladder!LadderInit, Ladder!Running, Running
<1> QED
  BY <1>1, InvHolds, StepIsLadderStep, PTL DEF TrialSpec, LadderHolds, Ladder!LadderSpec

-----------------------------------------------------------------------------
(* The fallen. The second invariant, on top of the first: it needs no      *)
(* strengthening, for an event that finds its unit dead is an auto attack. *)

\* What a step makes of unit u: nothing but an answered attack stays queued for it
\* if it falls, it does not rise, and it is not controlled for ever.
Left(u) == IF Answered(u) THEN {"autoAttack"} ELSE {}
Buried(u) == units'[u].hp = 0 => units'[u].pend \subseteq Left(u)
Resting(u) == units[u].hp = 0 => units'[u].hp = 0
Timely(u) == Timed(units[u]) /\ stop' = Running => Timed(units'[u])

LEMMA Carried ==
  ASSUME NEW after \in [Units -> Unit], EndEncounter(after) \/ GoOn(after), NEW u \in Units
  PROVE  /\ units'[u].hp = after[u].hp /\ units'[u].pend \subseteq after[u].pend
         /\ Timed(after[u]) /\ stop' = Running => Timed(units'[u])
<1>1. after[u] \in Unit
  OBVIOUS
<1>2. CASE GoOn(after)
  BY <1>2 DEF GoOn
<1>3. CASE PartyWipe(after)
  BY <1>1, <1>3 DEF PartyWipe, Stop, Running, Unit
<1>4. CASE TrialComplete(after)
  BY <1>1, <1>4 DEF TrialComplete, Stop, Running, Unit
<1>5. CASE LevelCleared(after)
  BY <1>1, <1>5 DEF LevelCleared, Timed, Unit
<1> QED
  BY <1>2, <1>3, <1>4, <1>5 DEF EndEncounter

LEMMA FallenFacts ==
  ASSUME TrialInv, FallenAreCleared, NEW u \in Units
  PROVE  /\ units[u] \in Unit /\ units[u].hp \in Nat
         /\ units[u].hp = 0 => units[u].pend \subseteq Left(u)
         /\ \A e \in units[u].pend \ {"autoAttack"} : units[u].hp > 0
<1>1. units[u] \in Unit
  BY DEF TrialInv, UnitsInv
<1>2. units[u].hp \in Nat
  BY <1>1, PointsAssumption DEF Unit
<1> QED
  BY <1>1, <1>2 DEF FallenAreCleared, Alive, Left

LEMMA SparedStays ==
  ASSUME TrialInv, FallenAreCleared, NEW u \in Units, NEW x, Spared(u, x)
  PROVE  /\ x.hp = 0 => x.pend \subseteq Left(u)
         /\ units[u].hp = 0 => x.hp = 0
         /\ Timed(units[u]) => Timed(x)
BY FallenFacts DEF Spared

LEMMA CastBuries ==
  ASSUME TrialInv, FallenAreCleared, fighting \in BOOLEAN, NEW s \in Units, CastEnds(s),
         NEW done \in [Units -> Unit], FinishCast(s, done)
  PROVE  /\ units[s].hp > 0
         /\ \A u \in Units : u = s \/ Spared(u, done[u]) => Buried(u) /\ Resting(u)
         /\ \A u \in Units \ {s} : Spared(u, done[u]) => Timely(u)
         /\ (Timed(units[s]) => Timed(done[s])) => Timely(s)
         /\ \A u \in Units \ {s} : done[u].hp > 0 => Buried(u) /\ (Timed(done[u]) => Timely(u))
<1>1. PICK x \in NextAct(done[s], fighting) : Check([done EXCEPT ![s] = Settled(x)])
  BY DEF FinishCast
<1>2. units[s].hp > 0
  BY DEF CastEnds, CanPay
<1>3. done[s] \in Unit
  OBVIOUS
<1>4. x \in Unit /\ (Timed(done[s]) => Timed(x))
  BY <1>1, <1>3, NextActShape, NextActTimed
<1>5. /\ Settled(x) \in Unit /\ (Settled(x).hp = 0 => Settled(x).pend = {})
      /\ Timed(done[s]) => Timed(Settled(x))
  BY <1>4, SettledTimed
<1> DEFINE after == [done EXCEPT ![s] = Settled(x)]
<1>6. after \in [Units -> Unit] /\ after[s] = Settled(x)
      /\ \A u \in Units \ {s} : after[u] = done[u]
  BY <1>5
<1>7. EndEncounter(after) \/ GoOn(after)
  BY <1>1 DEF Check
<1> HIDE DEF after
<1>8. \A u \in Units :
        /\ units'[u].hp = after[u].hp /\ units'[u].pend \subseteq after[u].pend
        /\ Timed(after[u]) /\ stop' = Running => Timed(units'[u])
  BY <1>6, <1>7, Carried
<1>9. Buried(s) /\ Resting(s)
  BY <1>2, <1>5, <1>6, <1>8 DEF Buried, Resting
<1>10. ASSUME NEW u \in Units \ {s}, Spared(u, done[u])
       PROVE  Buried(u) /\ Resting(u) /\ Timely(u)
  <2>1. /\ units'[u].hp = done[u].hp /\ units'[u].pend \subseteq done[u].pend
        /\ Timed(done[u]) /\ stop' = Running => Timed(units'[u])
    BY <1>6, <1>8
  <2> QED
    BY <1>10, <2>1, SparedStays DEF Buried, Resting, Timely
<1>11. ASSUME NEW u \in Units \ {s}, done[u].hp > 0
       PROVE  Buried(u) /\ (Timed(done[u]) => Timely(u))
  <2>1. /\ units'[u].hp = done[u].hp
        /\ Timed(done[u]) /\ stop' = Running => Timed(units'[u])
    BY <1>6, <1>8
  <2> QED
    BY <1>11, <2>1 DEF Buried, Timely
<1>12. (Timed(units[s]) => Timed(done[s])) => Timely(s)
  BY <1>5, <1>6, <1>8 DEF Timely
<1> QED
  BY <1>2, <1>9, <1>10, <1>11, <1>12

LEMMA AloneBuries ==
  ASSUME TrialInv, FallenAreCleared, fighting \in BOOLEAN, NEW s \in Units, CastEnds(s),
         CastBuff(s) \/ CastSpendHp(s)
  PROVE  \A u \in Units : Buried(u) /\ Resting(u) /\ Timely(u)
<1>1. UnitsInv
  BY DEF TrialInv
<1>2. CASE CastBuff(s)
  <2>1. Paid(s) \in [Units -> Unit] /\ \A u \in Units \ {s} : Spared(u, Paid(s)[u])
    BY <1>1, PaidShape DEF Spared
  <2>3. Timed(units[s]) => Timed(Paid(s)[s])
    BY <1>1, PaidShape
  <2>2. FinishCast(s, Paid(s))
    BY <1>2 DEF CastBuff
  <2> QED
    BY <2>1, <2>2, <2>3, CastBuries
<1>3. CASE CastSpendHp(s)
  <2>1. PICK points \in 1 .. units[s].hp : FinishCast(s, [Paid(s) EXCEPT ![s].hp = points])
    BY <1>3 DEF CastSpendHp
  <2> DEFINE done == [Paid(s) EXCEPT ![s].hp = points]
  <2>2. points \in 0 .. MaxHp
    BY <1>1, <2>1, PointsAssumption DEF UnitsInv, Unit
  <2>3. done \in [Units -> Unit] /\ \A u \in Units \ {s} : Spared(u, done[u])
    BY <1>1, <2>2, PaidShape DEF Spared, Unit
  <2>4. Timed(units[s]) => Timed(done[s])
    BY <1>1, <2>2, PaidShape DEF Timed, Unit
  <2>5. FinishCast(s, done)
    BY <2>1
  <2> HIDE DEF done
  <2> QED
    BY <2>3, <2>4, <2>5, CastBuries
<1> QED
  BY <1>2, <1>3

LEMMA HealBuries ==
  ASSUME TrialInv, FallenAreCleared, fighting \in BOOLEAN, NEW s \in Units, CastHeal(s)
  PROVE  \A u \in Units : Buried(u) /\ Resting(u) /\ Timely(u)
<1>1. UnitsInv /\ CastEnds(s)
  BY DEF TrialInv, CastHeal
<1>2. PICK friends \in SUBSET {t \in Friends(s) : Alive(t)} :
        \E h \in [friends -> 1 .. MaxHp] :
          FinishCast(s, [u \in Units |-> IF u \in friends
                                         THEN [Paid(s)[u] EXCEPT !.hp = h[u]] ELSE Paid(s)[u]])
  BY DEF CastHeal
<1>3. PICK h \in [friends -> 1 .. MaxHp] :
          FinishCast(s, [u \in Units |-> IF u \in friends
                                         THEN [Paid(s)[u] EXCEPT !.hp = h[u]] ELSE Paid(s)[u]])
  BY <1>2
<1> DEFINE done == [u \in Units |-> IF u \in friends
                                    THEN [Paid(s)[u] EXCEPT !.hp = h[u]] ELSE Paid(s)[u]]
<1>4. \A u \in friends : u \in Units /\ units[u].hp > 0 /\ h[u] \in 1 .. MaxHp
  BY <1>2, <1>3 DEF Friends, Alive, Units
<1>5. \A x \in Unit, n \in 1 .. MaxHp :
        /\ [x EXCEPT !.hp = n] \in Unit /\ [x EXCEPT !.hp = n].hp # 0
        /\ Timed(x) /\ x.hp > 0 => Timed([x EXCEPT !.hp = n])
  BY PointsAssumption DEF Timed, Unit
<1>6. done \in [Units -> Unit]
  BY <1>1, <1>4, <1>5, PaidShape
<1>7. \A u \in Units \ {s} : Spared(u, done[u])
  BY <1>1, <1>4, <1>5, PaidShape DEF Spared
<1>8. Timed(units[s]) => Timed(done[s])
  BY <1>1, <1>4, <1>5, PaidShape
<1>9. FinishCast(s, done)
  BY <1>3
<1> HIDE DEF done
<1> QED
  BY <1>1, <1>6, <1>7, <1>8, <1>9, CastBuries

LEMMA ReviveBuries ==
  ASSUME TrialInv, FallenAreCleared, fighting \in BOOLEAN, NEW s \in Units, CastRevive(s)
  PROVE  \A u \in Units : Buried(u) /\ Timely(u) /\ (u \in Friends(s) \/ Resting(u))
<1>1. UnitsInv /\ CastEnds(s)
  BY DEF TrialInv, CastRevive
<1>2. CASE FinishCast(s, Paid(s))
  <2>1. Paid(s) \in [Units -> Unit] /\ \A u \in Units \ {s} : Spared(u, Paid(s)[u])
    BY <1>1, PaidShape DEF Spared
  <2>2. Timed(units[s]) => Timed(Paid(s)[s])
    BY <1>1, PaidShape
  <2> QED
    BY <1>1, <1>2, <2>1, <2>2, CastBuries
<1>3. ASSUME NEW t \in Friends(s), NEW points \in 1 .. MaxHp, ~Alive(t),
             NEW x \in NextAct([units[t] EXCEPT !.hp = points, !.mp = MaxMp, !.cc = {}], fighting),
             FinishCast(s, [Paid(s) EXCEPT ![t] = x])
      PROVE  \A u \in Units : Buried(u) /\ Timely(u) /\ (u \in Friends(s) \/ Resting(u))
  <2> DEFINE done == [Paid(s) EXCEPT ![t] = x]
             risen == [units[t] EXCEPT !.hp = points, !.mp = MaxMp, !.cc = {}]
  <2>1. t \in Units /\ t # s /\ units[t] \in Unit
    BY <1>1, <1>3, PaidShape DEF Friends, Units, Alive, UnitsInv
  <2>2. risen \in Unit /\ risen.hp = points /\ points > 0 /\ risen.cc = {}
    <3>1. points \in 0 .. MaxHp /\ points > 0 /\ MaxMp \in 0 .. MaxMp /\ {} \in SUBSET Controls
      BY PointsAssumption
    <3> QED
      BY <2>1, <3>1 DEF Unit
  <2>3. x \in NextAct(risen, fighting)
    BY <1>3
  <2> HIDE DEF risen
  <2>4. x \in Unit /\ x.hp > 0 /\ Timed(x)
    BY <2>2, <2>3, NextActShape DEF Timed
  <2>5. /\ done \in [Units -> Unit] /\ done[t].hp > 0 /\ Timed(done[t])
        /\ Timed(units[s]) => Timed(done[s])
    BY <1>1, <2>1, <2>4, PaidShape
  <2>6. \A u \in Units \ {s, t} : Spared(u, done[u])
    BY <1>1, PaidShape DEF Spared
  <2>7. FinishCast(s, done)
    BY <1>3
  <2> HIDE DEF done
  <2>8. \A u \in Units \ {t} : Buried(u) /\ Resting(u) /\ Timely(u)
    BY <1>1, <2>5, <2>6, <2>7, CastBuries
  <2>9. Buried(t) /\ Timely(t)
    BY <1>1, <2>1, <2>5, <2>7, CastBuries
  <2> QED
    BY <1>3, <2>8, <2>9
<1> QED
  BY <1>2, <1>3 DEF CastRevive

LEMMA HarmBuries ==
  ASSUME TrialInv, FallenAreCleared, fighting \in BOOLEAN, NEW s \in Units, CastHarm(s)
  PROVE  \A u \in Units : Buried(u) /\ Resting(u) /\ Timely(u)
<1>1. UnitsInv /\ CastEnds(s)
  BY DEF TrialInv, CastHarm
<1>2. PICK done \in [Units -> Unit] :
        /\ FinishCast(s, done)
        /\ Held(done[s]) /\ Sighted(done[s])
        /\ Timed(units[s]) => Timed(done[s])
        /\ \A u \in Units \ {s} :
             Fit(done[u]) /\ (fighting => Awake(done[u])) /\ Spared(u, done[u])
  BY <1>1, HarmShape
<1> QED
  BY <1>1, <1>2, CastBuries

LEMMA AttackBuries ==
  ASSUME TrialInv, FallenAreCleared, NEW s \in Units, AutoAttack(s)
  PROVE  \A u \in Units :
           /\ Buried(u)
           /\ (Resting(u) /\ Timely(u)) \/ (u = s /\ s \in Draining /\ Answered(s))
<1>1. UnitsInv
  BY DEF TrialInv
<1>2. PICK after : /\ Stepped(after) /\ Attacked(s, after[s])
                   /\ \A u \in Units \ {s} : Spared(u, after[u])
  BY <1>1, AttackShape
<1>3. after \in [Units -> Unit] /\ (EndEncounter(after) \/ GoOn(after))
  BY <1>2 DEF Stepped
<1>4. \A u \in Units :
        /\ units'[u].hp = after[u].hp /\ units'[u].pend \subseteq after[u].pend
        /\ Timed(after[u]) /\ stop' = Running => Timed(units'[u])
  BY <1>3, Carried
<1>5. \A u \in Units \ {s} : Buried(u) /\ Resting(u) /\ Timely(u)
  BY <1>2, <1>4, SparedStays DEF Buried, Resting, Timely
<1>6. "autoAttack" \in units[s].pend
  BY DEF AutoAttack
<1>7. units[s].hp = 0 => Answered(s)
  BY <1>6, FallenFacts DEF Left
<1>8. after[s].hp \in Nat /\ units[s].hp \in Nat
  BY <1>3, FallenFacts, PointsAssumption DEF Unit
<1>9. Buried(s)
  BY <1>2, <1>4, <1>7, <1>8 DEF Attacked, Buried, Left
<1>10. (Resting(s) /\ Timely(s)) \/ (s \in Draining /\ Answered(s))
  <2>1. units[s].hp = 0 /\ after[s].hp = 0 => Timed(after[s])
    BY DEF Timed
  <2> QED
    BY <1>2, <1>4, <1>7, <1>8, <2>1 DEF Attacked, Resting, Timely
<1> QED
  BY <1>5, <1>9, <1>10

\* Controls that end, cooldowns and bleeding find their unit alive.
LEMMA OwnEventBuries ==
  ASSUME TrialInv, FallenAreCleared, fighting \in BOOLEAN, NEW s \in Units,
         \/ StunExpires(s) \/ BlindExpires(s) \/ SilenceExpires(s)
         \/ AwaitCooldown(s) \/ DamageOverTime(s)
  PROVE  \A u \in Units : Buried(u) /\ Resting(u) /\ Timely(u)
<1>1. units \in [Units -> Unit] /\ units[s] \in Unit
  BY DEF TrialInv, UnitsInv
<1>2. units[s].hp > 0
  <2>1. \E e \in units[s].pend : e # "autoAttack"
    BY DEF StunExpires, BlindExpires, Expire, SilenceExpires, AwaitCooldown, DamageOverTime
  <2> QED
    BY <2>1, FallenFacts
<1>3. \E x \in Unit : /\ x.hp = 0 => x.pend = {}
                      /\ Timed(units[s]) => Timed(x)
                      /\ LET after == [units EXCEPT ![s] = x]
                         IN EndEncounter(after) \/ GoOn(after)
  <2>1. ASSUME NEW y \in Unit, y.hp = units[s].hp, NEW x \in NextAct(y, fighting)
        PROVE  x \in Unit /\ x.hp # 0 /\ (Timed(y) => Timed(x))
    BY <1>2, <2>1, NextActShape, NextActTimed
  <2>2. ASSUME NEW event, NEW control, Expire(s, event, control),
               \/ event = "stunExpiration" /\ control = "stunned"
               \/ event = "blindExpiration" /\ control = "blinded"
        PROVE  \E x \in Unit : /\ x.hp # 0 /\ (Timed(units[s]) => Timed(x))
                               /\ GoOn([units EXCEPT ![s] = x])
    <3> DEFINE y == [Without(s, event) EXCEPT !.cc = @ \ {control}]
    <3>1. y \in Unit /\ y.hp = units[s].hp /\ (Timed(units[s]) => Timed(y))
      BY <1>1, <2>2 DEF Without, Timed, Unit
    <3>2. PICK x \in NextAct(y, fighting) : GoOn([units EXCEPT ![s] = x])
      BY <2>2 DEF Expire
    <3> HIDE DEF y
    <3> QED
      BY <2>1, <3>1, <3>2
  <2>3. CASE StunExpires(s) \/ BlindExpires(s)
    BY <2>2, <2>3 DEF StunExpires, BlindExpires
  <2>4. CASE SilenceExpires(s)
    <3> DEFINE y == [Without(s, "silenceExpiration") EXCEPT !.cc = @ \ {"silenced"}]
    <3>1. y \in Unit /\ y.hp = units[s].hp /\ (Timed(units[s]) => Timed(y))
      BY <1>1 DEF Without, Timed, Unit
    <3>2. GoOn([units EXCEPT ![s] = y])
      BY <2>4 DEF SilenceExpires
    <3> HIDE DEF y
    <3>3. y.hp = 0 => y.pend = {}
      BY <1>2, <3>1
    <3> QED
      BY <3>1, <3>2, <3>3
  <2>5. CASE AwaitCooldown(s)
    <3>1. PICK y \in {units[s], Without(s, "awaitCooldown")} :
            \E x \in NextAct(y, fighting) : GoOn([units EXCEPT ![s] = x])
      BY <2>5 DEF AwaitCooldown
    <3>2. y \in Unit /\ y.hp = units[s].hp /\ (Timed(units[s]) => Timed(y))
      BY <1>1, <3>1 DEF Without, Timed, Unit
    <3> QED
      BY <2>1, <3>1, <3>2
  <2>6. CASE DamageOverTime(s)
    <3>1. PICK y \in {units[s], Without(s, "damageOverTime")}, points \in 0 .. units[s].hp :
            Check([units EXCEPT ![s] = Settled([y EXCEPT !.hp = points])])
      BY <2>6 DEF DamageOverTime
    <3> DEFINE z == [y EXCEPT !.hp = points]
    <3>2. points \in 0 .. MaxHp
      BY <1>1, <3>1, PointsAssumption DEF Unit
    <3>3. z \in Unit /\ (Timed(units[s]) => Timed(z))
      BY <1>1, <1>2, <3>1, <3>2 DEF Without, Timed, Unit
    <3>4. Check([units EXCEPT ![s] = Settled(z)])
      BY <3>1
    <3> HIDE DEF z
    <3>5. Settled(z) \in Unit /\ (Settled(z).hp = 0 => Settled(z).pend = {})
          /\ (Timed(units[s]) => Timed(Settled(z)))
      BY <3>3, SettledTimed
    <3> QED
      BY <3>4, <3>5 DEF Check
  <2> QED
    BY <2>3, <2>4, <2>5, <2>6
<1>4. PICK x \in Unit : /\ x.hp = 0 => x.pend = {}
                        /\ Timed(units[s]) => Timed(x)
                        /\ LET after == [units EXCEPT ![s] = x]
                           IN EndEncounter(after) \/ GoOn(after)
  BY <1>3
<1> DEFINE after == [units EXCEPT ![s] = x]
<1>5. /\ after \in [Units -> Unit] /\ after[s] = x
      /\ \A u \in Units \ {s} : after[u] = units[u]
      /\ EndEncounter(after) \/ GoOn(after)
  BY <1>1, <1>4
<1> HIDE DEF after
<1>6. \A u \in Units :
        /\ units'[u].hp = after[u].hp /\ units'[u].pend \subseteq after[u].pend
        /\ Timed(after[u]) /\ stop' = Running => Timed(units'[u])
  BY <1>5, Carried
<1>7. \A u \in Units : Spared(u, after[u])
  BY <1>2, <1>4, <1>5 DEF Spared
<1> QED
  BY <1>6, <1>7, SparedStays DEF Buried, Resting, Timely

LEMMA UnitBuries ==
  ASSUME TrialInv, FallenAreCleared, NEW s \in Units, UnitNext(s)
  PROVE  \A u \in Units :
           /\ Buried(u)
           /\ \/ Resting(u) /\ Timely(u)
              \/ u \in Friends(s) /\ CastRevive(s) /\ Timely(u)
              \/ u = s /\ s \in Draining /\ Answered(s) /\ AutoAttack(s)
<1>1. fighting \in BOOLEAN
  BY DEF TrialInv, RungInv
<1>2. CASE AutoAttack(s)
  BY <1>2, AttackBuries
<1>3. CASE CastHarm(s)
  BY <1>1, <1>3, HarmBuries
<1>4. CASE CastHeal(s)
  BY <1>1, <1>4, HealBuries
<1>5. CASE CastRevive(s)
  BY <1>1, <1>5, ReviveBuries
<1>6. CASE CastBuff(s) \/ CastSpendHp(s)
  BY <1>1, <1>6, AloneBuries DEF CastBuff, CastSpendHp
<1>7. CASE StunExpires(s) \/ BlindExpires(s) \/ SilenceExpires(s)
           \/ AwaitCooldown(s) \/ DamageOverTime(s)
  BY <1>1, <1>7, OwnEventBuries
<1> QED
  BY <1>2, <1>3, <1>4, <1>5, <1>6, <1>7 DEF UnitNext

LEMMA TickBuries ==
  ASSUME TrialInv, FallenAreCleared,
         RegenTick \/ EnrageTick \/ TimeCap \/ UNCHANGED vars
  PROVE  \A u \in Units : Buried(u) /\ Resting(u) /\ Timely(u)
<1> SUFFICES ASSUME NEW u \in Units
             PROVE  Buried(u) /\ Resting(u) /\ Timely(u)
  OBVIOUS
<1>1. /\ units[u] \in Unit /\ units[u].hp \in Nat
      /\ units[u].hp = 0 => units[u].pend \subseteq Left(u)
  BY FallenFacts
<1>2. CASE units'[u] = units[u]
  BY <1>1, <1>2 DEF Buried, Resting, Timely
<1>3. CASE RegenTick
  <2>1. units'[u] = (IF u \in Players /\ Alive(u) THEN Regained(units[u]) ELSE units[u])
    BY <1>3 DEF RegenTick, GoOn
  <2>2. CASE Alive(u) /\ units'[u] = Regained(units[u])
    <3>1. units'[u].hp = (IF units[u].hp < MaxHp THEN units[u].hp + 1 ELSE units[u].hp)
      BY <1>1, <2>2 DEF Regained, Unit
    <3>2. units[u].hp > 0
      BY <2>2 DEF Alive
    <3>3. units'[u].hp # 0
      BY <1>1, <3>1, <3>2
    <3>4. Timed(units[u]) => Timed(units'[u])
      BY <1>1, <2>2, <3>2 DEF Regained, Timed, Unit
    <3> QED
      BY <3>2, <3>3, <3>4 DEF Buried, Resting, Timely
  <2> QED
    BY <1>2, <2>1, <2>2
<1>4. CASE TimeCap
  <2>1. units'[u] = [units[u] EXCEPT !.pend = {}]
    BY <1>4 DEF TimeCap, Stop
  <2>2. stop' # Running
    BY <1>4 DEF TimeCap, Stop, Running
  <2> QED
    BY <1>1, <2>1, <2>2 DEF Buried, Resting, Timely, Unit
<1>5. CASE EnrageTick \/ UNCHANGED vars
  <2>1. units'[u] = units[u]
    BY <1>5 DEF EnrageTick, vars
  <2> QED
    BY <1>2, <2>1
<1> QED
  BY <1>3, <1>4, <1>5

LEMMA StartBuries ==
  ASSUME CombatStart \/ EnemyRespawn
  PROVE  \A u \in Units : Buried(u) /\ Timely(u)
<1>1. units' \in [Units -> NextAct(Fresh, TRUE)]
  BY DEF CombatStart, EnemyRespawn, StartEncounter
<1>2. Fresh \in Unit /\ Fresh.hp = MaxHp /\ MaxHp # 0 /\ TRUE \in BOOLEAN
  BY PointsAssumption DEF Fresh, Unit
<1>3. \A u \in Units : units'[u] \in NextAct(Fresh, TRUE)
  BY <1>1
<1>4. \A u \in Units : units'[u].hp = MaxHp /\ units'[u].cc = {}
  BY <1>2, <1>3, NextActShape DEF Fresh
<1> QED
  BY <1>2, <1>4 DEF Buried, Timely, Timed

LEMMA FallenNext ==
  TrialInv /\ TrialInv' /\ FallenAreCleared /\ [TrialNext]_vars => FallenAreCleared'
<1> SUFFICES ASSUME TrialInv, TrialInv', FallenAreCleared, [TrialNext]_vars
             PROVE  FallenAreCleared'
  OBVIOUS
<1>1. \A u \in Units : Buried(u)
  <2>1. CASE CombatStart \/ EnemyRespawn
    BY <2>1, StartBuries
  <2>2. CASE RegenTick \/ EnrageTick \/ TimeCap \/ UNCHANGED vars
    BY <2>2, TickBuries
  <2>3. ASSUME NEW s \in Units, UnitNext(s)
        PROVE  \A u \in Units : Buried(u)
    BY <2>3, UnitBuries
  <2> QED
    BY <2>1, <2>2, <2>3 DEF TrialNext
<1>2. \A u \in Units : units'[u].hp \in Nat
  BY PointsAssumption DEF TrialInv, UnitsInv, Unit
<1> QED
  BY <1>1, <1>2 DEF FallenAreCleared, Alive, Buried, Left, Answered

LEMMA FallenInit == TrialInit => FallenAreCleared
BY DEF TrialInit, FallenAreCleared, Fresh

(* Nothing but an answered auto attack is left queued for a fallen unit.   *)
THEOREM FallenAreClearedHolds == TrialSpec => []FallenAreCleared
BY FallenInit, FallenNext, InvHolds, PTL DEF TrialSpec

\* Units that an answer may fell and that drain may stand up again as they
\* were; no other unit is ever stunned or silenced without an end.
Undying(u) == Answered(u) /\ u \in Draining
TimedInv == stop = Running => \A u \in Units : Undying(u) \/ Timed(units[u])

LEMMA TimedNext ==
  TrialInv /\ FallenAreCleared /\ TimedInv /\ [TrialNext]_vars => TimedInv'
<1> SUFFICES ASSUME TrialInv, FallenAreCleared, TimedInv, [TrialNext]_vars
             PROVE  TimedInv'
  OBVIOUS
<1>1. \A u \in Units : Undying(u) \/ Timely(u)
  <2>1. CASE CombatStart \/ EnemyRespawn
    BY <2>1, StartBuries
  <2>2. CASE RegenTick \/ EnrageTick \/ TimeCap \/ UNCHANGED vars
    BY <2>2, TickBuries
  <2>3. ASSUME NEW s \in Units, UnitNext(s)
        PROVE  \A u \in Units : Undying(u) \/ Timely(u)
    BY <2>3, UnitBuries DEF Undying
  <2> QED
    BY <2>1, <2>2, <2>3 DEF TrialNext
<1>2. stop' = Running => stop = Running
  <2>1. CASE UNCHANGED vars
    BY <2>1 DEF vars
  <2>2. CASE TrialNext
    BY <2>2, UnitNextQueued DEF TrialNext, CombatStart, EnemyRespawn, RegenTick, EnrageTick, TimeCap
  <2> QED
    BY <2>1, <2>2
<1> QED
  BY <1>1, <1>2 DEF TimedInv, Timely, Timed, Undying, Answered

(* Every stun, blinding and silence of a living unit has its end queued,   *)
(* through new controls, blows, revivals and levels; only one that stood   *)
(* up again by what it drained may keep a stun or a silence.               *)
THEOREM ControlsEndHolds == TrialSpec => []ControlsEnd
<1>1. TrialInit => TimedInv
  BY DEF TrialInit, TimedInv, Timed, Fresh
<1>2. TrialSpec => []TimedInv
  BY <1>1, TimedNext, InvHolds, FallenAreClearedHolds, PTL DEF TrialSpec
<1>3. TrialInv /\ TimedInv => ControlsEnd
  BY DEF TrialInv, UnitsInv, TimedInv, Timed, Undying, Sighted, ControlsEnd, Alive
<1> QED
  BY <1>2, <1>3, InvHolds, PTL

(* The dead rise at a new level, by a friend's revival, or by the points   *)
(* that an attacker felled by an answer drains, and never otherwise.       *)
THEOREM DeadStayDeadHolds == TrialSpec => DeadStayDead
<1>1. TrialInv /\ FallenAreCleared /\ [TrialNext]_vars => [NobodyRises]_vars
  <2> SUFFICES ASSUME TrialInv, FallenAreCleared, [TrialNext]_vars,
                      NEW u \in Units, ~Alive(u), units'[u].hp > 0
               PROVE  \/ CombatStart \/ EnemyRespawn \/ \E s \in Friends(u) : CastRevive(s)
                      \/ u \in Draining /\ Answered(u) /\ AutoAttack(u)
    BY DEF NobodyRises
  <2>1. units[u].hp = 0 /\ ~Resting(u)
    BY FallenFacts DEF Alive, Resting
  <2>2. CASE RegenTick \/ EnrageTick \/ TimeCap \/ UNCHANGED vars
    BY <2>1, <2>2, TickBuries
  <2>3. ASSUME NEW s \in Units, UnitNext(s)
        PROVE  \/ \E r \in Friends(u) : CastRevive(r)
               \/ u \in Draining /\ Answered(u) /\ AutoAttack(u)
    <3>1. u \in Friends(s) => s \in Friends(u)
      BY UnitsAssumption DEF Friends, Units
    <3> QED
      BY <2>1, <2>3, <3>1, UnitBuries
  <2> QED
    BY <2>2, <2>3 DEF TrialNext
<1> QED
  BY <1>1, InvHolds, FallenAreClearedHolds, PTL DEF TrialSpec, DeadStayDead

(* In every fight somebody can act, falls are noticed and the queue is     *)
(* never short of what carries the run.                                    *)
THEOREM EveryoneGoesOnHolds == TrialSpec => []EveryoneGoesOn
<1>1. TrialInv => EveryoneGoesOn
  BY DEF TrialInv, UnitsInv, RungInv, NobodyFrozen, Awake, Wakers, Alive, EveryoneGoesOn
<1> QED
  BY <1>1, InvHolds, PTL

(* No control is ignored and no cast ends unpaid.                          *)
THEOREM ActsAreSoundHolds == TrialSpec => []ActsAreSound
<1>1. HeldInCheck /\ CastIsPaid => ActsAreSound
  BY DEF ActsAreSound
<1> QED
  BY <1>1, HeldInCheckHolds, CastIsPaidHolds, PTL

(* Nothing makes the fallen act or rise but what may.                      *)
THEOREM FallenStayDownHolds == TrialSpec => FallenStayDown
BY FallenAreClearedHolds, DeadStayDeadHolds, PTL DEF FallenStayDown, DeadStayDead
=============================================================================
