-------------------------- MODULE EventLoopProofs --------------------------
(***************************************************************************)
(* The event loop never goes back in time, delivers in order and accounts  *)
(* for every event, for any instants, priorities and number of events.     *)
(***************************************************************************)
EXTENDS GuildTrialRunner, SequenceTheorems, FiniteSetTheorems, TLAPS

USE TimeAssumption, PriorityAssumption, MaxEventsAssumption, NoEventAssumption

-----------------------------------------------------------------------------
(* The order of events                                                     *)

LEMMA EventFields ==
    \A e \in Event :
        /\ e.id \in Nat /\ e.id > 0 /\ e.id <= MaxEvents
        /\ e.timeNs \in Nat /\ e.timeNs \in Time
        /\ e.priority \in Int
<1> SUFFICES ASSUME NEW e \in Event
             PROVE  /\ e.id \in Nat /\ e.id > 0 /\ e.id <= MaxEvents
                    /\ e.timeNs \in Nat /\ e.timeNs \in Time
                    /\ e.priority \in Int
  OBVIOUS
<1>1. e.id \in 1..MaxEvents /\ e.timeNs \in Time /\ e.priority \in Priority
  BY DEF Event
<1>2. e.id \in Nat /\ e.id > 0 /\ e.id <= MaxEvents
  BY <1>1
<1>3. e.timeNs \in Nat
  BY <1>1
<1>4. e.priority \in Int
  BY <1>1
<1> QED
  BY <1>1, <1>2, <1>3, <1>4

LEMMA BeforeIsOrder ==
    /\ \A a, b \in Event : Before(a, b) => ~Before(b, a) /\ a.timeNs <= b.timeNs
    /\ \A a, b, c \in Event : Before(a, b) /\ Before(b, c) => Before(a, c)
  BY EventFields DEF Before

-----------------------------------------------------------------------------
(* The inductive invariant                                                 *)

\* What lies in wait is known, and would come after what was delivered, had it
\* been there.
Known ==
    /\ \A e \in pending : e.id <= issued
    /\ \A e, f \in pending : e.id = f.id => e = f
    /\ \A i \in Deliveries :
         /\ delivered[i].issued <= issued
         /\ delivered[i].event.id <= issued
         /\ \A e \in pending :
              Before(e, delivered[i].event) => e.id > delivered[i].issued

Inv == TypeOK /\ NothingPassed /\ InOrder /\ Accounted /\ Known

LEMMA InitInv == Init => Inv
<1> SUFFICES ASSUME Init PROVE Inv
  OBVIOUS
<1>1. delivered = <<>> /\ Len(delivered) = 0
      /\ delivered \in Seq([event: Event, issued: 0..MaxEvents])
  BY EmptySeq DEF Init
<1> QED
  BY <1>1 DEF Init, PQInit, Inv, TypeOK, NothingPassed, InOrder, Accounted, Known,
              Deliveries

\* What the queue does when its first event is looked at or taken.
LEMMA LookIsFirst ==
    ASSUME TypeOK, Look \/ Take
    PROVE  /\ out' \in Event \cup {NoEvent}
           /\ out' # NoEvent => out' \in pending /\ Least(out', pending)
           /\ out' = NoEvent => pending = {}
<1>1. CASE pending = {}
  BY <1>1 DEF Look, Take
<1>2. CASE pending # {}
  BY <1>2 DEF Look, Take, Least, TypeOK
<1> QED
  BY <1>1, <1>2

LEMMA NextInv == Inv /\ [Next]_vars => Inv'
<1> SUFFICES ASSUME Inv, [Next]_vars PROVE Inv'
  OBVIOUS
<1> USE DEF Inv
<1>0. /\ issued \in Nat /\ issued <= MaxEvents /\ now \in Nat /\ deadline \in Nat
      /\ Len(delivered) \in Nat
      /\ \A i \in Deliveries : delivered[i] \in [event: Event, issued: 0..MaxEvents]
  <2>1. issued \in Nat /\ issued <= MaxEvents
    BY DEF TypeOK
  <2>2. now \in Nat /\ deadline \in Nat
    BY DEF TypeOK
  <2>3. Len(delivered) \in Nat
    BY LenProperties DEF TypeOK
  <2>4. \A i \in Deliveries : delivered[i] \in [event: Event, issued: 0..MaxEvents]
    BY ElementOfSeq DEF TypeOK, Deliveries
  <2> QED
    BY <2>1, <2>2, <2>3, <2>4
<1>1. ASSUME NEW t \in Time, NEW p \in Priority, Schedule(t, p) PROVE Inv'
  <2> DEFINE e == [id |-> issued + 1, timeNs |-> t, priority |-> p]
  <2>1. /\ issued' = issued + 1 /\ pending' = pending \cup {e} /\ issued < MaxEvents
        /\ out' = out /\ UNCHANGED <<now, deadline, phase, delivered, revoked>>
        /\ t >= now
    BY <1>1 DEF Schedule, Add, Legal, loopVars, record
  <2>2. e \in Event /\ e.id = issued + 1 /\ e.timeNs = t
    BY <1>0, <2>1 DEF Event
  <2> HIDE DEF e
  <2>3. TypeOK'
    BY <1>0, <2>1, <2>2 DEF TypeOK
  <2>4. NothingPassed'
    BY <2>1, <2>2 DEF NothingPassed
  <2>5. InOrder'
    BY <2>1 DEF InOrder, Deliveries
  <2>6. Accounted'
    <3>1. \A id \in 1..issued' : id \in 1..issued \/ id = e.id
      BY <1>0, <2>1, <2>2
    <3>2. e.id \notin revoked /\ \A i \in Deliveries : delivered[i].event.id # e.id
      BY <1>0, <2>2, EventFields DEF TypeOK, Known, Deliveries
    <3> QED
      BY <2>1, <3>1, <3>2 DEF Accounted, Deliveries
  <2>7. Known'
    BY <1>0, <2>1, <2>2, EventFields DEF Known, Deliveries, TypeOK
  <2> QED
    BY <2>3, <2>4, <2>5, <2>6, <2>7
<1>2. ASSUME NEW id \in 1..issued, Cancel(id) PROVE Inv'
  <2>1. /\ pending' = {e \in pending : e.id # id}
        /\ revoked' = revoked \cup {e.id : e \in pending \ pending'}
        /\ UNCHANGED <<issued, out, now, deadline, phase, delivered>>
    BY <1>2 DEF Cancel, Drop, loopVars
  <2>2. revoked' \subseteq revoked \cup {id}
    BY <2>1
  <2>3. TypeOK'
    BY <2>1, <2>2 DEF TypeOK
  <2>4. NothingPassed' /\ InOrder' /\ Known'
    BY <2>1 DEF NothingPassed, InOrder, Known, Deliveries
  <2>5. Accounted'
    BY <2>1, <2>2 DEF Accounted, Deliveries
  <2> QED
    BY <2>3, <2>4, <2>5
<1>3. ASSUME NEW d \in Time, RunUntil(d) PROVE Inv'
  BY <1>0, <1>3 DEF RunUntil, pqVars, record, TypeOK, NothingPassed, InOrder, Known,
                    Accounted, Deliveries
<1>4. CASE Deliver
  <2> DEFINE e == out'
             d == [event |-> e, issued |-> issued]
  <2>1. /\ e # NoEvent /\ e.timeNs <= deadline /\ now' = e.timeNs
        /\ phase' = "processing" /\ delivered' = Append(delivered, d)
        /\ pending' = pending \ {e} /\ UNCHANGED <<issued, deadline, revoked>>
    BY <1>4 DEF Deliver, Due, Remove, Take
  <2>2. e \in Event /\ e \in pending /\ Least(e, pending)
    BY <1>4, <2>1, LookIsFirst DEF Deliver, Remove
  <2> HIDE DEF e
  <2>3. d \in [event: Event, issued: 0..MaxEvents]
    BY <1>0, <2>2
  <2>4. /\ delivered' \in Seq([event: Event, issued: 0..MaxEvents])
        /\ Len(delivered') = Len(delivered) + 1
        /\ \A i \in Deliveries : delivered'[i] = delivered[i]
        /\ delivered'[Len(delivered) + 1] = d
    BY <2>1, <2>3, AppendProperties DEF TypeOK, Deliveries
  <2>5. Deliveries' = Deliveries \cup {Len(delivered) + 1}
    BY <1>0, <2>4 DEF Deliveries
  <2>6. \A i \in Deliveries' :
          delivered'[i] = IF i = Len(delivered) + 1 THEN d ELSE delivered[i]
    BY <1>0, <2>4, <2>5 DEF Deliveries
  <2>7. NothingPassed'
    <3>1. \A f \in pending' : e.timeNs <= f.timeNs
      BY <2>1, <2>2, BeforeIsOrder DEF Least, TypeOK
    <3> QED
      BY <2>1, <3>1 DEF NothingPassed
  <2>8. InOrder'
    <3> SUFFICES ASSUME NEW i \in Deliveries', NEW j \in Deliveries', i < j,
                        Before(delivered'[j].event, delivered'[i].event)
                 PROVE  delivered'[j].event.id > delivered'[i].issued
      BY DEF InOrder
    <3>1. i \in Deliveries
      BY <1>0, <2>5 DEF Deliveries
    <3>2. CASE j \in Deliveries
      BY <1>0, <2>6, <3>1, <3>2 DEF InOrder, Deliveries
    <3>3. CASE j = Len(delivered) + 1
      BY <1>0, <2>2, <2>6, <3>1, <3>3 DEF Known, Deliveries
    <3> QED
      BY <2>5, <3>2, <3>3
  <2>9. Accounted'
    <3>1. \A i \in Deliveries : delivered[i].event.id # e.id
      BY <2>2 DEF Accounted
    <3>2. \A i, j \in Deliveries' :
            delivered'[i].event.id = delivered'[j].event.id => i = j
      <4> SUFFICES ASSUME NEW i \in Deliveries', NEW j \in Deliveries',
                          delivered'[i].event.id = delivered'[j].event.id
                   PROVE  i = j
        OBVIOUS
      <4>1. CASE i \in Deliveries /\ j \in Deliveries
        BY <2>4, <4>1 DEF Accounted
      <4>2. CASE i \in Deliveries /\ j = Len(delivered) + 1
        BY <2>4, <3>1, <4>2
      <4>3. CASE i = Len(delivered) + 1 /\ j \in Deliveries
        BY <2>4, <3>1, <4>3
      <4>4. CASE i = Len(delivered) + 1 /\ j = Len(delivered) + 1
        BY <4>4
      <4> QED
        BY <2>5, <4>1, <4>2, <4>3, <4>4
    <3>3. ASSUME NEW id \in 1..issued
          PROVE  \/ id \in revoked
                 \/ \E f \in pending' : f.id = id
                 \/ \E i \in Deliveries' : delivered'[i].event.id = id
      <4>1. CASE id = e.id
        BY <2>5, <2>6, <4>1
      <4>2. CASE id \in revoked
        BY <4>2
      <4>3. CASE id # e.id /\ \E f \in pending : f.id = id
        BY <2>1, <4>3
      <4>4. CASE \E i \in Deliveries : delivered[i].event.id = id
        <5>1. PICK i \in Deliveries : delivered[i].event.id = id
          BY <4>4
        <5> QED
          BY <2>4, <2>5, <5>1
      <4> QED
        BY <4>1, <4>2, <4>3, <4>4 DEF Accounted
    <3>4. \A i \in Deliveries' : /\ delivered'[i].event.id \notin revoked
                                 /\ \A f \in pending' : f.id # delivered'[i].event.id
      <4>1. e.id \notin revoked /\ \A f \in pending' : f.id # e.id
        BY <2>1, <2>2 DEF Accounted, Known
      <4> QED
        BY <1>0, <2>1, <2>5, <2>6, <4>1 DEF Accounted, Deliveries
    <3> QED
      BY <2>1, <3>2, <3>3, <3>4 DEF Accounted
  <2>10. Known'
    <3>1. \A f \in pending' : ~Before(f, e)
      BY <2>1, <2>2, BeforeIsOrder DEF Least, TypeOK
    <3> QED
      BY <1>0, <2>1, <2>2, <2>5, <2>6, <3>1 DEF Known, Deliveries
  <2>11. TypeOK'
    <3>1. now' \in Time \cup {0} /\ out' \in Event
      BY <2>1, <2>2, EventFields DEF e
    <3> QED
      BY <2>1, <2>4, <3>1 DEF TypeOK
  <2> QED
    BY <2>7, <2>8, <2>9, <2>10, <2>11
<1>5. CASE Processed
  BY <1>5 DEF Processed, pqVars, record, TypeOK, NothingPassed, InOrder, Known,
              Accounted, Deliveries
<1>6. CASE Finish
  <2>1. /\ phase = "looping" /\ now' = deadline /\ phase' = "outside" /\ ~Due(out')
        /\ UNCHANGED <<pending, issued, deadline, delivered, revoked>>
    BY <1>6 DEF Finish, Look, record
  <2>2. /\ out' \in Event \cup {NoEvent}
        /\ out' # NoEvent => out' \in pending /\ Least(out', pending)
        /\ out' = NoEvent => pending = {}
    BY <1>6, LookIsFirst DEF Finish
  <2>3. \A e \in pending : deadline <= e.timeNs
    <3> SUFFICES ASSUME NEW e \in pending PROVE deadline <= e.timeNs
      OBVIOUS
    <3>1. out' \in Event /\ ~(out'.timeNs <= deadline) /\ Least(out', pending)
      BY <2>1, <2>2 DEF Due
    <3>2. e \in Event /\ out'.timeNs \in Nat /\ e.timeNs \in Nat
      BY <3>1, EventFields DEF TypeOK
    <3>3. out'.timeNs <= e.timeNs
      BY <3>1, <3>2, BeforeIsOrder DEF Least
    <3> QED
      BY <1>0, <3>1, <3>2, <3>3
  <2>4. TypeOK' /\ NothingPassed'
    BY <2>1, <2>2, <2>3 DEF TypeOK, NothingPassed
  <2>5. InOrder' /\ Known' /\ Accounted'
    BY <2>1 DEF InOrder, Known, Accounted, Deliveries
  <2> QED
    BY <2>4, <2>5
<1>7. CASE UNCHANGED vars
  BY <1>7 DEF vars, pqVars, loopVars, record, TypeOK, NothingPassed, InOrder, Known,
              Accounted, Deliveries
<1> QED
  BY <1>1, <1>2, <1>3, <1>4, <1>5, <1>6, <1>7 DEF Next

\* The variables of the loop keep their types.
THEOREM TypeCorrect == Spec => []TypeOK
<1>1. Inv => TypeOK
  BY DEF Inv
<1> QED
  BY <1>1, InitInv, NextInv, PTL DEF Spec

\* Whatever is scheduled, cancelled or thrown, no pending event lies in the past.
THEOREM NothingPassedHolds == Spec => []NothingPassed
<1>1. Inv => NothingPassed
  BY DEF Inv
<1> QED
  BY <1>1, InitInv, NextInv, PTL DEF Spec

\* Events are delivered in the order of time, priority and schedule.
THEOREM InOrderHolds == Spec => []InOrder
<1>1. Inv => InOrder
  BY DEF Inv
<1> QED
  BY <1>1, InitInv, NextInv, PTL DEF Spec

\* No event is lost, delivered twice, or delivered though it was cancelled.
THEOREM AccountedHolds == Spec => []Accounted
<1>1. Inv => Accounted
  BY DEF Inv
<1> QED
  BY <1>1, InitInv, NextInv, PTL DEF Spec

\* The clock never goes back.
THEOREM TimeNeverGoesBackHolds == Spec => TimeNeverGoesBack
<1>1. Inv /\ [Next]_vars => [now' >= now]_vars
  <2> SUFFICES ASSUME Inv, Next PROVE now' >= now
    BY DEF vars
  <2> USE DEF Inv
  <2>0. now \in Nat /\ deadline \in Nat
    BY DEF TypeOK
  <2>1. CASE Deliver
    <3>1. out' \in pending /\ now' = out'.timeNs
      BY <2>1, LookIsFirst DEF Deliver, Remove, Due
    <3> QED
      BY <3>1 DEF NothingPassed
  <2>2. CASE Finish
    BY <2>0, <2>2 DEF Finish, NothingPassed
  <2>3. CASE now' = now
    BY <2>0, <2>3
  <2> QED
    BY <2>1, <2>2, <2>3 DEF Next, Schedule, Cancel, RunUntil, Processed, loopVars
<1> QED
  BY <1>1, InitInv, NextInv, PTL DEF Spec, TimeNeverGoesBack

\* A run that ends at its deadline has delivered what was due: the first event left, if
\* any, is later, and no other comes before it.
THEOREM NothingDueIsLeftHolds == Spec => NothingDueIsLeft
<1>1. Inv /\ [Next]_vars =>
        [phase = "looping" /\ phase' = "outside" => \A e \in pending' : e.timeNs > now']_vars
  <2> SUFFICES ASSUME Inv, Next, phase = "looping", phase' = "outside", NEW e \in pending'
               PROVE  e.timeNs > now'
    BY DEF vars
  <2>1. Finish
    BY DEF Next, Schedule, Cancel, RunUntil, Deliver, Processed
  <2>2. /\ e \in pending /\ pending \subseteq Event /\ deadline \in Nat
        /\ now' = deadline /\ ~Due(out')
    BY <2>1 DEF Finish, Look, Inv, TypeOK
  <2>3. out' \in pending /\ Least(out', pending)
    BY <2>1, <2>2, LookIsFirst DEF Finish, Inv
  <2>4. out'.timeNs > deadline
    BY <2>2, <2>3, EventFields, NoEventAssumption DEF Due
  <2>5. e = out' \/ Before(out', e)
    BY <2>2, <2>3 DEF Least
  <2> QED
    BY <2>2, <2>3, <2>4, <2>5, EventFields DEF Before
<1> QED
  BY <1>1, InitInv, NextInv, PTL DEF Spec, NothingDueIsLeft

(* Whatever is scheduled, cancelled or thrown, no event is lost, doubled   *)
(* or delivered after one that it should come before.                      *)
THEOREM EventsAreKeptHolds == Spec => []EventsAreKept
<1>1. InOrder /\ Accounted => EventsAreKept
  BY DEF EventsAreKept
<1> QED
  BY <1>1, InOrderHolds, AccountedHolds, PTL

-----------------------------------------------------------------------------
(* The trial runner on the loop                                            *)

Load == {Attack(m) : m \in Who} \cup {Regen} \cup {Spawn(l) : l \in 0..TopLevel}

\* Stages, phases and calls go together.
InStep ==
    /\ stage \in {"setup", "loop", "handled", "thrown", "over"}
    /\ stage = "setup" => phase = "outside"
    /\ stage = "loop" => phase \in {"looping", "processing"}
    /\ stage \in {"handled", "thrown"} => phase = "processing"
    /\ stage = "over" => phase = "outside"
    /\ stage \in {"loop", "thrown", "over"} => calls = <<>>
    /\ stage # "setup" => deadline = Duration
    /\ phase = "processing" => out \in Event /\ out.id <= issued /\ \A e \in pending : e.id # out.id

Loads ==
    /\ payload \in Seq(Load) /\ Len(payload) = issued
    /\ calls \in Seq([at: Time, load: Load])

\* The loads that wait in the queue, are called for, or are in the processor's hand.
LoadsOf(c) == {c[i].load : i \in 1..Len(c)}
Apart(c) == \A i, j \in 1..Len(c) : c[i].load = c[j].load => i = j
Waiting == {payload[e.id] : e \in pending}
Called == LoadsOf(calls)
InHand == IF stage = "loop" /\ phase = "processing" THEN {payload[out.id]} ELSE {}
Around == Waiting \cup Called \cup InHand

\* No load is in two places.
Once ==
    /\ \A e, f \in pending : payload[e.id] = payload[f.id] => e = f
    /\ Apart(calls)
    /\ Waiting \cap Called = {} /\ Waiting \cap InHand = {}

\* Until a throw or the end every member has an attack around, or none is due any
\* more, or it slew the last boss; and the bosses follow each other.
Idle(m) == Attack(m) \notin Around /\ now + Interval[m] <= Duration
Turns ==
    stage \in {"setup", "loop", "handled"} =>
        /\ \A m \in Who : Idle(m) => maxed
        /\ \A m, n \in Who : Idle(m) /\ Idle(n) => m = n
        /\ Regen \in Around \/ now + RegenEvery > Duration

Bosses ==
    /\ maxed \in BOOLEAN
    /\ kills \in Seq([level: Nat, at: Nat])
    /\ boss = Absent \/ boss \in [level: 0..TopLevel, hp: 1..Hp]
    /\ awaited = Absent \/ awaited \in 1..TopLevel
    /\ boss # Absent => awaited = Absent /\ ~maxed /\ boss.level = Len(kills)
    /\ boss = Absent => (awaited = Absent <=> maxed)
    /\ awaited # Absent => awaited = Len(kills)
    /\ maxed => Len(kills) = TopLevel + 1 /\ cleared = TopLevel
    /\ stage \in {"setup", "loop", "handled"} =>
         /\ \A l \in 0..TopLevel : Spawn(l) \in Around => awaited = l
         /\ awaited # Absent =>
              Spawn(awaited) \in Around \/ kills[Len(kills)].at + SpawnDelay > Duration

OutOf ==
    /\ oomTime \in [Who -> Nat] /\ oomSince \in [Who -> Nat \cup {Absent}]
    /\ \A m \in Who : IF oomSince[m] = Absent THEN oomTime[m] <= now
                      ELSE oomTime[m] <= oomSince[m] /\ oomSince[m] <= now

RunnerInv == InStep /\ Loads /\ Once /\ Turns /\ Bosses /\ OutOf /\ ResultFits

LEMMA LoadsDiffer ==
    /\ \A m \in Who : Attack(m) \in Load /\ Attack(m).kind = "memberAttack" /\ Attack(m).who = m
    /\ Regen \in Load /\ Regen.kind = "passiveRegen"
    /\ \A l \in 0..TopLevel : Spawn(l) \in Load /\ Spawn(l).kind = "spawnBoss" /\ Spawn(l).level = l
    /\ \A x \in Load : /\ x.kind = "memberAttack" => x.who \in Who /\ x = Attack(x.who)
                       /\ x.kind = "passiveRegen" => x = Regen
                       /\ x.kind = "spawnBoss" => x.level \in 0..TopLevel /\ x = Spawn(x.level)
                       /\ PriorityOf(x) \in Priority
<1>1. \A m \in Who : Attack(m) \in Load /\ Attack(m).kind = "memberAttack" /\ Attack(m).who = m
  BY DEF Load, Attack
<1>2. Regen \in Load /\ Regen.kind = "passiveRegen"
  BY DEF Load, Regen
<1>3. \A l \in 0..TopLevel : Spawn(l) \in Load /\ Spawn(l).kind = "spawnBoss" /\ Spawn(l).level = l
  BY DEF Load, Spawn
<1>4. ASSUME NEW x \in Load
      PROVE  /\ x.kind = "memberAttack" => x.who \in Who /\ x = Attack(x.who)
             /\ x.kind = "passiveRegen" => x = Regen
             /\ x.kind = "spawnBoss" => x.level \in 0..TopLevel /\ x = Spawn(x.level)
             /\ PriorityOf(x) \in Priority
  <2>1. CASE \E m \in Who : x = Attack(m)
    <3>1. PICK m \in Who : x = Attack(m)
      BY <2>1
    <3>2. x.kind = "memberAttack" /\ x.who = m
      BY <1>1, <3>1
    <3>3. PriorityOf(x) = 20
      BY <3>2 DEF PriorityOf
    <3> QED
      BY <3>1, <3>2, <3>3, InstantsAssumption
  <2>2. CASE x = Regen
    <3>1. PriorityOf(x) = 10
      BY <1>2, <2>2 DEF PriorityOf
    <3> QED
      BY <1>2, <2>2, <3>1, InstantsAssumption
  <2>3. CASE \E l \in 0..TopLevel : x = Spawn(l)
    <3>1. PICK l \in 0..TopLevel : x = Spawn(l)
      BY <2>3
    <3>2. x.kind = "spawnBoss" /\ x.level = l
      BY <1>3, <3>1
    <3>3. PriorityOf(x) = 0
      BY <3>2 DEF PriorityOf
    <3> QED
      BY <3>1, <3>2, <3>3, InstantsAssumption
  <2> QED
    BY <2>1, <2>2, <2>3 DEF Load
<1> QED
  BY <1>1, <1>2, <1>3, <1>4

LEMMA NoCalls == LoadsOf(<<>>) = {} /\ Apart(<<>>) /\ <<>> \in Seq([at: Time, load: Load])
  BY EmptySeq DEF LoadsOf, Apart

LEMMA CallLoads ==
    ASSUME NEW t \in Nat, NEW x \in Load
    PROVE  /\ Call(t, x) \in Seq([at: Time, load: Load])
           /\ LoadsOf(Call(t, x)) = IF t <= Duration THEN {x} ELSE {}
           /\ Apart(Call(t, x))
<1>1. CASE t <= Duration
  <2>1. Call(t, x) = <<[at |-> t, load |-> x]>> /\ t \in Time
    BY <1>1, RunnerAssumption, InstantsAssumption DEF Call
  <2>2. [at |-> t, load |-> x] \in [at: Time, load: Load]
    BY <2>1
  <2> QED
    BY <1>1, <2>1, <2>2 DEF LoadsOf, Apart
<1>2. CASE ~(t <= Duration)
  BY <1>2, NoCalls DEF Call
<1> QED
  BY <1>1, <1>2

LEMMA JoinedCalls ==
    ASSUME NEW c \in Seq([at: Time, load: Load]), NEW d \in Seq([at: Time, load: Load])
    PROVE  /\ c \o d \in Seq([at: Time, load: Load])
           /\ LoadsOf(c \o d) = LoadsOf(c) \cup LoadsOf(d)
           /\ Apart(c) /\ Apart(d) /\ LoadsOf(c) \cap LoadsOf(d) = {} => Apart(c \o d)
<1>1. /\ c \o d \in Seq([at: Time, load: Load])
      /\ Len(c \o d) = Len(c) + Len(d) /\ Len(c) \in Nat /\ Len(d) \in Nat
      /\ \A i \in 1..Len(c) + Len(d) :
           (c \o d)[i] = IF i <= Len(c) THEN c[i] ELSE d[i - Len(c)]
  BY ConcatProperties, LenProperties
<1> DEFINE cd == c \o d
<1> HIDE DEF cd
<1>2. /\ \A i \in 1..Len(c) : i \in 1..Len(cd) /\ cd[i] = c[i]
      /\ \A i \in 1..Len(d) : i + Len(c) \in 1..Len(cd) /\ cd[i + Len(c)] = d[i]
      /\ \A i \in 1..Len(cd) : i \in 1..Len(c) \/ (i - Len(c) \in 1..Len(d) /\ cd[i] = d[i - Len(c)])
  BY <1>1 DEF cd
<1>3. LoadsOf(cd) = LoadsOf(c) \cup LoadsOf(d)
  <2>1. \A x \in LoadsOf(c) : x \in LoadsOf(cd)
    BY <1>2 DEF LoadsOf
  <2>2. \A x \in LoadsOf(d) : x \in LoadsOf(cd)
    BY <1>2 DEF LoadsOf
  <2>3. ASSUME NEW i \in 1..Len(cd) PROVE cd[i].load \in LoadsOf(c) \cup LoadsOf(d)
    BY <1>2, <2>3 DEF LoadsOf
  <2> QED
    BY <2>1, <2>2, <2>3 DEF LoadsOf
<1>4. ASSUME Apart(c), Apart(d), LoadsOf(c) \cap LoadsOf(d) = {} PROVE Apart(cd)
  <2> SUFFICES ASSUME NEW i \in 1..Len(cd), NEW j \in 1..Len(cd), cd[i].load = cd[j].load
               PROVE  i = j
    BY DEF Apart
  <2>1. CASE i \in 1..Len(c) /\ j \in 1..Len(c)
    BY <1>2, <1>4, <2>1 DEF Apart
  <2>2. CASE i - Len(c) \in 1..Len(d) /\ j - Len(c) \in 1..Len(d)
    <3>1. cd[i] = d[i - Len(c)] /\ cd[j] = d[j - Len(c)]
      BY <1>1, <1>2, <2>2
    <3>2. i - Len(c) = j - Len(c)
      BY <1>4, <2>2, <3>1 DEF Apart
    <3> QED
      BY <1>1, <3>2
  <2>3. CASE i \in 1..Len(c) /\ j - Len(c) \in 1..Len(d)
    <3>1. cd[i] = c[i] /\ cd[j] = d[j - Len(c)]
      BY <1>1, <1>2, <2>3
    <3>2. c[i].load \in LoadsOf(c) /\ d[j - Len(c)].load \in LoadsOf(d)
      BY <2>3 DEF LoadsOf
    <3> QED
      BY <1>4, <3>1, <3>2
  <2>4. CASE j \in 1..Len(c) /\ i - Len(c) \in 1..Len(d)
    <3>1. cd[j] = c[j] /\ cd[i] = d[i - Len(c)]
      BY <1>1, <1>2, <2>4
    <3>2. c[j].load \in LoadsOf(c) /\ d[i - Len(c)].load \in LoadsOf(d)
      BY <2>4 DEF LoadsOf
    <3> QED
      BY <1>4, <3>1, <3>2
  <2> QED
    BY <1>2, <2>1, <2>2, <2>3, <2>4
<1> QED
  BY <1>1, <1>3, <1>4 DEF cd

LEMMA FirstCall ==
    ASSUME NEW c \in Seq([at: Time, load: Load]), c # <<>>
    PROVE  /\ Head(c) \in [at: Time, load: Load] /\ Tail(c) \in Seq([at: Time, load: Load])
           /\ LoadsOf(c) = {Head(c).load} \cup LoadsOf(Tail(c))
           /\ Apart(c) => Apart(Tail(c)) /\ Head(c).load \notin LoadsOf(Tail(c))
<1>1. /\ Head(c) \in [at: Time, load: Load] /\ Tail(c) \in Seq([at: Time, load: Load])
      /\ Len(Tail(c)) = Len(c) - 1
      /\ \A i \in 1..Len(Tail(c)) : Tail(c)[i] = c[i + 1]
  BY HeadTailProperties
<1>2. Len(c) \in Nat /\ Len(c) > 0 /\ Head(c) = c[1]
  BY EmptySeq, LenProperties
<1> DEFINE t == Tail(c)
<1> HIDE DEF t
<1>3. 1 \in 1..Len(c)
  BY <1>2
<1>4. ASSUME NEW i \in 1..Len(t)
      PROVE  i + 1 \in 1..Len(c) /\ i + 1 # 1 /\ t[i] = c[i + 1]
  BY <1>1, <1>2, <1>4 DEF t
<1>5. ASSUME NEW i \in 1..Len(c), i # 1
      PROVE  i - 1 \in 1..Len(t) /\ t[i - 1] = c[i]
  <2>1. i - 1 \in 1..Len(t)
    BY <1>1, <1>2, <1>5 DEF t
  <2>2. t[i - 1] = c[i - 1 + 1] /\ i - 1 + 1 = i
    BY <1>4, <2>1
  <2> QED
    BY <2>1, <2>2
<1>6. LoadsOf(c) = {Head(c).load} \cup LoadsOf(t)
  <2>1. Head(c).load \in LoadsOf(c)
    BY <1>2, <1>3 DEF LoadsOf
  <2>2. ASSUME NEW i \in 1..Len(t) PROVE t[i].load \in LoadsOf(c)
    BY <1>4 DEF LoadsOf
  <2>3. ASSUME NEW i \in 1..Len(c) PROVE c[i].load \in {Head(c).load} \cup LoadsOf(t)
    BY <1>2, <1>5 DEF LoadsOf
  <2> QED
    BY <2>1, <2>2, <2>3 DEF LoadsOf
<1>7. ASSUME Apart(c) PROVE Apart(t) /\ Head(c).load \notin LoadsOf(t)
  <2>1. ASSUME NEW i \in 1..Len(t), NEW j \in 1..Len(t), t[i].load = t[j].load
        PROVE  i = j
    <3>1. i + 1 = j + 1
      BY <1>4, <1>7, <2>1 DEF Apart
    <3> QED
      BY <1>1, <3>1
  <2>2. \A i \in 1..Len(t) : t[i].load # Head(c).load
    BY <1>2, <1>3, <1>4, <1>7 DEF Apart
  <2> QED
    BY <2>1, <2>2 DEF Apart, LoadsOf
<1> QED
  BY <1>1, <1>6, <1>7 DEF t


-----------------------------------------------------------------------------
(* What each step does to the loads                                        *)

\* The attacks of two members, and an attack, a regeneration and a boss, are
\* never the same load.
LEMMA LoadsApart ==
    /\ \A m, n \in Who : Attack(m) = Attack(n) => m = n
    /\ \A m \in Who : Attack(m) # Regen
    /\ \A m \in Who, l \in 0..TopLevel : Attack(m) # Spawn(l)
    /\ \A l \in 0..TopLevel : Regen # Spawn(l)
    /\ \A l, k \in 0..TopLevel : Spawn(l) = Spawn(k) => l = k
<1>1. \A m, n \in Who : Attack(m) = Attack(n) => m = n
  BY LoadsDiffer
<1>2. \A m \in Who : Attack(m) # Regen
  BY LoadsDiffer
<1>3. \A m \in Who, l \in 0..TopLevel : Attack(m) # Spawn(l)
  BY LoadsDiffer
<1>4. \A l \in 0..TopLevel : Regen # Spawn(l)
  BY LoadsDiffer
<1>5. \A l, k \in 0..TopLevel : Spawn(l) = Spawn(k) => l = k
  BY LoadsDiffer
<1> QED
  BY <1>1, <1>2, <1>3, <1>4, <1>5

\* A step of the runner is one of the loop, or leaves the loop alone.
LEMMA StepOfTheLoop ==
    ASSUME Inv, InStep, Loads, RunnerNext
    PROVE  [Next]_vars
<1>1. CASE Start
  <2>1. Duration \in Time /\ RunUntil(Duration)
    BY <1>1, RunnerAssumption DEF Start
  <2> QED
    BY <2>1 DEF Next
<1>2. CASE ScheduleCall
  <2>1. Head(calls) \in [at: Time, load: Load]
    BY <1>2, FirstCall DEF ScheduleCall, Loads
  <2>2. Head(calls).at \in Time /\ PriorityOf(Head(calls).load) \in Priority
    BY <2>1, LoadsDiffer
  <2> QED
    BY <1>2, <2>2 DEF ScheduleCall, Next
<1>3. CASE DeliverEvent
  BY <1>3 DEF DeliverEvent, Next
<1>4. CASE Process \/ Throw
  BY <1>4 DEF Process, Throw
<1>5. CASE Return
  BY <1>5 DEF Return, Next
<1>6. CASE Complete \/ CompleteThrows
  BY <1>6 DEF Complete, CompleteThrows, Next
<1> QED
  BY <1>1, <1>2, <1>3, <1>4, <1>5, <1>6 DEF RunnerNext

\* The first call becomes a pending event: its load only changes places.
LEMMA CallMoves ==
    ASSUME Inv, InStep, Loads, Once, ScheduleCall
    PROVE  InStep' /\ Loads' /\ Once' /\ Around' = Around /\ now' = now
<1> DEFINE e == [id |-> issued + 1, timeNs |-> Head(calls).at,
                 priority |-> PriorityOf(Head(calls).load)]
           x == Head(calls).load
<1>1. /\ calls # <<>> /\ calls' = Tail(calls) /\ payload' = Append(payload, x)
      /\ UNCHANGED <<stage, now, deadline, phase, out>>
      /\ pending' = pending \cup {e} /\ issued' = issued + 1 /\ issued < MaxEvents
  BY DEF ScheduleCall, Schedule, Add, loopVars, record
<1>2. /\ Head(calls) \in [at: Time, load: Load] /\ calls' \in Seq([at: Time, load: Load])
      /\ Called = {x} \cup Called'
      /\ Apart(calls') /\ x \notin Called'
  BY <1>1, FirstCall DEF Loads, Once, Called
<1>3. x \in Load /\ e.id = issued + 1
  BY <1>2
<1>4. issued \in Nat /\ \A f \in pending : f.id \in 1..issued
  BY EventFields DEF Inv, TypeOK, Known
<1> HIDE DEF e, x
<1>5. /\ payload' \in Seq(Load) /\ Len(payload') = issued + 1
      /\ payload'[issued + 1] = x /\ \A i \in 1..issued : payload'[i] = payload[i]
  BY <1>1, <1>3, AppendProperties DEF Loads
<1>6. stage \in {"setup", "handled"}
  BY <1>1 DEF InStep
<1>7. InHand = {} /\ InHand' = {}
  BY <1>1, <1>6 DEF InHand
<1>8. /\ \A f \in pending : payload'[f.id] = payload[f.id]
      /\ payload'[e.id] = x
  BY <1>3, <1>4, <1>5
<1>9. Waiting' = Waiting \cup {x}
  BY <1>1, <1>8 DEF Waiting
<1>10. Around' = Around
  BY <1>2, <1>7, <1>9 DEF Around
<1>11. x \notin Waiting
  BY <1>2 DEF Once
<1>12. Once'
  <2>1. \A f \in pending : payload'[f.id] # x
    BY <1>8, <1>11 DEF Waiting
  <2>2. ASSUME NEW f \in pending', NEW g \in pending', payload'[f.id] = payload'[g.id]
        PROVE  f = g
    <3>1. CASE f \in pending /\ g \in pending
      <4>1. payload[f.id] = payload[g.id]
        BY <1>8, <2>2, <3>1
      <4> QED
        BY <3>1, <4>1 DEF Once
    <3>2. CASE f = e \/ g = e
      BY <1>1, <1>8, <2>1, <2>2, <3>2
    <3> QED
      BY <1>1, <3>1, <3>2
  <2>3. Waiting' \cap Called' = {}
    BY <1>2, <1>9 DEF Once
  <2> QED
    BY <1>2, <1>7, <2>2, <2>3 DEF Once
<1>13. InStep'
  <2>1. phase = "processing" => out.id # e.id
    BY <1>3, <1>4 DEF InStep, Event
  <2>2. phase = "processing" => out.id <= issued + 1
    BY <1>4, EventFields DEF InStep
  <2> QED
    BY <1>1, <1>6, <2>1, <2>2 DEF InStep
<1>14. Loads'
  BY <1>1, <1>2, <1>5 DEF Loads
<1> QED
  BY <1>1, <1>10, <1>12, <1>13, <1>14

\* A delivered event's load is in the processor's hand.
LEMMA DeliveryMoves ==
    ASSUME Inv, InStep, Loads, Once, DeliverEvent
    PROVE  /\ InStep' /\ Loads' /\ Once' /\ Around' = Around
           /\ now \in Nat /\ now' \in Nat /\ now <= now'
<1>1. /\ out' \in pending /\ now' = out'.timeNs /\ phase = "looping" /\ phase' = "processing"
      /\ pending' = pending \ {out'}
      /\ UNCHANGED <<issued, deadline, stage, calls, payload, trial, result>>
  BY LookIsFirst DEF Inv, DeliverEvent, Deliver, Remove, Take, Due, runnerVars
<1>2. /\ out' \in Event /\ out'.id <= issued
      /\ \A f \in pending' : f.id # out'.id
  BY <1>1 DEF Inv, TypeOK, Known
<1>3. stage = "loop" /\ calls = <<>>
  BY <1>1 DEF InStep
<1>4. InHand = {} /\ InHand' = {payload[out'.id]}
  BY <1>1, <1>3 DEF InHand
<1>5. Waiting' = Waiting \ {payload[out'.id]} /\ payload[out'.id] \in Waiting
  <2>1. \A f \in pending : f # out' => payload[f.id] # payload[out'.id]
    BY <1>1 DEF Once
  <2> QED
    BY <1>1, <2>1 DEF Waiting
<1>6. Called' = Called
  BY <1>1 DEF Called
<1>7. Around' = Around
  BY <1>4, <1>5, <1>6 DEF Around
<1>8. Once'
  BY <1>1, <1>4, <1>5, <1>6 DEF Once
<1>9. InStep' /\ Loads'
  BY <1>1, <1>2, <1>3 DEF InStep, Loads
<1>10. now \in Nat /\ now' \in Nat /\ now <= now'
  BY <1>1, <1>2, EventFields DEF Inv, TypeOK, NothingPassed
<1> QED
  BY <1>7, <1>8, <1>9, <1>10

\* The loads stay where they are when the loop starts or the processor returns.
LEMMA OthersStay ==
    ASSUME Inv, InStep, Loads, Once,
           \/ Start \/ Return \/ Throw
           \/ Complete \/ CompleteThrows \/ UNCHANGED allVars
    PROVE  /\ InStep' /\ Loads' /\ Once'
           /\ stage' \in {"setup", "loop", "handled"} => Around' = Around /\ now' = now
<1>1. UNCHANGED <<pending, issued, payload, calls>>
  BY DEF Start, Return, Complete, CompleteThrows, Throw, RunUntil, Processed, Finish, Look,
         pqVars, vars, allVars, runnerVars
<1>2. Waiting' = Waiting /\ Called' = Called
  BY <1>1 DEF Waiting, Called
<1>3. Loads'
  BY <1>1 DEF Loads
<1>4. CASE Start
  <2>1. /\ stage = "setup" /\ stage' = "loop" /\ phase = "outside" /\ phase' = "looping"
        /\ calls = <<>> /\ calls' = <<>> /\ deadline' = Duration /\ now' = now
    BY <1>4 DEF Start, RunUntil
  <2>2. InHand = {} /\ InHand' = {}
    BY <2>1 DEF InHand
  <2> QED
    BY <1>1, <1>2, <1>3, <2>1, <2>2 DEF InStep, Once, Around
<1>5. CASE Return
  <2>1. /\ phase = "processing" /\ deadline' = deadline /\ now' = now /\ out' = out
        /\ \/ stage = "handled" /\ calls = <<>> /\ stage' = "loop" /\ phase' = "looping"
           \/ stage = "thrown" /\ stage' = "over" /\ phase' = "outside"
    BY <1>5 DEF Return, Processed, pqVars
  <2>2. InHand = {} /\ InHand' = {}
    BY <2>1 DEF InHand
  <2> QED
    BY <1>1, <1>2, <1>3, <2>1, <2>2 DEF InStep, Once, Around
<1>6. CASE Complete \/ CompleteThrows
  <2>1. /\ stage = "loop" /\ stage' = "over" /\ phase' = "outside" /\ deadline' = deadline
        /\ phase = "looping"
    BY <1>6 DEF Complete, CompleteThrows, Finish
  <2>2. InHand = {} /\ InHand' = {}
    BY <2>1 DEF InHand
  <2> QED
    BY <1>1, <1>2, <1>3, <2>1, <2>2 DEF InStep, Once, Around
<1>7. CASE Throw
  <2>1. /\ stage = "loop" /\ stage' = "thrown" /\ phase = "processing" /\ phase' = phase
        /\ deadline' = deadline /\ out' = out /\ now' = now
    BY <1>7 DEF Throw, vars, loopVars, pqVars
  <2>2. InHand' = {}
    BY <2>1 DEF InHand
  <2> QED
    BY <1>1, <1>2, <1>3, <2>1, <2>2 DEF InStep, Once, Around
<1>8. CASE UNCHANGED allVars
  <2>1. UNCHANGED <<stage, phase, deadline, out, now>>
    BY <1>8 DEF allVars, vars, loopVars, pqVars, runnerVars
  <2>2. InHand' = InHand
    BY <1>1, <2>1 DEF InHand
  <2> QED
    BY <1>1, <1>2, <1>3, <2>1, <2>2 DEF InStep, Once, Around
<1> QED
  BY <1>4, <1>5, <1>6, <1>7, <1>8

\* The processor takes its load away and calls for others.
LEMMA ProcessMoves ==
    ASSUME Inv, InStep, Loads, Once, Process
    PROVE  /\ payload[out.id] \in Load /\ payload[out.id] \notin Waiting
           /\ Around = Waiting \cup {payload[out.id]}
           /\ Around' = Waiting \cup LoadsOf(calls')
           /\ now' = now /\ stage = "loop" /\ stage' = "handled"
           /\ /\ calls' \in Seq([at: Time, load: Load]) /\ Apart(calls')
              /\ Waiting \cap LoadsOf(calls') = {}
              => InStep' /\ Loads' /\ Once'
<1>1. /\ stage = "loop" /\ phase = "processing" /\ stage' = "handled"
      /\ UNCHANGED <<pending, issued, out, now, deadline, phase, payload>>
  BY DEF Process, vars, pqVars, loopVars
<1>2. calls = <<>> /\ out \in Event /\ out.id <= issued
  BY <1>1 DEF InStep
<1>3. payload[out.id] \in Load
  <2>1. out.id \in 1..Len(payload)
    BY <1>2, EventFields DEF Loads
  <2> QED
    BY <2>1, ElementOfSeq DEF Loads
<1>4. InHand = {payload[out.id]} /\ InHand' = {} /\ Called = {}
  BY <1>1, <1>2, NoCalls DEF InHand, Called
<1>5. Waiting' = Waiting /\ Called' = LoadsOf(calls')
  BY <1>1 DEF Waiting, Called
<1>6. payload[out.id] \notin Waiting
  BY <1>4 DEF Once
<1>7. Around = Waiting \cup {payload[out.id]} /\ Around' = Waiting \cup LoadsOf(calls')
  BY <1>4, <1>5 DEF Around
<1>8. ASSUME calls' \in Seq([at: Time, load: Load]), Apart(calls'),
             Waiting \cap LoadsOf(calls') = {}
      PROVE  InStep' /\ Loads' /\ Once'
  <2>1. InStep'
    BY <1>1 DEF InStep
  <2>2. Loads'
    BY <1>1, <1>8 DEF Loads
  <2>3. Once'
    BY <1>1, <1>4, <1>5, <1>8 DEF Once
  <2> QED
    BY <2>1, <2>2, <2>3
<1> QED
  BY <1>1, <1>3, <1>6, <1>7, <1>8


-----------------------------------------------------------------------------
(* The turns, the bosses and the lacks of mana, step by step               *)

Running == stage \in {"setup", "loop", "handled"}

\* Nobody loses a turn while every load but one stays around, and that one too
\* unless it would come too late.
LEMMA TurnsStay ==
    ASSUME Turns, Running' => Running, now \in Nat, now' \in Nat, now <= now',
           maxed => maxed', NEW x,
           Running' => \A y \in Around : y # x => y \in Around',
           Running' /\ x \in Around =>
               \/ x \in Around'
               \/ /\ \A m \in Who : x = Attack(m) => now' + Interval[m] > Duration
                  /\ x = Regen => now' + RegenEvery > Duration
    PROVE  Turns'
<1> SUFFICES ASSUME Running' PROVE Turns'
  BY DEF Turns, Running
<1>1. /\ \A m \in Who : Idle(m) => maxed
      /\ \A m, n \in Who : Idle(m) /\ Idle(n) => m = n
      /\ Regen \in Around \/ now + RegenEvery > Duration
  BY DEF Turns, Running
<1>2. Duration \in Nat /\ RegenEvery \in Nat /\ \A m \in Who : Interval[m] \in Nat
  BY RunnerAssumption
<1>3. ASSUME NEW m \in Who, Idle(m)' PROVE Idle(m)
  <2>1. Attack(m) \notin Around' /\ now' + Interval[m] <= Duration
    BY <1>3 DEF Idle
  <2>2. Attack(m) \notin Around
    <3>1. CASE Attack(m) # x
      BY <2>1, <3>1
    <3>2. CASE Attack(m) = x
      <4>1. ~(now' + Interval[m] > Duration)
        BY <1>2, <2>1
      <4> QED
        BY <2>1, <3>2, <4>1
    <3> QED
      BY <3>1, <3>2
  <2>3. now + Interval[m] <= Duration
    BY <1>2, <2>1
  <2> QED
    BY <2>2, <2>3 DEF Idle
<1>4. Regen \in Around' \/ now' + RegenEvery > Duration
  <2>1. CASE Regen \in Around
    BY <2>1
  <2>2. CASE now + RegenEvery > Duration
    <3>1. \A a, b, r, d \in Nat : a <= b /\ a + r > d => b + r > d
      OBVIOUS
    <3>2. RegenEvery \in Nat /\ Duration \in Nat
      BY <1>2
    <3> QED
      BY <2>2, <3>1, <3>2
  <2> QED
    BY <1>1, <2>1, <2>2
<1> QED
  BY <1>1, <1>3, <1>4 DEF Turns

\* The bosses stay in order while their loads stay where they are.
LEMMA BossesStay ==
    ASSUME Bosses, Running' => Running,
           UNCHANGED <<awaited, cleared, maxed, kills>>,
           \/ boss' = boss
           \/ /\ boss # Absent /\ boss' \in [level: 0..TopLevel, hp: 1..Hp]
              /\ boss'.level = boss.level,
           Running' => \A l \in 0..TopLevel : Spawn(l) \in Around' <=> Spawn(l) \in Around
    PROVE  Bosses'
<1>1. boss' = Absent <=> boss = Absent
  BY AbsentAssumption, RunnerAssumption
<1>2. boss' = Absent \/ boss' \in [level: 0..TopLevel, hp: 1..Hp]
  BY DEF Bosses
<1>3. boss' # Absent => boss'.level = Len(kills)
  BY <1>1 DEF Bosses
<1>4. awaited # Absent => awaited \in 0..TopLevel
  BY RunnerAssumption DEF Bosses
<1>5. Running' =>
         /\ \A l \in 0..TopLevel : Spawn(l) \in Around' => awaited = l
         /\ awaited # Absent =>
              Spawn(awaited) \in Around' \/ kills[Len(kills)].at + SpawnDelay > Duration
  BY <1>4 DEF Bosses, Running
<1> QED
  BY <1>1, <1>2, <1>3, <1>5 DEF Bosses, Running

LEMMA LacksStay ==
    ASSUME OutOf, now \in Nat, now' \in Nat, now <= now', UNCHANGED <<oomSince, oomTime>>
    PROVE  OutOf'
<1>1. \A m \in Who : oomTime[m] \in Nat /\ oomSince[m] \in Nat \cup {Absent}
  BY DEF OutOf
<1>2. ASSUME NEW m \in Who
      PROVE  IF oomSince[m] = Absent THEN oomTime[m] <= now'
             ELSE oomTime[m] <= oomSince[m] /\ oomSince[m] <= now'
  BY <1>1, <1>2 DEF OutOf
<1> QED
  BY <1>2 DEF OutOf

LEMMA LacksClose ==
    ASSUME OutOf, now \in Nat, now' = now, NEW S \in SUBSET Who,
           oomSince' = SinceAfter(S), oomTime' = TimeAfter(S)
    PROVE  OutOf'
<1>1. \A m \in Who : oomTime[m] \in Nat /\ oomSince[m] \in Nat \cup {Absent}
  BY DEF OutOf
<1>2. ASSUME NEW m \in Who
      PROVE  /\ oomTime'[m] \in Nat /\ oomSince'[m] \in Nat \cup {Absent}
             /\ IF oomSince'[m] = Absent THEN oomTime'[m] <= now
                ELSE oomTime'[m] <= oomSince'[m] /\ oomSince'[m] <= now
  <2>1. /\ oomSince'[m] = IF m \in S THEN Absent ELSE oomSince[m]
        /\ oomTime'[m] = IF m \in S /\ oomSince[m] # Absent
                         THEN oomTime[m] + (now - oomSince[m]) ELSE oomTime[m]
    BY DEF SinceAfter, TimeAfter
  <2>2. IF oomSince[m] = Absent THEN oomTime[m] <= now
        ELSE oomTime[m] <= oomSince[m] /\ oomSince[m] <= now
    BY DEF OutOf
  <2>3. CASE m \in S /\ oomSince[m] # Absent
    <3>1. oomSince[m] \in Nat /\ oomTime[m] + (now - oomSince[m]) \in Nat
          /\ oomTime[m] + (now - oomSince[m]) <= now
      BY <1>1, <2>2, <2>3
    <3> QED
      BY <2>1, <2>3, <3>1
  <2>4. CASE ~(m \in S /\ oomSince[m] # Absent)
    BY <1>1, <2>1, <2>2, <2>4
  <2> QED
    BY <2>3, <2>4
<1>3. oomTime' \in [Who -> Nat] /\ oomSince' \in [Who -> Nat \cup {Absent}]
  BY <1>2 DEF SinceAfter, TimeAfter
<1> QED
  BY <1>2, <1>3 DEF OutOf

\* The processor calls for nothing, or for the load it was handed.
LEMMA CalledAgain ==
    ASSUME Inv, InStep, Loads, Once, Process, NEW t \in Nat,
           calls' = <<>> \/ calls' = Call(t, payload[out.id])
    PROVE  /\ InStep' /\ Loads' /\ Once'
           /\ \A y \in Around : y # payload[out.id] => y \in Around'
           /\ \A y \in Around' : y \in Around
           /\ calls' = <<>> => payload[out.id] \notin Around'
           /\ calls' # <<>> \/ calls' = Call(t, payload[out.id]) =>
                payload[out.id] \in Around' \/ t > Duration
<1> DEFINE x == payload[out.id]
<1>1. /\ x \in Load /\ x \notin Waiting /\ Around = Waiting \cup {x}
      /\ Around' = Waiting \cup LoadsOf(calls')
      /\ /\ calls' \in Seq([at: Time, load: Load]) /\ Apart(calls')
         /\ Waiting \cap LoadsOf(calls') = {}
         => InStep' /\ Loads' /\ Once'
  BY ProcessMoves
<1> HIDE DEF x
<1>2. /\ Call(t, x) \in Seq([at: Time, load: Load])
      /\ LoadsOf(Call(t, x)) = IF t <= Duration THEN {x} ELSE {}
      /\ Apart(Call(t, x))
  BY <1>1, CallLoads
<1>3. /\ calls' \in Seq([at: Time, load: Load]) /\ Apart(calls')
      /\ LoadsOf(calls') \subseteq {x}
      /\ calls' = <<>> => LoadsOf(calls') = {}
      /\ calls' = Call(t, x) => LoadsOf(calls') = {x} \/ t > Duration
  <2>1. CASE calls' = <<>>
    <3>1. calls' = Call(t, x) => t > Duration
      BY <1>2, <2>1, NoCalls, RunnerAssumption DEF Call
    <3> QED
      BY <2>1, <3>1, NoCalls
  <2>2. CASE calls' = Call(t, x)
    <3>1. LoadsOf(calls') = {x} \/ t > Duration
      BY <1>2, <2>2, RunnerAssumption
    <3> QED
      BY <1>2, <2>2, <3>1, NoCalls
  <2> QED
    BY <2>1, <2>2 DEF x
<1> QED
  BY <1>1, <1>3 DEF x


\* A tick of the regeneration calls for the next one.
LEMMA RegenKeeps ==
    ASSUME Inv, RunnerInv, Process, payload[out.id] = Regen, PassiveRegen
    PROVE  InStep' /\ Loads' /\ Once' /\ Turns' /\ Bosses' /\ OutOf'
<1> USE DEF RunnerInv
<1>1. /\ now \in Nat /\ now' = now /\ Running /\ Running'
      /\ calls' = Call(now + RegenEvery, Regen) /\ now + RegenEvery \in Nat
      /\ UNCHANGED <<boss, awaited, cleared, maxed, kills, oomSince, oomTime>>
  BY ProcessMoves, RunnerAssumption DEF Inv, TypeOK, Running, PassiveRegen
<1>2. /\ InStep' /\ Loads' /\ Once'
      /\ \A y \in Around : y # Regen => y \in Around'
      /\ \A y \in Around' : y \in Around
      /\ Regen \in Around' \/ now + RegenEvery > Duration
  BY <1>1, CalledAgain
<1>3. Turns'
  <2>1. \A m \in Who : Regen # Attack(m)
    BY LoadsApart
  <2> QED
    BY <1>1, <1>2, <2>1, TurnsStay
<1>4. Bosses'
  <2>1. \A l \in 0..TopLevel : Spawn(l) # Regen
    BY LoadsApart
  <2> QED
    BY <1>1, <1>2, <2>1, BossesStay
<1>5. OutOf'
  BY <1>1, LacksStay
<1> QED
  BY <1>2, <1>3, <1>4, <1>5

\* A member who is not done calls for its next attack.
LEMMA AttackKeeps ==
    ASSUME Inv, RunnerInv, Process, NEW m \in Who, payload[out.id] = Attack(m),
           calls' = Call(now + Interval[m], Attack(m)),
           UNCHANGED <<awaited, cleared, maxed, kills>>,
           \/ boss' = boss
           \/ /\ boss # Absent /\ boss' \in [level: 0..TopLevel, hp: 1..Hp]
              /\ boss'.level = boss.level
    PROVE  InStep' /\ Loads' /\ Once' /\ Turns' /\ Bosses'
<1> USE DEF RunnerInv
<1>1. /\ now \in Nat /\ now' = now /\ Running /\ Running' /\ now + Interval[m] \in Nat
  BY ProcessMoves, RunnerAssumption DEF Inv, TypeOK, Running
<1>2. /\ InStep' /\ Loads' /\ Once'
      /\ \A y \in Around : y # Attack(m) => y \in Around'
      /\ \A y \in Around' : y \in Around
      /\ Attack(m) \in Around' \/ now + Interval[m] > Duration
  BY <1>1, CalledAgain
<1>3. Turns'
  <2>1. \A n \in Who : Attack(m) = Attack(n) => m = n
    BY LoadsApart
  <2>2. Attack(m) # Regen
    BY LoadsApart
  <2> QED
    BY <1>1, <1>2, <2>1, <2>2, TurnsStay
<1>4. Bosses'
  <2>1. \A l \in 0..TopLevel : Spawn(l) # Attack(m)
    BY LoadsApart
  <2>2. \A l \in 0..TopLevel : Spawn(l) \in Around' <=> Spawn(l) \in Around
    BY <1>2, <2>1
  <2> HIDE DEF RunnerInv
  <2>3. Bosses
    BY DEF RunnerInv
  <2> QED
    BY <1>1, <2>2, <2>3, BossesStay
<1> QED
  BY <1>2, <1>3, <1>4

\* The boss that was awaited appears, and nothing is called for.
LEMMA SpawnKeeps ==
    ASSUME Inv, RunnerInv, Process, NEW l \in 0..TopLevel, payload[out.id] = Spawn(l),
           SpawnBoss(l)
    PROVE  InStep' /\ Loads' /\ Once' /\ Turns' /\ Bosses' /\ OutOf'
<1> USE DEF RunnerInv
<1>1. /\ now \in Nat /\ now' = now /\ Running /\ Running'
      /\ calls' = <<>> /\ boss' = Fresh(l) /\ awaited' = Absent
      /\ UNCHANGED <<cleared, maxed, kills>>
      /\ oomSince' = SinceAfter(Who) /\ oomTime' = TimeAfter(Who)
  BY ProcessMoves DEF Inv, TypeOK, Running, SpawnBoss
<1>2. /\ InStep' /\ Loads' /\ Once'
      /\ \A y \in Around : y # Spawn(l) => y \in Around'
      /\ \A y \in Around' : y \in Around
      /\ Spawn(l) \notin Around'
  BY <1>1, CalledAgain
<1>3. Turns'
  <2>1. \A n \in Who : Attack(n) # Spawn(l)
    BY LoadsApart
  <2>2. Regen # Spawn(l)
    BY LoadsApart
  <2> QED
    BY <1>1, <1>2, <2>1, <2>2, TurnsStay
<1>4. Bosses'
  <2>1. Spawn(l) \in Around
    BY ProcessMoves
  <2>2. awaited = l /\ \A k \in 0..TopLevel : Spawn(k) \in Around => awaited = k
    BY <1>1, <2>1 DEF Bosses, Running
  <2>3. \A k \in 0..TopLevel : Spawn(k) \notin Around'
    BY <1>2, <2>2
  <2>4. l \in Nat /\ l = Len(kills) /\ boss = Absent /\ ~maxed
    BY <2>2, AbsentAssumption DEF Bosses
  <2>5. boss' \in [level: 0..TopLevel, hp: 1..Hp] /\ boss'.level = l
    BY <1>1, RunnerAssumption DEF Fresh
  <2>6. boss' # Absent
    BY <2>5, AbsentAssumption, RunnerAssumption
  <2> QED
    BY <1>1, <2>3, <2>4, <2>5, <2>6 DEF Bosses
<1>5. OutOf'
  BY <1>1, LacksClose
<1> QED
  BY <1>2, <1>3, <1>4, <1>5

\* The blow that kills a boss calls for the next one, or was the last.
LEMMA KillKeeps ==
    ASSUME Inv, RunnerInv, Process, NEW m \in Who, payload[out.id] = Attack(m),
           boss # Absent, Kill(m)
    PROVE  InStep' /\ Loads' /\ Once' /\ Turns' /\ Bosses'
<1> USE DEF RunnerInv
<1>1. /\ now \in Nat /\ now' = now /\ Running /\ Running' /\ now + Interval[m] \in Nat
      /\ now + SpawnDelay \in Nat
  BY ProcessMoves, RunnerAssumption DEF Inv, TypeOK, Running
<1>2. /\ boss \in [level: 0..TopLevel, hp: 1..Hp] /\ awaited = Absent /\ maxed = FALSE
      /\ boss.level = Len(kills) /\ boss.level \in Nat /\ boss.level <= TopLevel
      /\ kills \in Seq([level: Nat, at: Nat])
      /\ \A l \in 0..TopLevel : Spawn(l) \notin Around
  <2>1. /\ boss \in [level: 0..TopLevel, hp: 1..Hp] /\ awaited = Absent /\ maxed = FALSE
        /\ boss.level = Len(kills) /\ kills \in Seq([level: Nat, at: Nat])
    BY DEF Bosses
  <2>2. \A l \in 0..TopLevel : Spawn(l) \notin Around
    <3>1. \A l \in 0..TopLevel : Spawn(l) \in Around => awaited = l
      BY <1>1 DEF Bosses, Running
    <3> QED
      BY <2>1, <3>1, AbsentAssumption, RunnerAssumption
  <2> QED
    BY <2>1, <2>2, RunnerAssumption
<1>3. /\ boss' = Absent /\ cleared' = boss.level
      /\ kills' \in Seq([level: Nat, at: Nat])
      /\ Len(kills') = boss.level + 1 /\ kills'[Len(kills')].at = now
  <2>1. [level |-> boss.level, at |-> now] \in [level: Nat, at: Nat]
    BY <1>1, <1>2
  <2>2. kills' = Append(kills, [level |-> boss.level, at |-> now])
    BY DEF Kill
  <2>3. kills' \in Seq([level: Nat, at: Nat]) /\ Len(kills') = Len(kills) + 1
        /\ kills'[Len(kills) + 1] = [level |-> boss.level, at |-> now]
    BY <1>2, <2>1, <2>2, AppendProperties
  <2> QED
    BY <1>2, <2>3 DEF Kill
<1>4. \A n \in Who : ~Idle(n)
  BY <1>1, <1>2 DEF Turns, Running
<1>5. Regen \in Around \/ now + RegenEvery > Duration
  BY <1>1 DEF Turns, Running
<1>6. CASE boss.level >= TopLevel
  <2>1. maxed' = TRUE /\ awaited' = Absent /\ calls' = <<>> /\ boss.level = TopLevel
    BY <1>2, <1>6, RunnerAssumption DEF Kill
  <2>2. /\ InStep' /\ Loads' /\ Once'
        /\ \A y \in Around : y # Attack(m) => y \in Around'
        /\ \A y \in Around' : y \in Around
    BY <1>1, <2>1, CalledAgain
  <2>3. Turns'
    <3>1. ASSUME NEW n \in Who, Idle(n)' PROVE n = m
      <4>1. Attack(n) \notin Around' /\ now + Interval[n] <= Duration
        BY <1>1, <3>1 DEF Idle
      <4>2. Attack(n) \in Around
        BY <1>4, <4>1 DEF Idle
      <4> QED
        BY <2>2, <4>1, <4>2, LoadsApart
    <3>2. Regen \in Around' \/ now + RegenEvery > Duration
      BY <1>5, <2>2, LoadsApart
    <3> QED
      BY <1>1, <2>1, <3>1, <3>2 DEF Turns
  <2>4. Bosses'
    <3>1. \A l \in 0..TopLevel : Spawn(l) \notin Around'
      BY <1>2, <2>2
    <3> QED
      BY <1>1, <1>3, <2>1, <3>1 DEF Bosses
  <2> QED
    BY <2>2, <2>3, <2>4
<1>7. CASE ~(boss.level >= TopLevel)
  <2> DEFINE l == boss.level + 1
             a == Call(now + SpawnDelay, Spawn(l))
             b == Call(now + Interval[m], Attack(m))
  <2>1. /\ maxed' = FALSE /\ awaited' = l /\ calls' = a \o b
        /\ l \in 1..TopLevel /\ l \in 0..TopLevel
    BY <1>2, <1>7, RunnerAssumption DEF Kill, NextLevel
  <2> HIDE DEF l
  <2>2. Spawn(l) \in Load /\ Attack(m) \in Load /\ Spawn(l) # Attack(m)
    BY <2>1, LoadsDiffer, LoadsApart
  <2>3. /\ a \in Seq([at: Time, load: Load]) /\ Apart(a)
        /\ LoadsOf(a) = IF now + SpawnDelay <= Duration THEN {Spawn(l)} ELSE {}
    BY <1>1, <2>2, CallLoads
  <2>4. /\ b \in Seq([at: Time, load: Load]) /\ Apart(b)
        /\ LoadsOf(b) = IF now + Interval[m] <= Duration THEN {Attack(m)} ELSE {}
    BY <1>1, <2>2, CallLoads
  <2> HIDE DEF a, b
  <2>5. LoadsOf(a) \cap LoadsOf(b) = {}
    BY <2>2, <2>3, <2>4
  <2>6. /\ calls' \in Seq([at: Time, load: Load]) /\ Apart(calls')
        /\ LoadsOf(calls') = LoadsOf(a) \cup LoadsOf(b)
    BY <2>1, <2>3, <2>4, <2>5, JoinedCalls
  <2>7. /\ Attack(m) \notin Waiting /\ Around = Waiting \cup {Attack(m)}
        /\ Around' = Waiting \cup LoadsOf(calls')
        /\ Waiting \cap LoadsOf(calls') = {} => InStep' /\ Loads' /\ Once'
    BY <2>6, ProcessMoves
  <2>8. Waiting \cap LoadsOf(calls') = {}
    <3>1. Spawn(l) \notin Waiting
      BY <1>2, <2>1, <2>7
    <3> QED
      BY <2>3, <2>4, <2>6, <2>7, <3>1
  <2>9. Turns'
    <3>1. ASSUME NEW n \in Who, Idle(n)' PROVE FALSE
      <4>1. Attack(n) \notin Around' /\ now + Interval[n] <= Duration
        BY <1>1, <3>1 DEF Idle
      <4>2. Attack(n) \in Around
        BY <1>4, <4>1 DEF Idle
      <4>3. n = m
        BY <2>7, <4>1, <4>2, LoadsApart
      <4> QED
        BY <2>4, <2>6, <2>7, <4>1, <4>3
    <3>2. Regen \in Around' \/ now + RegenEvery > Duration
      BY <1>5, <2>7, LoadsApart
    <3> QED
      BY <1>1, <3>1, <3>2 DEF Turns
  <2>10. Bosses'
    <3>1. l # Absent /\ l = Len(kills')
      BY <1>3, <2>1, AbsentAssumption, RunnerAssumption DEF l
    <3>2. \A k \in 0..TopLevel : Spawn(k) \in Around' => k = l
      <4>1. \A k \in 0..TopLevel : Spawn(k) # Attack(m)
        BY LoadsApart
      <4>2. \A k \in 0..TopLevel : Spawn(k) = Spawn(l) => k = l
        BY <2>1, LoadsApart
      <4> QED
        BY <1>2, <2>3, <2>4, <2>6, <2>7, <4>1, <4>2
    <3>3. Spawn(l) \in Around' \/ kills'[Len(kills')].at + SpawnDelay > Duration
      <4>1. CASE now + SpawnDelay <= Duration
        BY <2>3, <2>6, <2>7, <4>1
      <4>2. CASE ~(now + SpawnDelay <= Duration)
        BY <1>1, <1>3, <4>2, RunnerAssumption
      <4> QED
        BY <4>1, <4>2
    <3> QED
      BY <1>1, <1>3, <2>1, <3>1, <3>2, <3>3 DEF Bosses
  <2> QED
    BY <2>7, <2>8, <2>9, <2>10
<1> QED
  BY <1>6, <1>7


\* The processor, whatever it is handed.
LEMMA ProcessKeeps ==
    ASSUME Inv, RunnerInv, Process
    PROVE  InStep' /\ Loads' /\ Once' /\ Turns' /\ Bosses' /\ OutOf'
<1> DEFINE x == payload[out.id]
<1>1. x \in Load /\ now \in Nat /\ now' = now
  <2>1. InStep /\ Loads /\ Once
    BY DEF RunnerInv
  <2>2. now \in Nat
    BY DEF Inv, TypeOK
  <2> QED
    BY <2>1, <2>2, ProcessMoves
<1>2. OutOf
  BY DEF RunnerInv
<1>3. CASE x.kind = "spawnBoss" /\ SpawnBoss(x.level)
  <2>1. x.level \in 0..TopLevel /\ x = Spawn(x.level)
    BY <1>1, <1>3, LoadsDiffer
  <2> QED
    BY <1>3, <2>1, SpawnKeeps
<1>4. CASE x.kind = "passiveRegen" /\ PassiveRegen
  BY <1>1, <1>4, LoadsDiffer, RegenKeeps
<1>5. CASE /\ x.kind = "memberAttack"
           /\ \/ NoTurn(x.who)
              \/ \E cost \in 0..1 : OutOfMana(x.who, cost)
              \/ \E damage \in 0..MaxDamage, cost \in 0..1 : Hit(x.who, damage, cost)
  <2> DEFINE m == x.who
  <2>1. m \in Who /\ x = Attack(m)
    BY <1>1, <1>5, LoadsDiffer
  <2> HIDE DEF m
  <2>2. CASE NoTurn(m)
    <3>1. /\ calls' = Call(now + Interval[m], Attack(m))
          /\ UNCHANGED <<awaited, cleared, maxed, kills, boss, oomSince, oomTime>>
      BY <2>2 DEF NoTurn, trial
    <3>2. OutOf'
      BY <1>1, <1>2, <3>1, LacksStay
    <3> QED
      BY <2>1, <3>1, <3>2, AttackKeeps
  <2>3. ASSUME NEW cost \in 0..1, OutOfMana(m, cost)
        PROVE  InStep' /\ Loads' /\ Once' /\ Turns' /\ Bosses' /\ OutOf'
    <3>1. /\ calls' = Call(now + Interval[m], Attack(m))
          /\ UNCHANGED <<awaited, cleared, maxed, kills, boss, oomTime>>
          /\ oomSince' = [oomSince EXCEPT ![m] = IF @ = Absent THEN now ELSE @]
      BY <2>3 DEF OutOfMana
    <3>2. OutOf'
      <4>1. oomTime \in [Who -> Nat] /\ oomSince \in [Who -> Nat \cup {Absent}]
        BY <1>2 DEF OutOf
      <4>2. oomSince' \in [Who -> Nat \cup {Absent}]
        BY <1>1, <2>1, <3>1, <4>1
      <4>3. ASSUME NEW n \in Who
            PROVE  IF oomSince'[n] = Absent THEN oomTime[n] <= now
                   ELSE oomTime[n] <= oomSince'[n] /\ oomSince'[n] <= now
        <5>1. IF oomSince[n] = Absent THEN oomTime[n] <= now
              ELSE oomTime[n] <= oomSince[n] /\ oomSince[n] <= now
          BY <1>2 DEF OutOf
        <5>2. oomSince'[n] = oomSince[n] \/ (oomSince[n] = Absent /\ oomSince'[n] = now)
          BY <3>1, <4>1
        <5>3. now # Absent /\ now <= now
          BY <1>1, AbsentAssumption
        <5> QED
          BY <5>1, <5>2, <5>3
      <4> QED
        BY <1>1, <3>1, <4>1, <4>2, <4>3 DEF OutOf
    <3> QED
      BY <2>1, <3>1, <3>2, AttackKeeps
  <2>4. ASSUME NEW damage \in 0..MaxDamage, NEW cost \in 0..1, Hit(m, damage, cost)
        PROVE  InStep' /\ Loads' /\ Once' /\ Turns' /\ Bosses' /\ OutOf'
    <3>1. OutOf'
      <4>1. oomSince' = SinceAfter({m}) /\ oomTime' = TimeAfter({m})
        BY <2>4 DEF Hit
      <4> QED
        BY <1>1, <1>2, <2>1, <4>1, LacksClose
    <3>2. CASE damage >= boss.hp
      <4>1. Kill(m) /\ boss # Absent
        BY <2>4, <3>2 DEF Hit
      <4> QED
        BY <2>1, <3>1, <4>1, KillKeeps
    <3>3. CASE ~(damage >= boss.hp)
      <4>1. /\ boss # Absent /\ boss' = [boss EXCEPT !.hp = @ - damage]
            /\ calls' = Call(now + Interval[m], Attack(m))
            /\ UNCHANGED <<awaited, cleared, maxed, kills>>
        BY <2>4, <3>3 DEF Hit
      <4>2. boss \in [level: 0..TopLevel, hp: 1..Hp]
        BY <4>1 DEF RunnerInv, Bosses
      <4>3. boss.hp - damage \in 1..Hp
        <5>1. boss.hp \in Nat /\ boss.hp <= Hp /\ damage \in Nat /\ Hp \in Nat
          BY <4>2, RunnerAssumption
        <5> QED
          BY <3>3, <5>1
      <4>4. boss' \in [level: 0..TopLevel, hp: 1..Hp] /\ boss'.level = boss.level
        BY <4>1, <4>2, <4>3
      <4> QED
        BY <2>1, <3>1, <4>1, <4>4, AttackKeeps
    <3> QED
      BY <3>2, <3>3
  <2> QED
    BY <1>5, <2>2, <2>3, <2>4 DEF m
<1> QED
  BY <1>3, <1>4, <1>5 DEF Process

\* What run returns, from the bosses and the lacks of mana at the deadline.
LEMMA CompleteFits ==
    ASSUME Inv, RunnerInv, Complete
    PROVE  ResultFits'
<1>1. /\ now \in Nat /\ now <= Duration /\ Duration \in Nat /\ Running
  BY RunnerAssumption DEF RunnerInv, InStep, Inv, TypeOK, NothingPassed, Complete, Finish, Running
<1>2. Bosses /\ OutOf
  BY DEF RunnerInv
<1>3. /\ result'.level = FinalBoss.level
      /\ result'.hp = (IF maxed THEN 0 ELSE FinalBoss.hp)
      /\ result'.waves = Len(kills) /\ result'.awaiting = (~maxed /\ boss = Absent)
      /\ result'.maxed = maxed
      /\ \A m \in Who : result'.oom[m] = oomTime[m] +
                          IF oomSince[m] = Absent THEN 0 ELSE Duration - oomSince[m]
  BY DEF Complete
<1>4. result'.level = IF maxed THEN TopLevel ELSE Len(kills)
  <2>1. CASE boss # Absent
    <3>1. FinalBoss = boss /\ ~maxed
      BY <1>2, <2>1 DEF FinalBoss, Bosses
    <3> QED
      BY <1>2, <1>3, <2>1, <3>1 DEF Bosses
  <2>2. CASE boss = Absent /\ maxed
    <3>1. FinalBoss = [level |-> cleared, hp |-> 0] /\ cleared = TopLevel
      BY <1>2, <2>2 DEF FinalBoss, Bosses
    <3> QED
      BY <1>3, <2>2, <3>1
  <2>3. CASE boss = Absent /\ ~maxed
    <3>1. FinalBoss = Fresh(Len(kills))
      BY <1>2, <2>3 DEF FinalBoss, Bosses
    <3> QED
      BY <1>3, <2>3, <3>1 DEF Fresh
  <2> QED
    BY <2>1, <2>2, <2>3
<1>5. ~maxed /\ boss = Absent => result'.hp = Hp
  BY <1>3 DEF FinalBoss, Fresh
<1>6. maxed => result'.hp = 0 /\ Len(kills) = TopLevel + 1
  BY <1>2, <1>3 DEF Bosses
<1>7. ASSUME NEW m \in Who PROVE result'.oom[m] \in 0..Duration
  <2>1. oomTime[m] \in Nat /\ oomSince[m] \in Nat \cup {Absent}
    BY <1>2 DEF OutOf
  <2>2. IF oomSince[m] = Absent THEN oomTime[m] <= now
        ELSE oomTime[m] <= oomSince[m] /\ oomSince[m] <= now
    BY <1>2 DEF OutOf
  <2>3. CASE oomSince[m] = Absent
    <3>1. result'.oom[m] = oomTime[m] + 0
      BY <1>3, <2>3
    <3> QED
      BY <1>1, <2>1, <2>2, <2>3, <3>1
  <2>4. CASE oomSince[m] # Absent
    <3>1. result'.oom[m] = oomTime[m] + (Duration - oomSince[m]) /\ oomSince[m] \in Nat
      BY <1>3, <2>1, <2>4
    <3> QED
      BY <1>1, <2>1, <2>2, <2>4, <3>1
  <2> QED
    BY <2>3, <2>4
<1> QED
  BY <1>2, <1>3, <1>4, <1>5, <1>6, <1>7 DEF ResultFits, Bosses

LEMMA RunnerInitInv == RunnerInit => RunnerInv
<1> SUFFICES ASSUME RunnerInit PROVE RunnerInv
  OBVIOUS
<1>1. /\ pending = {} /\ issued = 0 /\ phase = "outside" /\ now = 0 /\ stage = "setup"
      /\ payload = <<>> /\ result = Absent
  BY DEF RunnerInit, Init, PQInit
<1> DEFINE c == [i \in DOMAIN Party |->
                    [at |-> Interval[Party[i]], load |-> Attack(Party[i])]]
           d == <<[at |-> RegenEvery, load |-> Regen]>>
<1>2. Party \in Seq(Who) /\ Len(Party) \in Nat /\ DOMAIN Party = 1..Len(Party)
      /\ \A i \in 1..Len(Party) : Party[i] \in Who
  BY PartyAssumption, LenProperties, ElementOfSeq
<1>3. /\ c \in Seq([at: Time, load: Load]) /\ Len(c) = Len(Party)
      /\ \A i \in 1..Len(c) : c[i].load = Attack(Party[i])
  <2>1. ASSUME NEW i \in 1..Len(Party)
        PROVE  [at |-> Interval[Party[i]], load |-> Attack(Party[i])] \in [at: Time, load: Load]
    BY <1>2, <2>1, LoadsDiffer, InstantsAssumption
  <2>2. c \in [1..Len(Party) -> [at: Time, load: Load]]
    BY <1>2, <2>1
  <2>3. c \in Seq([at: Time, load: Load]) /\ Len(c) = Len(Party)
    BY <1>2, <2>2
  <2> QED
    BY <1>2, <2>3
<1>4. LoadsOf(c) = {Attack(m) : m \in Who}
  BY <1>2, <1>3 DEF LoadsOf, Who
<1>5. Apart(c)
  <2> SUFFICES ASSUME NEW i \in 1..Len(c), NEW j \in 1..Len(c), c[i].load = c[j].load
               PROVE  i = j
    BY DEF Apart
  <2>1. Attack(Party[i]) = Attack(Party[j])
    BY <1>3
  <2>2. Party[i] = Party[j]
    BY <1>2, <1>3, <2>1, LoadsApart
  <2> QED
    BY <1>2, <1>3, <2>2, PartyAssumption
<1>6. d \in Seq([at: Time, load: Load]) /\ LoadsOf(d) = {Regen} /\ Apart(d)
  <2>1. [at |-> RegenEvery, load |-> Regen] \in [at: Time, load: Load]
    BY LoadsDiffer, InstantsAssumption
  <2> QED
    BY <2>1 DEF LoadsOf, Apart
<1> HIDE DEF c, d
<1>7. /\ calls \in Seq([at: Time, load: Load]) /\ Apart(calls)
      /\ Called = {Attack(m) : m \in Who} \cup {Regen}
  <2>1. calls = c \o d
    BY DEF RunnerInit, c, d
  <2>2. LoadsOf(c) \cap LoadsOf(d) = {}
    BY <1>4, <1>6, LoadsApart
  <2> QED
    BY <1>3, <1>4, <1>5, <1>6, <2>1, <2>2, JoinedCalls DEF Called
<1>8. Waiting = {} /\ InHand = {} /\ Around = {Attack(m) : m \in Who} \cup {Regen}
  BY <1>1, <1>7 DEF Waiting, InHand, Around
<1>9. InStep /\ Loads /\ Once
  BY <1>1, <1>7, <1>8, EmptySeq DEF InStep, Loads, Once
<1>10. Turns
  BY <1>8 DEF Turns, Idle
<1>11. Bosses
  <2>1. /\ boss = Fresh(0) /\ awaited = Absent /\ maxed = FALSE /\ kills = <<>>
    BY DEF RunnerInit
  <2>2. boss \in [level: 0..TopLevel, hp: 1..Hp] /\ boss.level = 0
    BY <2>1, RunnerAssumption DEF Fresh
  <2>3. boss # Absent
    BY <2>2, AbsentAssumption, RunnerAssumption
  <2>4. kills \in Seq([level: Nat, at: Nat]) /\ Len(kills) = 0
    BY <2>1, EmptySeq
  <2>5. \A l \in 0..TopLevel : Spawn(l) \notin Around
    BY <1>8, LoadsApart
  <2> QED
    BY <2>1, <2>2, <2>3, <2>4, <2>5 DEF Bosses
<1>12. OutOf
  BY <1>1 DEF RunnerInit, OutOf
<1>13. ResultFits
  BY <1>1 DEF ResultFits
<1> QED
  BY <1>9, <1>10, <1>11, <1>12, <1>13 DEF RunnerInv

LEMMA RunnerNextInv == Inv /\ RunnerInv /\ [RunnerNext]_allVars => RunnerInv'
<1> SUFFICES ASSUME Inv, RunnerInv, [RunnerNext]_allVars PROVE RunnerInv'
  OBVIOUS
<1>0. /\ InStep /\ Loads /\ Once /\ Turns /\ Bosses /\ OutOf /\ ResultFits
      /\ now \in Nat /\ now <= now
  BY DEF RunnerInv, Inv, TypeOK
<1>1. CASE ScheduleCall
  <2>1. InStep' /\ Loads' /\ Once' /\ Around' = Around /\ now' = now
    BY <1>0, <1>1, CallMoves
  <2>2. UNCHANGED <<stage, trial, result>>
    BY <1>1 DEF ScheduleCall
  <2>3. UNCHANGED <<boss, awaited, cleared, maxed, kills, oomSince, oomTime>>
    BY <2>2 DEF trial
  <2>4. Turns'
    BY <1>0, <2>1, <2>2, <2>3, TurnsStay DEF Running
  <2>5. Bosses'
    BY <1>0, <2>1, <2>2, <2>3, BossesStay DEF Running
  <2>6. OutOf'
    BY <1>0, <2>1, <2>3, LacksStay
  <2>7. ResultFits'
    BY <1>0, <2>2 DEF ResultFits
  <2> QED
    BY <2>1, <2>4, <2>5, <2>6, <2>7 DEF RunnerInv
<1>2. CASE DeliverEvent
  <2>1. InStep' /\ Loads' /\ Once' /\ Around' = Around /\ now' \in Nat /\ now <= now'
    BY <1>0, <1>2, DeliveryMoves
  <2>2. UNCHANGED <<stage, trial, result>>
    BY <1>2 DEF DeliverEvent, runnerVars
  <2>3. UNCHANGED <<boss, awaited, cleared, maxed, kills, oomSince, oomTime>>
    BY <2>2 DEF trial
  <2>4. Turns'
    BY <1>0, <2>1, <2>2, <2>3, TurnsStay DEF Running
  <2>5. Bosses'
    BY <1>0, <2>1, <2>2, <2>3, BossesStay DEF Running
  <2>6. OutOf'
    BY <1>0, <2>1, <2>3, LacksStay
  <2>7. ResultFits'
    BY <1>0, <2>2 DEF ResultFits
  <2> QED
    BY <2>1, <2>4, <2>5, <2>6, <2>7 DEF RunnerInv
<1>3. CASE Process
  <2>1. InStep' /\ Loads' /\ Once' /\ Turns' /\ Bosses' /\ OutOf'
    BY <1>3, ProcessKeeps
  <2>2. ResultFits'
    BY <1>0, <1>3 DEF Process, ResultFits
  <2> QED
    BY <2>1, <2>2 DEF RunnerInv
<1>4. CASE Start \/ Return \/ Throw \/ UNCHANGED allVars
  <2>1. /\ InStep' /\ Loads' /\ Once'
        /\ Running' => Around' = Around
        /\ now' = now
    BY <1>0, <1>4, OthersStay DEF Running, Start, RunUntil, Return, Processed, Throw,
       allVars, vars, loopVars
  <2>2. Running' => Running
    BY <1>4 DEF Running, Start, Return, Throw, allVars, runnerVars
  <2>3. UNCHANGED <<trial, result>>
    BY <1>4 DEF Start, Return, Throw, allVars, runnerVars
  <2>4. UNCHANGED <<boss, awaited, cleared, maxed, kills, oomSince, oomTime>>
    BY <2>3 DEF trial
  <2>5. Turns'
    BY <1>0, <2>1, <2>2, <2>4, TurnsStay
  <2>6. Bosses'
    BY <1>0, <2>1, <2>2, <2>4, BossesStay
  <2>7. OutOf'
    BY <1>0, <2>1, <2>4, LacksStay
  <2>8. ResultFits'
    BY <1>0, <2>3 DEF ResultFits
  <2> QED
    BY <2>1, <2>5, <2>6, <2>7, <2>8 DEF RunnerInv
<1>5. CASE Complete \/ CompleteThrows
  <2>1. InStep' /\ Loads' /\ Once'
    BY <1>0, <1>5, OthersStay
  <2>2. ~Running'
    BY <1>5 DEF Complete, CompleteThrows, Running
  <2>3. UNCHANGED trial
    BY <1>5 DEF Complete, CompleteThrows
  <2>4. UNCHANGED <<boss, awaited, cleared, maxed, kills, oomSince, oomTime>>
    BY <2>3 DEF trial
  <2>5. Turns'
    BY <2>2 DEF Turns, Running
  <2>6. Bosses'
    BY <1>0, <2>2, <2>4, BossesStay
  <2>7. now' \in Nat /\ now <= now'
    BY <1>5 DEF Complete, CompleteThrows, Finish, Inv, TypeOK, NothingPassed
  <2>8. OutOf'
    BY <1>0, <2>4, <2>7, LacksStay
  <2>9. ResultFits'
    BY <1>0, <1>5, CompleteFits DEF CompleteThrows, ResultFits
  <2> QED
    BY <2>1, <2>5, <2>6, <2>8, <2>9 DEF RunnerInv
<1> QED
  BY <1>1, <1>2, <1>3, <1>4, <1>5 DEF RunnerNext

-----------------------------------------------------------------------------
(* What the runner promises                                                *)

\* A trial is a run of the event loop: the runner schedules what the loop
\* accepts, and all that is proved of the loop holds of it.
THEOREM RunnerUsesTheLoop == RunnerSpec => Spec
<1>1. RunnerInit => Init /\ Inv /\ RunnerInv
  BY InitInv, RunnerInitInv DEF RunnerInit
<1>2. Inv /\ RunnerInv /\ [RunnerNext]_allVars => [Next]_vars /\ Inv' /\ RunnerInv'
  <2> SUFFICES ASSUME Inv, RunnerInv, [RunnerNext]_allVars
               PROVE  [Next]_vars /\ Inv' /\ RunnerInv'
    OBVIOUS
  <2>1. [Next]_vars
    BY StepOfTheLoop DEF RunnerInv, allVars
  <2> QED
    BY <2>1, NextInv, RunnerNextInv
<1> QED
  BY <1>1, <1>2, PTL DEF RunnerSpec, Spec

LEMMA RunnerInvHolds == RunnerSpec => [](Inv /\ RunnerInv)
<1>1. RunnerInit => Inv /\ RunnerInv
  BY InitInv, RunnerInitInv DEF RunnerInit
<1>2. Inv /\ RunnerInv /\ [RunnerNext]_allVars => Inv' /\ RunnerInv'
  <2> SUFFICES ASSUME Inv, RunnerInv, [RunnerNext]_allVars PROVE Inv' /\ RunnerInv'
    OBVIOUS
  <2>1. [Next]_vars
    BY StepOfTheLoop DEF RunnerInv, allVars
  <2> QED
    BY <2>1, NextInv, RunnerNextInv
<1> QED
  BY <1>1, <1>2, PTL DEF RunnerSpec

LEMMA FewerThanTwo ==
    ASSUME NEW S, \A x, y \in S : x = y
    PROVE  Cardinality(S) <= 1 /\ (S # {} => Cardinality(S) = 1)
<1>1. CASE S = {}
  BY <1>1, FS_EmptySet
<1>2. CASE S # {}
  <2>1. PICK x \in S : TRUE
    BY <1>2
  <2>2. S = {x}
    BY <2>1
  <2>3. Cardinality({x}) = 1
    BY FS_Singleton
  <2> QED
    BY <2>2, <2>3
<1> QED
  BY <1>1, <1>2

\* Between two events no load waits twice, and all loads around wait.
LEMMA QueuedLoads ==
    ASSUME RunnerInv, stage = "loop", phase = "looping"
    PROVE  /\ Running
           /\ \A x \in Around : Queued({x}) # {}
           /\ \A x : Cardinality(Queued({x})) <= 1 /\ (Queued({x}) # {} => Cardinality(Queued({x})) = 1)
           /\ \A S : \A e \in Queued(S) : payload[e.id] \in S \cap Around
<1>1. calls = <<>> /\ Called = {} /\ InHand = {}
  BY NoCalls DEF RunnerInv, InStep, Called, InHand
<1>2. Around = Waiting
  BY <1>1 DEF Around
<1>3. \A x \in Around : Queued({x}) # {}
  BY <1>2 DEF Waiting, Queued
<1>4. ASSUME NEW x
      PROVE  Cardinality(Queued({x})) <= 1 /\ (Queued({x}) # {} => Cardinality(Queued({x})) = 1)
  <2>1. \A e, f \in Queued({x}) : e = f
    BY DEF Queued, RunnerInv, Once
  <2> QED
    BY <2>1, FewerThanTwo
<1>5. \A S : \A e \in Queued(S) : payload[e.id] \in S \cap Around
  BY <1>2 DEF Queued, Waiting
<1> QED
  BY <1>3, <1>4, <1>5 DEF Running

(* Between two events every member has one attack ahead, unless it lies    *)
(* past the end of the trial or the member has slain the last boss.        *)
THEOREM EveryoneHasATurnHolds == RunnerSpec => []EveryoneHasATurn
<1>1. ASSUME Inv, RunnerInv, stage = "loop", phase = "looping"
      PROVE  /\ \A m \in Who :
                  \/ Cardinality(Queued({Attack(m)})) = 1
                  \/ Queued({Attack(m)}) = {} /\ (maxed \/ now + Interval[m] > Duration)
             /\ Cardinality({m \in Who : Queued({Attack(m)}) = {} /\ now + Interval[m] <= Duration}) <= 1
             /\ Cardinality(Queued({Regen})) = 1 \/ now + RegenEvery > Duration
  <2>1. /\ Running /\ Turns
        /\ \A x \in Around : Queued({x}) # {}
        /\ \A x : Queued({x}) # {} => Cardinality(Queued({x})) = 1
        /\ \A S : \A e \in Queued(S) : payload[e.id] \in S \cap Around
    BY <1>1, QueuedLoads DEF RunnerInv
  <2>2. \A m \in Who : Idle(m) => maxed
    BY <2>1 DEF Turns, Running
  <2>3. ASSUME NEW m \in Who, Queued({Attack(m)}) = {}
        PROVE  maxed \/ now + Interval[m] > Duration
    <3>1. Attack(m) \notin Around
      BY <2>1, <2>3
    <3>2. ~maxed => ~(now + Interval[m] <= Duration)
      BY <2>2, <3>1 DEF Idle
    <3>3. now \in Nat /\ Interval[m] \in Nat /\ Duration \in Nat
      BY <1>1, RunnerAssumption DEF Inv, TypeOK
    <3> QED
      BY <3>2, <3>3
  <2>4. Cardinality({m \in Who : Queued({Attack(m)}) = {} /\ now + Interval[m] <= Duration}) <= 1
    <3> DEFINE S == {m \in Who : Queued({Attack(m)}) = {} /\ now + Interval[m] <= Duration}
    <3>1. \A m \in S : Idle(m)
      BY <2>1 DEF Idle
    <3>2. \A m, n \in S : m = n
      BY <2>1, <3>1 DEF Turns, Running
    <3> HIDE DEF S
    <3>3. Cardinality(S) <= 1
      BY <3>2, FewerThanTwo
    <3> QED
      BY <3>3 DEF S
  <2>5. Cardinality(Queued({Regen})) = 1 \/ now + RegenEvery > Duration
    BY <2>1 DEF Turns, Running
  <2> QED
    BY <2>1, <2>3, <2>4, <2>5
<1>2. Inv /\ RunnerInv => EveryoneHasATurn
  BY <1>1 DEF EveryoneHasATurn
<1> QED
  BY <1>2, RunnerInvHolds, PTL

(* There is a boss, or one is on its way, or it would come too late, or    *)
(* the last one is slain: never two of these, and the levels follow the    *)
(* kills.                                                                  *)
THEOREM OneBossAtATimeHolds == RunnerSpec => []OneBossAtATime
<1> DEFINE coming == Queued({Spawn(l) : l \in 0..TopLevel})
<1>1. ASSUME RunnerInv, stage = "loop", phase = "looping"
      PROVE  /\ Cardinality(coming) <= 1
             /\ (boss # Absent) = (awaited = Absent /\ ~maxed)
             /\ boss # Absent => coming = {} /\ boss.level = Len(kills) /\ boss.hp > 0
             /\ awaited # Absent =>
                  /\ awaited = Len(kills)
                  /\ coming = {} => kills[Len(kills)].at + SpawnDelay > Duration
             /\ maxed => coming = {} /\ Len(kills) = TopLevel + 1
  <2>1. /\ Running /\ Bosses
        /\ \A x \in Around : Queued({x}) # {}
        /\ \A S : \A e \in Queued(S) : payload[e.id] \in S \cap Around
    BY <1>1, QueuedLoads DEF RunnerInv
  <2>2. /\ \A l \in 0..TopLevel : Spawn(l) \in Around => awaited = l
        /\ awaited # Absent =>
              Spawn(awaited) \in Around \/ kills[Len(kills)].at + SpawnDelay > Duration
    BY <2>1 DEF Bosses, Running
  <2>3. \A e \in coming : \E l \in 0..TopLevel : payload[e.id] = Spawn(l) /\ awaited = l
    BY <2>1, <2>2
  <2>4. \A e, f \in coming : e = f
    <3>1. \A e, f \in coming : payload[e.id] = payload[f.id]
      BY <2>3
    <3> QED
      BY <1>1, <3>1 DEF RunnerInv, Once, Queued
  <2>5. awaited = Absent => coming = {}
    BY <2>3, AbsentAssumption
  <2>6. awaited # Absent /\ Spawn(awaited) \in Around => coming # {}
    <3> SUFFICES ASSUME awaited # Absent, Spawn(awaited) \in Around PROVE coming # {}
      OBVIOUS
    <3>1. awaited \in 0..TopLevel
      BY <2>1, RunnerAssumption DEF Bosses
    <3>2. PICK e \in Queued({Spawn(awaited)}) : TRUE
      BY <2>1
    <3> QED
      BY <3>1, <3>2 DEF Queued
  <2>7. /\ boss # Absent <=> awaited = Absent /\ ~maxed
        /\ boss # Absent => boss.level = Len(kills) /\ boss.hp > 0
        /\ awaited # Absent => awaited = Len(kills)
        /\ maxed => awaited = Absent /\ Len(kills) = TopLevel + 1
    BY <2>1, RunnerAssumption DEF Bosses
  <2> HIDE DEF coming
  <2>8. Cardinality(coming) <= 1
    BY <2>4, FewerThanTwo
  <2> QED
    BY <2>2, <2>5, <2>6, <2>7, <2>8
<1>2. RunnerInv => OneBossAtATime
  BY <1>1 DEF OneBossAtATime
<1> QED
  BY <1>2, RunnerInvHolds, PTL

(* What run returns fits together: the level, the waves, the hit points    *)
(* left and the time without mana.                                         *)
THEOREM ResultFitsHolds == RunnerSpec => []ResultFits
<1>1. RunnerInv => ResultFits
  BY DEF RunnerInv
<1> QED
  BY <1>1, RunnerInvHolds, PTL

-----------------------------------------------------------------------------
(* The damage                                                              *)

\* What the bosses have lost so far.
Lost == Len(kills) * Hp + (IF boss = Absent THEN 0 ELSE Hp - boss.hp)

DamageInv ==
    /\ dealt \in [Who -> Nat]
    /\ IsFiniteSet(PointsOf(dealt)) /\ Cardinality(PointsOf(dealt)) = Lost
    /\ stage # "over" => result = Absent
    /\ DamageAddsUp

\* The number of points is the sum of the damages: n more for one member are n more.
LEMMA PointsGrow ==
    ASSUME NEW f \in [Who -> Nat], NEW m \in Who, NEW n \in Nat, IsFiniteSet(PointsOf(f))
    PROVE  LET g == [f EXCEPT ![m] = @ + n] IN
           /\ IsFiniteSet(PointsOf(g))
           /\ Cardinality(PointsOf(g)) = Cardinality(PointsOf(f)) + n
<1> DEFINE g == [f EXCEPT ![m] = @ + n]
           S == f[m] + 1 .. f[m] + n
           T == {<<m, p>> : p \in S}
           b == [p \in S |-> <<m, p>>]
<1>1. f[m] \in Nat /\ g \in [Who -> Nat] /\ g[m] = f[m] + n
      /\ \A k \in Who \ {m} : g[k] = f[k]
  OBVIOUS
<1>2. IsFiniteSet(S) /\ Cardinality(S) = n
  <2>1. f[m] + 1 \in Int /\ f[m] + n \in Int
    BY <1>1
  <2>2. /\ IsFiniteSet(S)
        /\ Cardinality(S) = IF f[m] + 1 > f[m] + n THEN 0 ELSE (f[m] + n) - (f[m] + 1) + 1
    BY <2>1, FS_Interval
  <2> QED
    BY <1>1, <2>2
<1>3. b \in Bijection(S, T)
  BY DEF Bijection, Injection, Surjection, IsInjective
<1>4. IsFiniteSet(T) /\ Cardinality(T) = n
  <2> HIDE DEF S, T, b
  <2>1. ExistsBijection(S, T)
    BY <1>3 DEF ExistsBijection
  <2> QED
    BY <1>2, <2>1, FS_Bijection
<1>5. PointsOf(g) = PointsOf(f) \cup T
  <2>1. \A k \in Who \ {m} : 1..g[k] = 1..f[k]
    BY <1>1
  <2>2. 1..g[m] = (1..f[m]) \cup S
    BY <1>1
  <2>3. \A k \in Who : {<<k, p>> : p \in 1..g[k]} =
                          {<<k, p>> : p \in 1..f[k]} \cup (IF k = m THEN T ELSE {})
    BY <2>1, <2>2
  <2> HIDE DEF g, T
  <2> QED
    BY <2>3 DEF PointsOf
<1>6. PointsOf(f) \cap T = {}
  <2>1. \A p \in S : p \notin 1..f[m]
    BY <1>1
  <2> QED
    BY <2>1 DEF PointsOf
<1> HIDE DEF T
<1>7. /\ IsFiniteSet(PointsOf(f) \cup T)
      /\ Cardinality(PointsOf(f) \cup T) =
            Cardinality(PointsOf(f)) + Cardinality(T) - Cardinality(PointsOf(f) \cap T)
  BY <1>4, FS_Union
<1>8. Cardinality(PointsOf(f)) \in Nat
  BY FS_CardinalityType
<1>9. Cardinality({}) = 0
  BY FS_EmptySet
<1> HIDE DEF g
<1>10. /\ IsFiniteSet(PointsOf(g))
       /\ Cardinality(PointsOf(g)) = Cardinality(PointsOf(f)) + n
  <2>1. Cardinality(PointsOf(f) \cap T) = 0
    BY <1>6, <1>9
  <2>2. Cardinality(PointsOf(g)) = Cardinality(PointsOf(f)) + n - 0
    BY <1>4, <1>5, <1>7, <2>1
  <2>3. IsFiniteSet(PointsOf(g))
    BY <1>5, <1>7
  <2> QED
    BY <1>8, <2>2, <2>3
<1> QED
  BY <1>10 DEF g

LEMMA DamageInitInv == RunnerInit => DamageInv
<1> SUFFICES ASSUME RunnerInit PROVE DamageInv
  OBVIOUS
<1>1. dealt \in [Who -> Nat] /\ \A m \in Who : 1..dealt[m] = {}
  BY DEF RunnerInit
<1>2. PointsOf(dealt) = {}
  BY <1>1 DEF PointsOf
<1>3. /\ boss = Fresh(0) /\ boss # Absent /\ boss.hp = Hp /\ kills = <<>> /\ result = Absent
  BY RunnerAssumption, AbsentAssumption DEF RunnerInit, Fresh
<1>4. Lost = 0
  BY <1>3, RunnerAssumption DEF Lost
<1> QED
  BY <1>1, <1>2, <1>3, <1>4, FS_EmptySet DEF DamageInv, DamageAddsUp

\* A blow takes from the boss what is recorded.
LEMMA HitAddsUp ==
    ASSUME RunnerInv, DamageInv, NEW m \in Who, NEW damage \in 0..MaxDamage, NEW cost \in 0..1,
           Hit(m, damage, cost), result' = result, result = Absent, stage' # "over"
    PROVE  DamageInv'
<1>1. /\ boss \in [level: 0..TopLevel, hp: 1..Hp] /\ boss # Absent
      /\ kills \in Seq([level: Nat, at: Nat]) /\ Len(kills) \in Nat
  <2>1. Bosses
    BY DEF RunnerInv
  <2> QED
    BY <2>1, LenProperties DEF Bosses, Hit
<1>2. /\ boss.hp \in Nat /\ boss.hp <= Hp /\ boss.hp > 0 /\ Hp \in Nat
      /\ damage \in Nat /\ Effective(damage) \in Nat
      /\ Effective(damage) = IF damage < boss.hp THEN damage ELSE boss.hp
  BY <1>1, RunnerAssumption DEF Effective
<1>3. dealt' = [dealt EXCEPT ![m] = @ + Effective(damage)] /\ dealt \in [Who -> Nat]
  BY DEF Hit, DamageInv
<1>4. /\ IsFiniteSet(PointsOf(dealt'))
      /\ Cardinality(PointsOf(dealt')) = Lost + Effective(damage)
      /\ dealt' \in [Who -> Nat]
  <2> DEFINE g == [dealt EXCEPT ![m] = @ + Effective(damage)]
  <2>1. /\ IsFiniteSet(PointsOf(g))
        /\ Cardinality(PointsOf(g)) = Cardinality(PointsOf(dealt)) + Effective(damage)
    BY <1>2, <1>3, PointsGrow DEF DamageInv
  <2>2. g \in [Who -> Nat]
    BY <1>2, <1>3
  <2> QED
    BY <1>3, <2>1, <2>2 DEF DamageInv
<1>5. Lost = Len(kills) * Hp + (Hp - boss.hp) /\ Len(kills) * Hp \in Nat
  BY <1>1, <1>2 DEF Lost
<1>6. Lost' = Lost + Effective(damage)
  <2>1. CASE damage >= boss.hp
    <3>1. boss' = Absent /\ Len(kills') = Len(kills) + 1
      BY <1>1, <2>1, AppendProperties DEF Hit, Kill
    <3>2. Lost' = (Len(kills) + 1) * Hp
      BY <1>1, <1>2, <3>1 DEF Lost
    <3>3. (Len(kills) + 1) * Hp = Len(kills) * Hp + Hp
      BY <1>1, <1>2
    <3> QED
      BY <1>2, <1>5, <2>1, <3>2, <3>3
  <2>2. CASE ~(damage >= boss.hp)
    <3>1. boss' = [boss EXCEPT !.hp = @ - damage] /\ kills' = kills
      BY <2>2 DEF Hit
    <3>2. boss' # Absent /\ boss'.hp = boss.hp - damage
      <4>1. boss' \in [level: Nat, hp: Nat] /\ boss'.hp = boss.hp - damage
        <5>1. boss.hp - damage \in Nat
          BY <1>2, <2>2
        <5> QED
          BY <1>1, <3>1, <5>1
      <4> QED
        BY <4>1, AbsentAssumption
    <3>3. Lost' = Len(kills) * Hp + (Hp - (boss.hp - damage))
      BY <3>1, <3>2 DEF Lost
    <3> QED
      BY <1>2, <1>5, <2>2, <3>3
  <2> QED
    BY <2>1, <2>2
<1> QED
  BY <1>4, <1>6 DEF DamageInv, DamageAddsUp

\* The next boss spawns when the last one is gone.
LEMMA SpawnAddsUp ==
    ASSUME RunnerInv, DamageInv, NEW l \in 0..TopLevel, Spawn(l) \in Around, stage = "loop",
           SpawnBoss(l), result' = result, stage' # "over"
    PROVE  DamageInv'
<1>1. awaited = l /\ awaited # Absent
  BY AbsentAssumption DEF RunnerInv, Bosses
<1>2. boss = Absent
  BY <1>1 DEF RunnerInv, Bosses
<1>3. boss' = Fresh(l) /\ boss' # Absent /\ boss'.hp = Hp /\ UNCHANGED <<kills, dealt>>
  BY RunnerAssumption, AbsentAssumption DEF SpawnBoss, Fresh
<1>4. Lost' = Lost
  BY <1>2, <1>3, RunnerAssumption DEF Lost
<1> QED
  BY <1>3, <1>4 DEF DamageInv, DamageAddsUp

\* At the end what is left of the boss is what was not dealt.
LEMMA CompleteAddsUp ==
    ASSUME RunnerInv, DamageInv, Complete
    PROVE  DamageInv'
<1>1. Bosses
  BY DEF RunnerInv
<1>2. /\ Len(kills) \in Nat /\ Hp \in Nat
      /\ UNCHANGED <<boss, kills, dealt>> /\ stage' = "over"
  BY <1>1, LenProperties, RunnerAssumption DEF Bosses, Complete, trial
<1>3. /\ result'.hp = (IF maxed THEN 0 ELSE FinalBoss.hp)
      /\ result'.waves = Len(kills) /\ result'.maxed = maxed
  BY DEF Complete
<1>4. (IF boss = Absent THEN 0 ELSE Hp - boss.hp)
        = IF result'.maxed THEN 0 ELSE Hp - result'.hp
  <2>1. CASE boss # Absent
    BY <1>1, <1>3, <2>1 DEF FinalBoss, Bosses
  <2>2. CASE boss = Absent /\ maxed
    BY <1>3, <2>2
  <2>3. CASE boss = Absent /\ ~maxed
    <3>1. FinalBoss.hp = Hp
      BY <2>3 DEF FinalBoss, Fresh
    <3> QED
      BY <1>2, <1>3, <2>3, <3>1
  <2> QED
    BY <2>1, <2>2, <2>3
<1>5. DamageAddsUp'
  BY <1>2, <1>3, <1>4 DEF DamageInv, DamageAddsUp, Lost
<1> QED
  BY <1>2, <1>5 DEF DamageInv, Lost

LEMMA DamageNextInv ==
    Inv /\ RunnerInv /\ DamageInv /\ [RunnerNext]_allVars => DamageInv'
<1> SUFFICES ASSUME Inv, RunnerInv, DamageInv, [RunnerNext]_allVars PROVE DamageInv'
  OBVIOUS
<1>1. CASE Process
  <2> DEFINE x == payload[out.id]
  <2>1. /\ x \in Load /\ x \in Around /\ stage = "loop" /\ stage' = "handled"
        /\ result' = result /\ result = Absent
    BY <1>1, ProcessMoves DEF RunnerInv, Process, DamageInv
  <2>2. CASE x.kind = "spawnBoss" /\ SpawnBoss(x.level)
    <3>1. x.level \in 0..TopLevel /\ x = Spawn(x.level)
      BY <2>1, <2>2, LoadsDiffer
    <3> QED
      BY <2>1, <2>2, <3>1, SpawnAddsUp
  <2>3. CASE PassiveRegen \/ (x.kind = "memberAttack" /\
               (NoTurn(x.who) \/ \E cost \in 0..1 : OutOfMana(x.who, cost)))
    <3>1. UNCHANGED <<boss, kills, dealt>>
      BY <2>3 DEF PassiveRegen, NoTurn, OutOfMana, trial
    <3> QED
      BY <2>1, <3>1 DEF DamageInv, DamageAddsUp, Lost
  <2>4. CASE /\ x.kind = "memberAttack"
             /\ \E damage \in 0..MaxDamage, cost \in 0..1 : Hit(x.who, damage, cost)
    <3>1. x.who \in Who
      BY <2>1, <2>4, LoadsDiffer
    <3>2. PICK damage \in 0..MaxDamage, cost \in 0..1 : Hit(x.who, damage, cost)
      BY <2>4
    <3> QED
      BY <2>1, <3>1, <3>2, HitAddsUp
  <2> QED
    BY <1>1, <2>2, <2>3, <2>4 DEF Process
<1>2. CASE Complete
  BY <1>2, CompleteAddsUp
<1>3. CASE ~Process /\ ~Complete
  <2>1. UNCHANGED <<trial, result>> /\ (stage' # "over" => stage # "over")
    BY <1>3 DEF RunnerNext, Start, ScheduleCall, DeliverEvent, Throw, Return, CompleteThrows,
       allVars, runnerVars
  <2>2. UNCHANGED <<boss, kills, dealt>>
    BY <2>1 DEF trial
  <2> QED
    BY <2>1, <2>2 DEF DamageInv, DamageAddsUp, Lost
<1> QED
  BY <1>1, <1>2, <1>3

(* All that has been dealt, the bosses have lost, and the trial and its    *)
(* result add up at every event and at the end.                            *)
THEOREM TrialAddsUpHolds == RunnerSpec => []TrialAddsUp
<1>1. RunnerInit => DamageInv
  BY DamageInitInv
<1>2. DamageInv => DamageAddsUp
  BY DEF DamageInv
<1>3. OneBossAtATime /\ ResultFits /\ DamageAddsUp => TrialAddsUp
  BY DEF TrialAddsUp
<1> QED
  BY <1>1, <1>2, <1>3, DamageNextInv, RunnerInvHolds, OneBossAtATimeHolds, ResultFitsHolds, PTL
     DEF RunnerSpec

=============================================================================
