--------------------------- MODULE PriorityQueue ---------------------------
(***************************************************************************)
(* What StableEventQueue (packages/combat-core/src/event-queue.ts)         *)
(* promises: events come out in the order of time, priority and schedule,  *)
(* and a cancelled event does not come out.                                *)
(***************************************************************************)
EXTENDS Integers

CONSTANTS
    Time,       \* the instants an event may be scheduled at, in nanoseconds
    Priority,   \* the priorities it may have
    MaxEvents,  \* bound: how many events are ever scheduled
    NoEvent     \* undefined

ASSUME TimeAssumption == Time \subseteq Nat
ASSUME PriorityAssumption == Priority \subseteq Int
ASSUME MaxEventsAssumption == MaxEvents \in Nat

\* The token id and the sequence number of an event are drawn from two counters
\* that always advance together: id stands for both.
Event == [id: 1..MaxEvents, timeNs: Time, priority: Priority]

ASSUME NoEventAssumption == NoEvent \notin Event

VARIABLES
    pending,  \* the events scheduled and neither delivered nor cancelled
    issued,   \* how many events have been scheduled
    out       \* what the last peek or pop returned

pqVars == <<pending, issued, out>>

\* compareEvents(l, r) < 0
Before(l, r) ==
    \/ l.timeNs < r.timeNs
    \/ l.timeNs = r.timeNs /\ l.priority < r.priority
    \/ l.timeNs = r.timeNs /\ l.priority = r.priority /\ l.id < r.id

\* e comes out before every other event of S.
Least(e, S) == e \in S /\ \A f \in S \ {e} : Before(e, f)

Add(t, p) ==
    /\ issued < MaxEvents
    /\ issued' = issued + 1
    /\ pending' = pending \cup {[id |-> issued', timeNs |-> t, priority |-> p]}
    /\ out' = out

\* A token stays valid for ever: the event may have been delivered already.
Drop(id) ==
    /\ pending' = {e \in pending : e.id # id}
    /\ UNCHANGED <<issued, out>>

Look ==
    /\ IF pending = {} THEN out' = NoEvent ELSE Least(out', pending)
    /\ UNCHANGED <<pending, issued>>

Take ==
    /\ IF pending = {} THEN out' = NoEvent ELSE Least(out', pending)
    /\ pending' = pending \ {out'}
    /\ issued' = issued

DropAll ==
    /\ pending' = {}
    /\ UNCHANGED <<issued, out>>

PQInit == pending = {} /\ issued = 0 /\ out = NoEvent

PQNext ==
    \/ \E t \in Time, p \in Priority : Add(t, p)
    \/ \E id \in 1..issued : Drop(id)
    \/ Look \/ Take \/ DropAll

PQSpec == PQInit /\ [][PQNext]_pqVars
=============================================================================
