----------------------------- MODULE EventLoop -----------------------------
(***************************************************************************)
(* DeterministicEventLoop of packages/combat-core/src/engine.ts, on the    *)
(* queue as PriorityQueue promises it (EventQueue is shown to keep that    *)
(* promise).  The loop is synchronous: the program runs it up to a         *)
(* deadline, and each event is handed to a processor, which may schedule   *)
(* and cancel events or throw.                                             *)
(***************************************************************************)
EXTENDS PriorityQueue, Sequences

VARIABLES
    now,       \* this.currentTimeNs
    deadline,  \* the deadline of the present or the last run
    phase,     \* outside of runUntil, in its loop, or in the processor
    \* The variables below only record what has happened:
    delivered, \* the events delivered, each with how many were issued before
    revoked    \* the ids of the events cancelled while they were pending

loopVars == <<now, deadline, phase>>
record == <<delivered, revoked>>
vars == <<pqVars, loopVars, record>>

Legal(t) == t >= now

\* The program or the processor schedules an event; an earlier one throws.
Schedule(t, p) ==
    /\ phase # "looping"
    /\ Legal(t)
    /\ Add(t, p)
    /\ UNCHANGED <<loopVars, record>>

Cancel(id) ==
    /\ phase # "looping"
    /\ Drop(id)
    /\ revoked' = revoked \cup {e.id : e \in pending \ pending'}
    /\ UNCHANGED <<loopVars, delivered>>

RunUntil(d) ==
    /\ phase = "outside"
    /\ d >= now
    /\ deadline' = d /\ phase' = "looping"
    /\ UNCHANGED <<pqVars, now, record>>

\* Mutant: an event at the deadline itself is left.
DueMutant(e) == e # NoEvent /\ e.timeNs < deadline
Due(e) == e # NoEvent /\ e.timeNs <= deadline

\* Mutant: the event leaves the queue when the processor returns.
RemoveMutant == Look
\* The event leaves the queue before the processor sees it.
Remove == Take

Deliver ==
    /\ phase = "looping"
    /\ Remove
    /\ Due(out')
    /\ now' = out'.timeNs
    /\ phase' = "processing"
    /\ delivered' = Append(delivered, [event |-> out', issued |-> issued])
    /\ UNCHANGED <<deadline, revoked>>

\* The processor returns, or throws and ends the run where it is.
Processed ==
    /\ phase = "processing"
    /\ phase' \in {"looping", "outside"}
    /\ UNCHANGED <<pqVars, now, deadline, record>>

\* With nothing left that is due, the time is the deadline.
Finish ==
    /\ phase = "looping"
    /\ Look
    /\ ~Due(out')
    /\ now' = deadline
    /\ phase' = "outside"
    /\ UNCHANGED <<deadline, record>>

Init ==
    /\ PQInit
    /\ now = 0 /\ deadline = 0 /\ phase = "outside"
    /\ delivered = <<>> /\ revoked = {}

Next ==
    \/ \E t \in Time, p \in Priority : Schedule(t, p)
    \/ \E id \in 1..issued : Cancel(id)
    \/ \E d \in Time : RunUntil(d)
    \/ Deliver \/ Processed \/ Finish

Spec == Init /\ [][Next]_vars

-----------------------------------------------------------------------------
(* Properties                                                              *)

Deliveries == 1..Len(delivered)

\* Every variable stays in its range.
TypeOK ==
    /\ pending \subseteq Event
    /\ issued \in 0..MaxEvents
    /\ out \in Event \cup {NoEvent}
    /\ now \in Time \cup {0} /\ deadline \in Time \cup {0}
    /\ phase \in {"outside", "looping", "processing"}
    /\ delivered \in Seq([event: Event, issued: 0..MaxEvents])
    /\ revoked \subseteq 1..issued

\* Time never passes an event by: what is pending lies ahead, in a run no further
\* than its deadline allows.
NothingPassed ==
    /\ \A e \in pending : now <= e.timeNs
    /\ phase # "outside" => now <= deadline

\* The clock does not go back, whatever the processor schedules, cancels or throws.
TimeNeverGoesBack == [][now' >= now]_vars

\* An event is delivered after one that should come later only if it was not
\* scheduled yet when that one was delivered.
InOrder ==
    \A i, j \in Deliveries :
        i < j /\ Before(delivered[j].event, delivered[i].event) =>
            delivered[j].event.id > delivered[i].issued

\* Every event scheduled is pending, was delivered once or was cancelled in time.
Accounted ==
    /\ \A e \in pending : e.id \notin revoked
    /\ \A i, j \in Deliveries : delivered[i].event.id = delivered[j].event.id => i = j
    /\ \A id \in 1..issued :
         \/ id \in revoked
         \/ \E e \in pending : e.id = id
         \/ \E i \in Deliveries : delivered[i].event.id = id
    /\ \A i \in Deliveries :
         /\ delivered[i].event.id \notin revoked
         /\ \A e \in pending : e.id # delivered[i].event.id

\* No event is lost, doubled or late.
EventsAreKept == InOrder /\ Accounted

\* A run that ends at its deadline leaves nothing pending that was due, at the
\* deadline itself included.
NothingDueIsLeft ==
    [][phase = "looping" /\ phase' = "outside" =>
           \A e \in pending' : e.timeNs > now']_vars
=============================================================================
