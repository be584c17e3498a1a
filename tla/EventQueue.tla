----------------------------- MODULE EventQueue -----------------------------
(***************************************************************************)
(* StableEventQueue of packages/combat-core/src/event-queue.ts: a binary   *)
(* min-heap with lazy cancellation, cancelled events being discarded when  *)
(* they reach the root.                                                    *)
(*                                                                         *)
(* The queue is used by one thread.  Its loops take one step an iteration: *)
(* pc and index are where the running method is in which loop, and op is   *)
(* the method that discards cancelled roots.  The heap starts at 1 here    *)
(* and at 0 in the code.                                                   *)
(***************************************************************************)
EXTENDS Integers, Sequences

CONSTANTS Time, Priority, MaxEvents, NoEvent

VARIABLES
    heap,       \* this.heap
    cancelled,  \* this.cancelledTokenIds
    issued,     \* this.nextTokenId - 1, and this.nextSequence
    out,        \* what the last peek or pop has returned
    pc, index, op

heapVars == <<heap, cancelled, issued, out, pc, index, op>>

Held == {heap[i] : i \in 1..Len(heap)}

\* The promise this queue keeps, with the events that count as pending.
PQ == INSTANCE PriorityQueue WITH pending <- {e \in Held : e.id \notin cancelled}

Event == PQ!Event

ASSUME QueueAssumption ==
    /\ Time \subseteq Nat /\ Priority \subseteq Int
    /\ MaxEvents \in Nat /\ NoEvent \notin Event

\* Mutant: ties are left to the order of the heap.
BeforeMutant(l, r) ==
    \/ l.timeNs < r.timeNs
    \/ l.timeNs = r.timeNs /\ l.priority < r.priority
Before(l, r) == PQ!Before(l, r)

Parent(i) == i \div 2
RootCancelled == heap # <<>> /\ heap[1].id \in cancelled

\* The events of h at i and j exchanged.
Swapped(h, i, j) == [h EXCEPT ![i] = h[j], ![j] = h[i]]

\* removeRoot, before it sifts: the last event takes the root's place.
WithoutRoot(h) ==
    LET n == Len(h) IN [i \in 1..n - 1 |-> IF i = 1 THEN h[n] ELSE h[i]]

\* Mutant: the right child is compared with its parent and not with the left one.
SmallestMutant(h, i) ==
    IF 2 * i + 1 <= Len(h) /\ Before(h[2 * i + 1], h[i]) THEN 2 * i + 1
    ELSE IF 2 * i <= Len(h) /\ Before(h[2 * i], h[i]) THEN 2 * i
    ELSE i

\* The place of the least of the event at i and its children.
Smallest(h, i) ==
    LET less(j, k) == IF j <= Len(h) /\ Before(h[j], h[k]) THEN j ELSE k
    IN  less(2 * i + 1, less(2 * i, i))

Schedule(t, p) ==
    /\ pc = "idle"
    /\ issued < MaxEvents
    /\ issued' = issued + 1
    /\ heap' = Append(heap, [id |-> issued', timeNs |-> t, priority |-> p])
    /\ pc' = "siftUp" /\ index' = Len(heap')
    /\ UNCHANGED <<cancelled, out, op>>

\* One iteration of siftUp.
SiftUp ==
    /\ pc = "siftUp"
    /\ IF index > 1 /\ Before(heap[index], heap[Parent(index)])
       THEN /\ heap' = Swapped(heap, index, Parent(index))
            /\ index' = Parent(index)
            /\ pc' = pc
       ELSE heap' = heap /\ index' = index /\ pc' = "idle"
    /\ UNCHANGED <<cancelled, issued, out, op>>

\* Any token the queue has handed out may be cancelled, at any time.
Cancel(id) ==
    /\ pc = "idle"
    /\ cancelled' = cancelled \cup {id}
    /\ UNCHANGED <<heap, issued, out, pc, index, op>>

\* peek, pop and size begin by discarding the cancelled roots.
Begin(method) ==
    /\ pc = "idle"
    /\ pc' = "discard" /\ op' = method
    /\ UNCHANGED <<heap, cancelled, issued, out, index>>

\* The root is removed, and its successor sifted down if there is one.
RemoveRoot ==
    /\ heap' = WithoutRoot(heap)
    /\ pc' = IF Len(heap) > 1 THEN "siftDown" ELSE "discard"
    /\ index' = 1

\* One iteration of discardCancelledRoots.
Discard ==
    /\ pc = "discard" /\ RootCancelled
    /\ RemoveRoot
    /\ cancelled' = cancelled \ {heap[1].id}
    /\ UNCHANGED <<issued, out, op>>

Root == IF heap = <<>> THEN NoEvent ELSE heap[1]

\* peek and size return; so does pop, after discarding a second time.
Return ==
    /\ pc = "discard" /\ ~RootCancelled /\ op # "pop"
    /\ out' = IF op = "peek" THEN Root ELSE out
    /\ pc' = "idle"
    /\ UNCHANGED <<heap, cancelled, issued, index, op>>

\* pop removes the root it will return.
PopRoot ==
    /\ pc = "discard" /\ ~RootCancelled /\ op = "pop"
    /\ out' = Root
    /\ op' = "popped"
    /\ IF heap = <<>> THEN UNCHANGED <<heap, pc, index>> ELSE RemoveRoot
    /\ UNCHANGED <<cancelled, issued>>

\* One iteration of siftDown.
SiftDown ==
    /\ pc = "siftDown"
    /\ LET s == Smallest(heap, index) IN
         IF s = index THEN pc' = "discard" /\ UNCHANGED <<heap, index>>
         ELSE /\ heap' = Swapped(heap, index, s)
              /\ index' = s
              /\ pc' = pc
    /\ UNCHANGED <<cancelled, issued, out, op>>

Cleared == heap' = <<>> /\ issued' = issued /\ cancelled' = {}

Clear ==
    /\ pc = "idle"
    /\ Cleared
    /\ UNCHANGED <<out, pc, index, op>>

Init ==
    /\ heap = <<>> /\ cancelled = {} /\ issued = 0 /\ out = NoEvent
    /\ pc = "idle" /\ index = 1 /\ op = "size"

Next ==
    \/ \E t \in Time, p \in Priority : Schedule(t, p)
    \/ \E id \in 1..issued : Cancel(id)
    \/ \E method \in {"peek", "pop", "size"} : Begin(method)
    \/ SiftUp \/ Discard \/ Return \/ PopRoot \/ SiftDown
    \/ Clear

Spec == Init /\ [][Next]_heapVars

-----------------------------------------------------------------------------
(* Properties                                                              *)

\* Every variable stays in its range.
TypeOK ==
    /\ heap \in Seq(Event)
    /\ cancelled \subseteq 1..issued
    /\ issued \in 0..MaxEvents
    /\ out \in Event \cup {NoEvent}
    /\ pc \in {"idle", "siftUp", "discard", "siftDown"}
    /\ op \in {"peek", "pop", "size", "popped"}
    /\ index \in Nat \ {0}
    /\ pc \in {"siftUp", "siftDown"} => index <= Len(heap)

\* No event is before its parent, except along the one edge a loop has to mend;
\* there the rest of the order is kept across the event that moves.
Hole(i, j) == IF pc = "siftUp" THEN j = index ELSE pc = "siftDown" /\ i = index
HeapOrdered ==
    \A j \in 2..Len(heap) :
        /\ ~Hole(Parent(j), j) => ~Before(heap[j], heap[Parent(j)])
        /\ pc \in {"siftUp", "siftDown"} /\ Parent(j) = index /\ index > 1 =>
             ~Before(heap[j], heap[Parent(index)])

\* The events in the heap are different events that have been issued.
Distinct ==
    /\ \A i, j \in 1..Len(heap) : heap[i].id = heap[j].id => i = j
    /\ \A i \in 1..Len(heap) : heap[i].id <= issued

\* The heap delivers what the priority queue promises: every step is a step of it,
\* or none.
Refinement == PQ!PQSpec
=============================================================================
