----------------------------- MODULE QueueProofs -----------------------------
(***************************************************************************)
(* Two queues: the heap of StableEventQueue and the labs' worker pool.     *)
(*                                                                         *)
(* The heap keeps its order and delivers what the priority queue promises, *)
(* for any instants, priorities and number of events.                      *)
(*                                                                         *)
(* Of the pool, a task is settled by its own run and a worker holds one    *)
(* task at a time, for any number of tasks and workers.  Neither property  *)
(* is inductive.  What a worker holds is tied to the task its slot         *)
(* remembers only because a slot is on the stack at most once, with        *)
(* nothing in it, and a task waits in one place at most.                   *)
(***************************************************************************)
EXTENDS EventQueue, SimPool, SequenceTheorems, FiniteSetTheorems,
        WellFoundedInduction, TLAPS

-----------------------------------------------------------------------------
(* The order of events                                                     *)

\* A set of natural numbers that has a member has a least one.
LEMMA LeastNatural ==
    ASSUME NEW S, S \subseteq Nat, S # {}
    PROVE  \E m \in S : \A n \in S : m <= n
<1>1. PICK m \in S : \A n \in S : <<n, m>> \notin OpToRel(<, Nat)
  BY NatLessThanWellFounded, WFMin
<1>2. \A n \in S : ~(n < m)
  BY <1>1 DEF OpToRel
<1> QED
  BY <1>2

\* Before is a strict total order on events with different ids.
LEMMA BeforeIsOrder ==
    /\ \A a \in Event : ~Before(a, a)
    /\ \A a, b \in Event : Before(a, b) => ~Before(b, a)
    /\ \A a, b \in Event : a.id # b.id => Before(a, b) \/ Before(b, a)
    /\ \A a, b, c \in Event : ~Before(b, a) /\ ~Before(c, b) => ~Before(c, a)
<1>1. ASSUME NEW a \in Event
      PROVE  a.id \in Nat /\ a.timeNs \in Nat /\ a.priority \in Int
  <2>1. a.id \in 1..MaxEvents /\ a.timeNs \in Time /\ a.priority \in Priority
    BY DEF Event, PQ!Event
  <2>2. a.id \in Nat
    BY <2>1, QueueAssumption
  <2>3. a.timeNs \in Nat
    BY <2>1, QueueAssumption
  <2>4. a.priority \in Int
    BY <2>1, QueueAssumption
  <2> QED
    BY <2>2, <2>3, <2>4
<1> QED
  BY <1>1 DEF Before, PQ!Before

\* The parent of a place is an earlier place.
LEMMA ParentIsEarlier ==
    \A i \in Nat : i > 1 => Parent(i) \in 1..i - 1
  BY DEF Parent

\* In a heap that is ordered along its edges the root is before all others.
LEMMA RootIsLeast ==
    ASSUME NEW h \in Seq(Event),
           \A j \in 2..Len(h) : ~Before(h[j], h[Parent(j)]),
           \A i, j \in 1..Len(h) : h[i].id = h[j].id => i = j
    PROVE  \A i \in 2..Len(h) : Before(h[1], h[i])
<1> DEFINE Bad == {i \in 1..Len(h) : Before(h[i], h[1])}
<1>1. Len(h) \in Nat /\ \A i \in 1..Len(h) : h[i] \in Event
  BY ElementOfSeq, LenProperties
<1>2. Bad = {}
  <2> SUFFICES ASSUME Bad # {} PROVE FALSE
    OBVIOUS
  <2>1. PICK m \in Bad : \A n \in Bad : m <= n
    <3>1. Bad \subseteq Nat
      BY <1>1
    <3> HIDE DEF Bad
    <3> QED
      BY <3>1, LeastNatural
  <2>2. m \in 2..Len(h)
    BY <1>1, BeforeIsOrder
  <2>3. Parent(m) \in 1..Len(h) /\ Parent(m) < m
    BY <1>1, <2>2, ParentIsEarlier
  <2>4. ~Before(h[Parent(m)], h[1])
    BY <2>1, <2>3
  <2>5. ~Before(h[m], h[1])
    BY <1>1, <2>2, <2>3, <2>4, BeforeIsOrder
  <2> QED
    BY <2>5
<1>3. ASSUME NEW i \in 2..Len(h) PROVE Before(h[1], h[i])
  <2>1. i \in 1..Len(h) /\ 1 \in 1..Len(h) /\ h[i].id # h[1].id
    BY <1>1
  <2> QED
    BY <1>1, <1>2, <2>1, BeforeIsOrder
<1> QED
  BY <1>3

-----------------------------------------------------------------------------
(* The operators on heaps                                                  *)

LEMMA ParentAndChild ==
    \A j, k \in Nat : j > 1 => (Parent(j) = k <=> j = 2 * k \/ j = 2 * k + 1)
  BY DEF Parent

LEMMA SwappedIsHeap ==
    ASSUME NEW h \in Seq(Event), NEW i \in 1..Len(h), NEW j \in 1..Len(h)
    PROVE  /\ Swapped(h, i, j) \in Seq(Event)
           /\ Len(Swapped(h, i, j)) = Len(h)
           /\ \A k \in 1..Len(h) :
                Swapped(h, i, j)[k] = IF k = j THEN h[i]
                                      ELSE IF k = i THEN h[j] ELSE h[k]
<1> DEFINE g == [h EXCEPT ![i] = h[j]]
<1>1. h[i] \in Event /\ h[j] \in Event
  BY ElementOfSeq
<1>2. /\ g \in Seq(Event) /\ Len(g) = Len(h)
      /\ \A k \in 1..Len(h) : g[k] = IF k = i THEN h[j] ELSE h[k]
  BY <1>1, ExceptSeq
<1>3. Swapped(h, i, j) = [g EXCEPT ![j] = h[i]]
  BY DEF Swapped
<1> HIDE DEF g
<1> QED
  BY <1>1, <1>2, <1>3, ExceptSeq

LEMMA WithoutRootIsHeap ==
    ASSUME NEW h \in Seq(Event), h # <<>>
    PROVE  /\ WithoutRoot(h) \in Seq(Event)
           /\ Len(WithoutRoot(h)) = Len(h) - 1
           /\ \A k \in 1..Len(h) - 1 :
                WithoutRoot(h)[k] = IF k = 1 THEN h[Len(h)] ELSE h[k]
<1> DEFINE n == Len(h) - 1
           w == [k \in 1..n |-> IF k = 1 THEN h[Len(h)] ELSE h[k]]
<1>1. n \in Nat /\ \A k \in 1..Len(h) : h[k] \in Event
  BY EmptySeq, LenProperties, ElementOfSeq
<1>2. WithoutRoot(h) = w
  BY DEF WithoutRoot
<1>3. w \in [1..n -> Event]
  BY <1>1
<1>4. w \in Seq(Event)
  BY <1>1, <1>3, SeqDef
<1>5. Len(w) = n
  BY <1>1, <1>3, <1>4, LenProperties
<1> QED
  BY <1>1, <1>2, <1>4, <1>5

LEMMA SmallestIsLeast ==
    ASSUME NEW h \in Seq(Event), NEW i \in 1..Len(h)
    PROVE  /\ Smallest(h, i) \in 1..Len(h)
           /\ Smallest(h, i) \in {i, 2 * i, 2 * i + 1}
           /\ \A j \in {i, 2 * i, 2 * i + 1} :
                j <= Len(h) => ~Before(h[j], h[Smallest(h, i)])
<1>1. Len(h) \in Nat /\ \A k \in 1..Len(h) : h[k] \in Event
  BY LenProperties, ElementOfSeq
<1> DEFINE s == IF 2 * i <= Len(h) /\ Before(h[2 * i], h[i]) THEN 2 * i ELSE i
           t == IF 2 * i + 1 <= Len(h) /\ Before(h[2 * i + 1], h[s])
                THEN 2 * i + 1 ELSE s
<1>2. Smallest(h, i) = t
  BY DEF Smallest
<1>3. /\ s \in 1..Len(h) /\ s \in {i, 2 * i}
      /\ \A j \in {i, 2 * i} : j <= Len(h) => ~Before(h[j], h[s])
  BY <1>1, BeforeIsOrder
<1> HIDE DEF s
<1>4. /\ t \in 1..Len(h) /\ t \in {i, 2 * i, 2 * i + 1}
      /\ \A j \in {i, 2 * i, 2 * i + 1} : j <= Len(h) => ~Before(h[j], h[t])
  BY <1>1, <1>3, BeforeIsOrder
<1> QED
  BY <1>2, <1>4

-----------------------------------------------------------------------------
(* The inductive invariant                                                 *)

Inv == TypeOK /\ Distinct /\ HeapOrdered

\* What the two kinds of step that rearrange the heap do to it.
LEMMA SwapKeepsEvents ==
    ASSUME TypeOK, Distinct,
           NEW i \in 1..Len(heap), NEW j \in 1..Len(heap),
           heap' = Swapped(heap, i, j), UNCHANGED <<cancelled, issued>>
    PROVE  /\ heap' \in Seq(Event) /\ Len(heap') = Len(heap)
           /\ \A k \in 1..Len(heap) :
                heap'[k] = IF k = j THEN heap[i]
                           ELSE IF k = i THEN heap[j] ELSE heap[k]
           /\ Held' = Held
           /\ Distinct'
<1>1. /\ heap' \in Seq(Event) /\ Len(heap') = Len(heap)
      /\ \A k \in 1..Len(heap) :
           heap'[k] = IF k = j THEN heap[i] ELSE IF k = i THEN heap[j] ELSE heap[k]
  <2>1. heap \in Seq(Event)
    BY DEF TypeOK
  <2>2. /\ Swapped(heap, i, j) \in Seq(Event)
        /\ Len(Swapped(heap, i, j)) = Len(heap)
    BY <2>1, SwappedIsHeap
  <2>3. \A k \in 1..Len(heap) :
          Swapped(heap, i, j)[k] = IF k = j THEN heap[i]
                                   ELSE IF k = i THEN heap[j] ELSE heap[k]
    BY <2>1, SwappedIsHeap
  <2> QED
    BY <2>2, <2>3
<1>2. Held' = Held
  BY <1>1 DEF Held
<1>3. Distinct'
  BY <1>1 DEF Distinct
<1> QED
  BY <1>1, <1>2, <1>3

LEMMA RemoveKeepsEvents ==
    ASSUME TypeOK, Distinct, heap # <<>>, RemoveRoot, UNCHANGED issued
    PROVE  /\ heap' \in Seq(Event) /\ Len(heap') = Len(heap) - 1
           /\ \A k \in 1..Len(heap') :
                heap'[k] = IF k = 1 THEN heap[Len(heap)] ELSE heap[k]
           /\ heap[1] \in Held /\ heap[1].id <= issued
           /\ Held' = Held \ {heap[1]}
           /\ Distinct'
<1>1. /\ heap' \in Seq(Event) /\ Len(heap') = Len(heap) - 1
      /\ \A k \in 1..Len(heap') :
           heap'[k] = IF k = 1 THEN heap[Len(heap)] ELSE heap[k]
  BY WithoutRootIsHeap DEF TypeOK, RemoveRoot
<1>2. Len(heap) \in Nat \ {0}
  BY EmptySeq DEF TypeOK
<1>3. heap[1] \in Held /\ heap[1].id <= issued
  BY <1>2 DEF Held, Distinct
<1>4. Distinct'
  BY <1>1, <1>2 DEF Distinct
<1>5. Held' = Held \ {heap[1]}
  <2>1. ASSUME NEW k \in 1..Len(heap') PROVE heap'[k] \in Held \ {heap[1]}
    BY <1>1, <1>2, <2>1 DEF Held, Distinct
  <2>2. ASSUME NEW k \in 1..Len(heap), heap[k] # heap[1] PROVE heap[k] \in Held'
    <3>1. k # 1
      BY <2>2
    <3>2. CASE k = Len(heap)
      <4>1. 1 \in 1..Len(heap') /\ heap'[1] = heap[k]
        BY <1>1, <1>2, <3>1, <3>2
      <4> QED
        BY <4>1 DEF Held
    <3>3. CASE k # Len(heap)
      <4>1. k \in 1..Len(heap') /\ heap'[k] = heap[k]
        BY <1>1, <1>2, <3>1, <3>3
      <4> QED
        BY <4>1 DEF Held
    <3> QED
      BY <3>2, <3>3
  <2> QED
    BY <2>1, <2>2 DEF Held
<1> QED
  BY <1>1, <1>3, <1>4, <1>5

\* The heap is ordered below a new root.
LEMMA RemoveKeepsOrder ==
    ASSUME Inv, heap # <<>>, pc = "discard", RemoveRoot, issued' = issued,
           cancelled' \in {cancelled, cancelled \ {heap[1].id}},
           out' \in Event \cup {NoEvent}, op' \in {"peek", "pop", "size", "popped"}
    PROVE  Inv'
<1> USE DEF Inv
<1>1. /\ heap' \in Seq(Event) /\ Len(heap') = Len(heap) - 1 /\ Distinct'
      /\ \A k \in 1..Len(heap') :
           heap'[k] = IF k = 1 THEN heap[Len(heap)] ELSE heap[k]
  BY RemoveKeepsEvents
<1>2. /\ Len(heap) \in Nat \ {0} /\ index' = 1
      /\ pc' = IF Len(heap) > 1 THEN "siftDown" ELSE "discard"
  BY EmptySeq DEF RemoveRoot, TypeOK
<1>3. TypeOK'
  BY <1>1, <1>2 DEF TypeOK
<1>4. HeapOrdered'
  <2> SUFFICES ASSUME NEW j \in 2..Len(heap'), Parent(j) # 1
               PROVE  ~Before(heap'[j], heap'[Parent(j)])
    BY <1>1, <1>2 DEF HeapOrdered, Hole
  <2>0. j \in Nat /\ j > 1 /\ j <= Len(heap') /\ Len(heap') \in Nat
    BY <1>1, <1>2
  <2>1. Parent(j) \in 2..Len(heap')
    BY <2>0, ParentIsEarlier
  <2>2. ~Before(heap[j], heap[Parent(j)])
    BY <1>1, <1>2 DEF HeapOrdered, Hole
  <2> QED
    BY <1>1, <1>2, <2>1, <2>2
<1> QED
  BY <1>1, <1>3, <1>4

LEMMA InitInv == Init => Inv
<1> SUFFICES ASSUME Init PROVE Inv
  OBVIOUS
<1>1. heap = <<>> /\ Len(heap) = 0 /\ heap \in Seq(Event)
  BY EmptySeq DEF Init
<1> QED
  BY <1>1, QueueAssumption DEF Init, Inv, TypeOK, Distinct, HeapOrdered

LEMMA NextInv == Inv /\ [Next]_heapVars => Inv'
<1> SUFFICES ASSUME Inv, [Next]_heapVars PROVE Inv'
  OBVIOUS
<1> USE DEF Inv
<1>0. Len(heap) \in Nat /\ \A k \in 1..Len(heap) : heap[k] \in Event
  BY LenProperties, ElementOfSeq DEF TypeOK
<1>1. ASSUME NEW t \in Time, NEW p \in Priority, Schedule(t, p) PROVE Inv'
  <2> DEFINE e == [id |-> issued + 1, timeNs |-> t, priority |-> p]
  <2>1. e \in Event /\ issued + 1 \in 1..MaxEvents
    BY <1>1, QueueAssumption DEF Schedule, Event, PQ!Event, TypeOK
  <2>2. /\ heap' = Append(heap, e) /\ heap' \in Seq(Event)
        /\ Len(heap') = Len(heap) + 1
        /\ \A k \in 1..Len(heap) : heap'[k] = heap[k]
        /\ heap'[Len(heap) + 1] = e
    BY <1>1, <2>1, AppendProperties DEF Schedule, TypeOK
  <2>3. TypeOK'
    BY <1>0, <1>1, <2>1, <2>2, QueueAssumption DEF Schedule, TypeOK
  <2>4. Distinct'
    <3>1. issued \in Nat /\ issued' = issued + 1 /\ e.id = issued + 1
      BY <1>1, QueueAssumption DEF Schedule, TypeOK
    <3>2. \A k \in 1..Len(heap) : heap[k].id <= issued /\ heap[k].id \in Nat
      BY <1>0, BeforeIsOrder DEF Distinct, Event, PQ!Event
    <3>3. \A k \in 1..Len(heap') : heap'[k] = IF k = Len(heap) + 1 THEN e ELSE heap[k]
      BY <1>0, <2>2
    <3> HIDE DEF e
    <3> QED
      BY <1>0, <2>2, <3>1, <3>2, <3>3 DEF Distinct
  <2>5. HeapOrdered'
    BY <1>0, <1>1, <2>2, ParentIsEarlier DEF Schedule, HeapOrdered, Hole
  <2> QED
    BY <2>3, <2>4, <2>5
<1>2. ASSUME NEW id \in 1..issued, Cancel(id) PROVE Inv'
  BY <1>2 DEF Cancel, TypeOK, Distinct, HeapOrdered, Hole
<1>3. ASSUME NEW method \in {"peek", "pop", "size"}, Begin(method) PROVE Inv'
  BY <1>3 DEF Begin, TypeOK, Distinct, HeapOrdered, Hole
<1>4. CASE SiftUp
  <2>1. CASE index > 1 /\ Before(heap[index], heap[Parent(index)])
    <3> DEFINE q == Parent(index)
    <3>1. /\ pc = "siftUp" /\ index \in 1..Len(heap) /\ q \in 1..Len(heap)
          /\ heap' = Swapped(heap, index, q) /\ index' = q /\ pc' = pc
          /\ UNCHANGED <<cancelled, issued, out, op>>
      BY <1>0, <1>4, <2>1, ParentIsEarlier DEF SiftUp, TypeOK
    <3> HIDE DEF q
    <3>2. /\ heap' \in Seq(Event) /\ Len(heap') = Len(heap) /\ Distinct'
      BY <3>1, SwapKeepsEvents
    <3>3. TypeOK'
      BY <1>0, <3>1, <3>2 DEF TypeOK
    <3>4. \A k \in 1..Len(heap) :
            heap'[k] = IF k = q THEN heap[index]
                       ELSE IF k = index THEN heap[q] ELSE heap[k]
      BY <3>1, SwapKeepsEvents
    <3>5. HeapOrdered'
      <4> SUFFICES ASSUME NEW j \in 2..Len(heap)
                   PROVE  /\ j # q => ~Before(heap'[j], heap'[Parent(j)])
                          /\ Parent(j) = q /\ q > 1 =>
                               ~Before(heap'[j], heap'[Parent(q)])
        BY <1>0, <3>1, <3>2 DEF HeapOrdered, Hole
      <4>1. Before(heap[index], heap[q]) /\ index > 1 /\ Parent(index) = q
        BY <2>1 DEF q
      <4>2. Parent(j) \in 1..Len(heap) /\ Parent(j) < j
        BY <1>0, ParentIsEarlier
      <4>3. q > 1 => Parent(q) \in 1..Len(heap) /\ Parent(q) < q
        BY <1>0, <3>1, ParentIsEarlier
      <4>4. \A k \in 2..Len(heap) : k # index =>
              ~Before(heap[k], heap[Parent(k)])
        BY <3>1 DEF HeapOrdered, Hole
      <4>5. \A k \in 2..Len(heap) : Parent(k) = index =>
              ~Before(heap[k], heap[q])
        BY <3>1, <4>1 DEF HeapOrdered
      <4>6. q < index
        BY <1>0, <3>1, <4>1, ParentIsEarlier
      <4>7. ASSUME j # q PROVE ~Before(heap'[j], heap'[Parent(j)])
        <5>1. CASE j = index
          BY <1>0, <3>1, <3>4, <4>1, <4>6, <5>1, BeforeIsOrder
        <5>2. CASE j # index /\ Parent(j) = q
          BY <1>0, <3>1, <3>4, <4>1, <4>4, <4>7, <5>2, BeforeIsOrder
        <5>3. CASE j # index /\ Parent(j) = index
          BY <1>0, <3>1, <3>4, <4>2, <4>5, <4>6, <4>7, <5>3
        <5>4. CASE j # index /\ Parent(j) \notin {q, index}
          BY <1>0, <3>4, <4>2, <4>4, <4>7, <5>4
        <5> QED
          BY <5>1, <5>2, <5>3, <5>4
      <4>8. ASSUME Parent(j) = q, q > 1
            PROVE  ~Before(heap'[j], heap'[Parent(q)])
        <5>1. ~Before(heap[q], heap[Parent(q)]) /\ heap'[Parent(q)] = heap[Parent(q)]
          BY <3>1, <3>4, <4>3, <4>4, <4>6, <4>8
        <5>2. CASE j = index
          BY <3>1, <3>4, <4>6, <5>1, <5>2
        <5>3. CASE j # index
          <6>1. heap'[j] = heap[j] /\ ~Before(heap[j], heap[q])
            BY <1>0, <3>4, <4>2, <4>4, <4>8, <5>3
          <6> QED
            BY <1>0, <3>1, <4>3, <4>8, <5>1, <6>1, BeforeIsOrder
        <5> QED
          BY <5>2, <5>3
      <4> QED
        BY <4>7, <4>8
    <3> QED
      BY <3>2, <3>3, <3>5
  <2>2. CASE ~(index > 1 /\ Before(heap[index], heap[Parent(index)]))
    BY <1>0, <1>4, <2>2 DEF SiftUp, TypeOK, Distinct, HeapOrdered, Hole
  <2> QED
    BY <2>1, <2>2
<1>5. CASE Discard
  <2>1. /\ heap # <<>> /\ RemoveRoot /\ pc = "discard"
        /\ cancelled' = cancelled \ {heap[1].id} /\ UNCHANGED <<issued, out, op>>
    BY <1>5 DEF Discard, RootCancelled
  <2> QED
    BY <2>1, RemoveKeepsOrder DEF TypeOK
<1>6. CASE Return
  BY <1>6 DEF Return, Root, TypeOK, Distinct, HeapOrdered, Hole
<1>7. CASE PopRoot
  <2>1. out' \in Event \cup {NoEvent}
    BY <1>0, <1>7, EmptySeq DEF PopRoot, Root, TypeOK
  <2>2. CASE heap = <<>>
    BY <1>7, <2>1, <2>2 DEF PopRoot, TypeOK, Distinct, HeapOrdered, Hole
  <2>3. CASE heap # <<>>
    <3>1. /\ RemoveRoot /\ pc = "discard" /\ op' = "popped"
          /\ UNCHANGED <<cancelled, issued>>
      BY <1>7, <2>3 DEF PopRoot
    <3> QED
      BY <2>1, <2>3, <3>1, RemoveKeepsOrder DEF TypeOK
  <2> QED
    BY <2>2, <2>3
<1>8. CASE SiftDown
  <2> DEFINE s == Smallest(heap, index)
  <2>1. /\ pc = "siftDown" /\ index \in 1..Len(heap)
        /\ UNCHANGED <<cancelled, issued, out, op>>
        /\ IF s = index THEN pc' = "discard" /\ UNCHANGED <<heap, index>>
           ELSE heap' = Swapped(heap, index, s) /\ index' = s /\ pc' = pc
    BY <1>0, <1>8 DEF SiftDown, TypeOK
  <2>2. /\ s \in 1..Len(heap) /\ s \in {index, 2 * index, 2 * index + 1}
        /\ \A j \in {index, 2 * index, 2 * index + 1} :
             j <= Len(heap) => ~Before(heap[j], heap[s])
    BY <2>1, SmallestIsLeast DEF TypeOK
  <2> HIDE DEF s
  <2>3. \A j \in 2..Len(heap) : Parent(j) = index <=> j = 2 * index \/ j = 2 * index + 1
    BY <1>0, <2>1, ParentAndChild
  <2>4. CASE s = index
    <3>1. HeapOrdered'
      BY <1>0, <2>1, <2>2, <2>3, <2>4 DEF HeapOrdered, Hole
    <3> QED
      BY <2>1, <2>4, <3>1 DEF TypeOK, Distinct
  <2>5. CASE s # index
    <3>1. heap' = Swapped(heap, index, s) /\ index' = s /\ pc' = pc
      BY <2>1, <2>5
    <3>2. /\ heap' \in Seq(Event) /\ Len(heap') = Len(heap) /\ Distinct'
      BY <2>1, <2>2, <3>1, SwapKeepsEvents
    <3>3. TypeOK'
      BY <1>0, <2>1, <2>2, <3>1, <3>2 DEF TypeOK
    <3>4. \A k \in 1..Len(heap) :
            heap'[k] = IF k = s THEN heap[index]
                       ELSE IF k = index THEN heap[s] ELSE heap[k]
      BY <2>1, <2>2, <3>1, SwapKeepsEvents
    <3>5. HeapOrdered'
      <4> SUFFICES ASSUME NEW j \in 2..Len(heap)
                   PROVE  /\ Parent(j) # s => ~Before(heap'[j], heap'[Parent(j)])
                          /\ Parent(j) = s =>
                               ~Before(heap'[j], heap'[Parent(s)])
        BY <1>0, <2>1, <2>2, <3>1, <3>2 DEF HeapOrdered, Hole
      <4>1. s \in 2..Len(heap) /\ Parent(s) = index /\ index < s
        BY <1>0, <2>1, <2>2, <2>3, <2>5
      <4>2. Parent(j) \in 1..Len(heap) /\ Parent(j) < j
        BY <1>0, ParentIsEarlier
      <4>3. \A k \in 2..Len(heap) : Parent(k) # index =>
              ~Before(heap[k], heap[Parent(k)])
        BY <2>1 DEF HeapOrdered, Hole
      <4>4. \A k \in 2..Len(heap) : Parent(k) = index /\ index > 1 =>
              ~Before(heap[k], heap[Parent(index)])
        BY <2>1 DEF HeapOrdered
      <4>5. ASSUME Parent(j) # s PROVE ~Before(heap'[j], heap'[Parent(j)])
        <5>1. CASE Parent(j) = index
          <6>1. heap'[index] = heap[s] /\ ~Before(heap[j], heap[s])
            BY <1>0, <2>1, <2>2, <2>3, <2>5, <3>4, <5>1
          <6>2. CASE j = s
            BY <1>0, <2>1, <2>2, <3>4, <5>1, <6>1, <6>2
          <6>3. CASE j # s
            BY <1>0, <2>1, <2>2, <3>4, <4>2, <5>1, <6>1, <6>3
          <6> QED
            BY <6>2, <6>3
        <5>2. CASE j = index
          BY <1>0, <2>1, <2>2, <3>4, <4>1, <4>2, <4>4, <5>2
        <5>3. CASE Parent(j) # index /\ j # index
          <6>1. j # s
            BY <4>1, <5>3
          <6> QED
            BY <1>0, <3>4, <4>2, <4>3, <4>5, <5>3, <6>1
        <5> QED
          BY <5>1, <5>2, <5>3
      <4>6. ASSUME Parent(j) = s PROVE ~Before(heap'[j], heap'[Parent(s)])
        <5>1. j # s /\ j # index /\ Parent(j) # index
          BY <1>0, <2>1, <4>1, <4>2, <4>6
        <5> QED
          BY <1>0, <2>1, <3>4, <4>1, <4>3, <4>6, <5>1
      <4> QED
        BY <4>5, <4>6
    <3> QED
      BY <3>2, <3>3, <3>5
  <2> QED
    BY <2>4, <2>5
<1>9. CASE Clear
  <2>1. heap' = <<>> /\ Len(heap') = 0 /\ heap' \in Seq(Event)
    BY <1>9, EmptySeq DEF Clear, Cleared
  <2> QED
    BY <1>9, <2>1 DEF Clear, Cleared, TypeOK, Distinct, HeapOrdered, Hole
<1>10. CASE UNCHANGED heapVars
  BY <1>10 DEF heapVars, TypeOK, Distinct, HeapOrdered, Hole
<1> QED
  BY <1>1, <1>2, <1>3, <1>4, <1>5, <1>6, <1>7, <1>8, <1>9, <1>10 DEF Next

\* The heap's order and the types of its variables hold always, for any instants,
\* priorities and number of events.
THEOREM HeapIsOrdered == Spec => []HeapOrdered
<1>1. Inv => HeapOrdered
  BY DEF Inv
<1> QED
  BY <1>1, InitInv, NextInv, PTL DEF Spec

THEOREM TypeCorrect == Spec => []TypeOK
<1>1. Inv => TypeOK
  BY DEF Inv
<1> QED
  BY <1>1, InitInv, NextInv, PTL DEF Spec

-----------------------------------------------------------------------------
(* The queue implements the promised one                                   *)

Pending == {e \in Held : e.id \notin cancelled}

\* With no cancelled root, the root comes out before everything pending.
LEMMA RootIsNext ==
    ASSUME Inv, pc = "discard", ~RootCancelled
    PROVE  /\ heap = <<>> => Root = NoEvent /\ Pending = {}
           /\ heap # <<>> => PQ!Least(Root, Pending)
<1> USE DEF Inv
<1>1. CASE heap = <<>>
  BY <1>1, EmptySeq DEF Root, Pending, Held
<1>2. CASE heap # <<>>
  <2>1. heap \in Seq(Event) /\ Len(heap) \in Nat \ {0}
    BY <1>2, EmptySeq DEF TypeOK
  <2>2. \A i \in 2..Len(heap) : Before(heap[1], heap[i])
    <3>1. \A j \in 2..Len(heap) : ~Before(heap[j], heap[Parent(j)])
      BY DEF HeapOrdered, Hole
    <3>2. \A i, j \in 1..Len(heap) : heap[i].id = heap[j].id => i = j
      BY DEF Distinct
    <3> QED
      BY <2>1, <3>1, <3>2, RootIsLeast
  <2>3. Root = heap[1] /\ heap[1] \in Pending
    BY <1>2, <2>1 DEF Root, RootCancelled, Pending, Held
  <2>4. ASSUME NEW f \in Pending \ {heap[1]} PROVE PQ!Before(heap[1], f)
    BY <2>1, <2>2 DEF Pending, Held, Before
  <2> QED
    BY <1>2, <2>3, <2>4 DEF PQ!Least
<1> QED
  BY <1>1, <1>2

\* Every step of the heap is a step of the promised queue, or none.
LEMMA NextRefines == Inv /\ Inv' /\ [Next]_heapVars => [PQ!PQNext]_(PQ!pqVars)
<1> SUFFICES ASSUME Inv, Inv', [Next]_heapVars PROVE [PQ!PQNext]_(PQ!pqVars)
  OBVIOUS
<1> USE DEF Inv
<1> DEFINE Stutter == UNCHANGED <<Pending, issued, out>>
<1>0. /\ Len(heap) \in Nat /\ \A k \in 1..Len(heap) : heap[k] \in Event
      /\ \A k \in 1..Len(heap) : heap[k].id \in Nat /\ heap[k].id <= issued
      /\ issued \in Nat
  <2>1. Len(heap) \in Nat /\ \A k \in 1..Len(heap) : heap[k] \in Event
    BY LenProperties, ElementOfSeq DEF TypeOK
  <2>2. issued \in Nat
    BY QueueAssumption DEF TypeOK
  <2>3. \A e \in Event : e.id \in Nat
    BY QueueAssumption DEF Event, PQ!Event
  <2> QED
    BY <2>1, <2>2, <2>3 DEF Distinct
<1>1. ASSUME NEW t \in Time, NEW p \in Priority, Schedule(t, p)
      PROVE  PQ!Add(t, p)
  <2> DEFINE e == [id |-> issued + 1, timeNs |-> t, priority |-> p]
  <2>1. /\ heap' = Append(heap, e) /\ issued' = issued + 1 /\ issued < MaxEvents
        /\ cancelled' = cancelled /\ out' = out
    BY <1>1 DEF Schedule
  <2>2. /\ Len(heap') = Len(heap) + 1
        /\ \A k \in 1..Len(heap) : heap'[k] = heap[k]
        /\ heap'[Len(heap) + 1] = e
    <3>1. heap \in Seq(Event)
      BY DEF TypeOK
    <3>2. e \in Event
      BY <1>0, <2>1, QueueAssumption DEF Event, PQ!Event
    <3> HIDE DEF e
    <3> QED
      BY <2>1, <3>1, <3>2, AppendProperties
  <2>3. Held' = Held \cup {e}
    <3>1. Held' \subseteq Held \cup {e}
      BY <1>0, <2>2 DEF Held
    <3>2. Held \subseteq Held' /\ e \in Held'
      BY <1>0, <2>2 DEF Held
    <3> QED
      BY <3>1, <3>2
  <2>4. e.id \notin cancelled
    BY <1>0 DEF TypeOK
  <2>5. Pending' = Pending \cup {e}
    BY <2>1, <2>3, <2>4 DEF Pending
  <2> QED
    BY <2>1, <2>5 DEF PQ!Add, Pending
<1>2. ASSUME NEW id \in 1..issued, Cancel(id) PROVE PQ!Drop(id)
  <2>1. Pending' = {e \in Pending : e.id # id}
    BY <1>2 DEF Cancel, Pending, Held
  <2> QED
    BY <1>2, <2>1 DEF Cancel, PQ!Drop, Pending
<1>3. ASSUME NEW method \in {"peek", "pop", "size"}, Begin(method) PROVE Stutter
  BY <1>3 DEF Begin, Pending, Held
<1>4. ASSUME SiftUp PROVE Stutter
  <2>1. CASE index > 1 /\ Before(heap[index], heap[Parent(index)])
    <3>1. /\ index \in 1..Len(heap) /\ Parent(index) \in 1..Len(heap)
          /\ heap' = Swapped(heap, index, Parent(index))
          /\ UNCHANGED <<cancelled, issued, out>>
      BY <1>0, <1>4, <2>1, ParentIsEarlier DEF SiftUp, TypeOK
    <3>2. Held' = Held
      BY <3>1, SwapKeepsEvents
    <3> QED
      BY <3>1, <3>2 DEF Pending
  <2>2. CASE ~(index > 1 /\ Before(heap[index], heap[Parent(index)]))
    BY <1>4, <2>2 DEF SiftUp, Pending, Held
  <2> QED
    BY <2>1, <2>2
<1>5. ASSUME Discard PROVE Stutter
  <2>1. /\ heap # <<>> /\ RemoveRoot /\ heap[1].id \in cancelled
        /\ cancelled' = cancelled \ {heap[1].id} /\ UNCHANGED <<issued, out>>
    BY <1>5 DEF Discard, RootCancelled
  <2>2. Held' = Held \ {heap[1]} /\ heap[1] \in Held
    BY <2>1, RemoveKeepsEvents
  <2>3. \A e \in Held : e.id = heap[1].id => e = heap[1]
    BY <1>0, <2>2 DEF Held, Distinct
  <2>4. Pending' = Pending
    BY <2>1, <2>2, <2>3 DEF Pending
  <2> QED
    BY <2>1, <2>4
<1>6. ASSUME Return PROVE PQ!Look \/ Stutter
  <2>1. /\ pc = "discard" /\ ~RootCancelled /\ Pending' = Pending
        /\ issued' = issued /\ out' = IF op = "peek" THEN Root ELSE out
    BY <1>6 DEF Return, Pending, Held
  <2>2. CASE op = "peek"
    <3>1. PQ!Look
      <4>1. CASE heap = <<>>
        BY <2>1, <2>2, <4>1, RootIsNext DEF PQ!Look, Pending
      <4>2. CASE heap # <<>>
        <5>1. PQ!Least(Root, Pending) /\ out' = Root
          BY <2>1, <2>2, <4>2, RootIsNext
        <5>2. Pending # {}
          BY <5>1 DEF PQ!Least
        <5> QED
          BY <2>1, <5>1, <5>2 DEF PQ!Look, Pending
      <4> QED
        BY <4>1, <4>2
    <3> QED
      BY <3>1
  <2>3. CASE op # "peek"
    BY <2>1, <2>3
  <2> QED
    BY <2>2, <2>3
<1>7. ASSUME PopRoot PROVE PQ!Take
  <2>1. /\ pc = "discard" /\ ~RootCancelled /\ out' = Root
        /\ IF heap = <<>> THEN heap' = heap ELSE RemoveRoot
        /\ UNCHANGED <<cancelled, issued>>
    BY <1>7 DEF PopRoot
  <2>2. CASE heap = <<>>
    <3>1. Pending = {} /\ Pending' = {} /\ out' = NoEvent
      BY <2>1, <2>2, RootIsNext DEF Pending, Held
    <3> QED
      BY <2>1, <3>1 DEF PQ!Take, Pending
  <2>3. CASE heap # <<>>
    <3>1. PQ!Least(Root, Pending) /\ Root = heap[1] /\ Pending # {}
      BY <2>1, <2>3, RootIsNext DEF Root, PQ!Least
    <3>2. Held' = Held \ {Root}
      BY <2>1, <2>3, <3>1, RemoveKeepsEvents
    <3>3. Pending' = Pending \ {Root}
      BY <2>1, <3>2 DEF Pending
    <3> QED
      BY <2>1, <3>1, <3>3 DEF PQ!Take, Pending
  <2> QED
    BY <2>2, <2>3
<1>8. ASSUME SiftDown PROVE Stutter
  <2> DEFINE s == Smallest(heap, index)
  <2>1. /\ index \in 1..Len(heap) /\ UNCHANGED <<cancelled, issued, out>>
        /\ heap' = heap \/ heap' = Swapped(heap, index, s)
    BY <1>0, <1>8 DEF SiftDown, TypeOK
  <2>2. s \in 1..Len(heap)
    BY <2>1, SmallestIsLeast DEF TypeOK
  <2> HIDE DEF s
  <2>3. Held' = Held
    BY <2>1, <2>2, SwapKeepsEvents DEF Held
  <2> QED
    BY <2>1, <2>3 DEF Pending
<1>9. ASSUME Clear PROVE PQ!DropAll
  <2>1. Pending' = {} /\ UNCHANGED <<issued, out>>
    BY <1>9, EmptySeq DEF Clear, Cleared, Pending, Held
  <2> QED
    BY <2>1 DEF PQ!DropAll, Pending
<1>10. ASSUME UNCHANGED heapVars PROVE Stutter
  BY <1>10 DEF heapVars, Pending, Held
<1>11. Stutter => UNCHANGED PQ!pqVars
  BY DEF PQ!pqVars, Pending
<1> QED
  BY <1>1, <1>2, <1>3, <1>4, <1>5, <1>6, <1>7, <1>8, <1>9, <1>10, <1>11
     DEF Next, PQ!PQNext

\* The heap with lazy cancellation implements the queue that delivers in order what
\* is neither delivered nor cancelled, for any instants, priorities and number of
\* events.
THEOREM HeapImplementsQueue == Spec => Refinement
<1>1. Init => PQ!PQInit
  BY EmptySeq DEF Init, PQ!PQInit, Held
<1>2. Inv /\ Inv' /\ [Next]_heapVars => [PQ!PQNext]_(PQ!pqVars)
  BY NextRefines
<1> QED
  BY <1>1, <1>2, InitInv, NextInv, PTL DEF Spec, Refinement, PQ!PQSpec

-----------------------------------------------------------------------------
(* The pool.                                                               *)

USE NoTaskAssumption

-----------------------------------------------------------------------------
(* The inductive invariant, over values rather than variables: pump works  *)
(* on a stack, a queue and pending tasks its callers have just changed.    *)

Typed(slots, tasks, held, in, outs, alive, st, gv) ==
  /\ slots \in Seq(Workers) /\ tasks \in Seq(Tasks)
  /\ held \in [Workers -> Tasks \cup {NoTask}]
  /\ in \in [Workers -> Seq(Tasks)]
  /\ outs \in [Workers -> Seq(Answers)]
  /\ alive \in [Workers -> {"up", "failing", "dead", "closed"}]
  /\ st \in [Tasks -> {"new", "waiting", "resolved", "rejected"}]
  /\ gv \in [Tasks -> Tasks \cup {NoTask}]

\* What is inside a worker is the task its slot remembers.
HeldInv(held, in, outs, alive) ==
  \A w \in Workers :
    /\ Len(in[w]) + Len(outs[w]) <= 1
    /\ in[w] # <<>> => alive[w] # "failing" /\ alive[w] # "dead" /\ Head(in[w]) = held[w]
    /\ outs[w] # <<>> => held[w] = NoTask \/ held[w] = Head(outs[w]).of
    /\ alive[w] = "up" /\ held[w] = NoTask => in[w] = <<>> /\ outs[w] = <<>>

\* A slot is on the stack once, and with nothing in it.
Free(slots, held, in, outs) ==
  /\ \A i \in 1..Len(slots) :
       held[slots[i]] = NoTask /\ in[slots[i]] = <<>> /\ outs[slots[i]] = <<>>
  /\ \A i, j \in 1..Len(slots) : slots[i] = slots[j] => i = j

\* A task that waits is in one place at most and has been given nothing.
Single(tasks, held, st, gv) ==
  /\ \A i \in 1..Len(tasks) : st[tasks[i]] = "waiting"
  /\ \A i, j \in 1..Len(tasks) : tasks[i] = tasks[j] => i = j
  /\ \A w \in Workers :
       held[w] # NoTask =>
         /\ st[held[w]] = "waiting"
         /\ \A i \in 1..Len(tasks) : tasks[i] # held[w]
         /\ \A v \in Workers : held[v] = held[w] => v = w
  /\ \A t \in Tasks : gv[t] = NoTask \/ gv[t] = t

PoolSound(slots, tasks, held, in, outs, alive, st, gv) ==
  /\ Typed(slots, tasks, held, in, outs, alive, st, gv)
  /\ HeldInv(held, in, outs, alive)
  /\ Free(slots, held, in, outs)
  /\ Single(tasks, held, st, gv)

PoolInv == PoolSound(idle, backlog, pending, inbox, outbox, life, status, settledBy)

-----------------------------------------------------------------------------
LEMMA AppendFacts ==
  ASSUME NEW S, NEW s \in Seq(S), NEW e \in S
  PROVE  /\ Append(s, e) \in Seq(S)
         /\ Len(Append(s, e)) = Len(s) + 1
         /\ \A i \in 1..Len(s) + 1 : Append(s, e)[i] = IF i <= Len(s) THEN s[i] ELSE e
         /\ s = <<>> => Head(Append(s, e)) = e
  OBVIOUS

LEMMA OneInTwo ==
  ASSUME NEW S, NEW T, NEW s \in Seq(S), NEW t \in Seq(T),
         Len(s) + Len(t) <= 1, s # <<>>
  PROVE  Len(s) = 1 /\ t = <<>>
<1>1. Len(s) \in Nat /\ Len(t) \in Nat
  OBVIOUS
<1>2. Len(s) # 0
  BY EmptySeq
<1>3. \A m, n \in Nat : m + n <= 1 /\ m # 0 => m = 1 /\ n = 0
  OBVIOUS
<1>4. Len(s) = 1 /\ Len(t) = 0
  BY <1>1, <1>2, <1>3
<1> QED
  BY <1>4, EmptySeq

LEMMA TailOfOne ==
  ASSUME NEW S, NEW s \in Seq(S), Len(s) = 1
  PROVE  Head(s) \in S /\ Tail(s) = <<>>
<1>1. s # <<>>
  OBVIOUS
<1>2. Head(s) \in S /\ Tail(s) \in Seq(S) /\ Len(Tail(s)) = 0
  BY <1>1, HeadTailProperties
<1> QED
  BY <1>2, EmptySeq

LEMMA FrontFacts ==
  ASSUME NEW S, NEW s \in Seq(S), s # <<>>
  PROVE  /\ Front(s) \in Seq(S)
         /\ Len(Front(s)) = Len(s) - 1
         /\ \A i \in 1..Len(s) - 1 : Front(s)[i] = s[i]
         /\ Last(s) \in S /\ Len(s) \in 1..Len(s) /\ Last(s) = s[Len(s)]
<1>1. Len(s) \in Nat /\ Len(s) # 0
  BY EmptySeq
<1>2. \A i \in 1..Len(s) - 1 : s[i] \in S
  BY <1>1
<1>3. PICK n \in Nat : n = Len(s) - 1
  BY <1>1
<1>4. /\ SubSeq(s, 1, n) \in Seq(S)
      /\ Len(SubSeq(s, 1, n)) = n
      /\ \A i \in 1..n : SubSeq(s, 1, n)[i] = s[i]
  <2>1. \A i \in 1..n : s[i] \in S
    BY <1>2, <1>3
  <2>2. 1 \in Int /\ n \in Int
    OBVIOUS
  <2>3. /\ SubSeq(s, 1, n) \in Seq(S)
        /\ Len(SubSeq(s, 1, n)) = IF 1 <= n THEN n - 1 + 1 ELSE 0
        /\ \A i \in 1..n - 1 + 1 : SubSeq(s, 1, n)[i] = s[1 + i - 1]
    <3>1. \A l, m \in Int :
            (\A i \in l..m : s[i] \in S) =>
              /\ SubSeq(s, l, m) \in Seq(S)
              /\ Len(SubSeq(s, l, m)) = IF l <= m THEN m - l + 1 ELSE 0
              /\ \A i \in 1..m - l + 1 : SubSeq(s, l, m)[i] = s[l + i - 1]
      BY SubSeqProperties
    <3> QED
      BY <2>1, <2>2, <3>1
  <2> QED
    BY <2>3
<1>5. s[Len(s)] \in S /\ Len(s) \in 1..Len(s)
  BY <1>1
<1> QED
  BY <1>3, <1>5, <1>4 DEF Front, Last

-----------------------------------------------------------------------------
(* The stack at the start                                                  *)

LEMMA StackFacts ==
  /\ SetToSeq(Workers) \in Seq(Workers)
  /\ \A i, j \in 1..Len(SetToSeq(Workers)) :
       SetToSeq(Workers)[i] = SetToSeq(Workers)[j] => i = j
<1> DEFINE n == Cardinality(Workers)
           s == SetToSeq(Workers)
<1>1. n \in Nat /\ ExistsBijection(1..n, Workers)
  BY WorkersAssumption, FS_CardinalityType
<1>2. PICK f \in Bijection(1..n, Workers) : TRUE
  BY <1>1 DEF ExistsBijection
<1>3. f \in [1..n -> Workers] /\ IsInjective(f)
  BY <1>2 DEF Bijection, Injection, IsInjective
<1>4. s \in [1..n -> Workers] /\ IsInjective(s)
  BY <1>3 DEF SetToSeq
<1>5. s \in Seq(Workers) /\ DOMAIN s = 1..n /\ Len(s) = n
  BY <1>1, <1>4
<1> QED
  BY <1>4, <1>5 DEF IsInjective

LEMMA InitPool == PoolInit => PoolInv
<1> SUFFICES ASSUME PoolInit PROVE PoolInv
  OBVIOUS
<1>1. Typed(idle, backlog, pending, inbox, outbox, life, status, settledBy)
  BY StackFacts DEF PoolInit, Typed
<1>2. HeldInv(pending, inbox, outbox, life)
  BY DEF PoolInit, HeldInv
<1>3. Free(idle, pending, inbox, outbox)
  <2>1. idle = SetToSeq(Workers) /\ idle \in Seq(Workers)
    BY StackFacts DEF PoolInit
  <2>2. \A i \in 1..Len(idle) : idle[i] \in Workers
    BY <2>1
  <2>3. \A w \in Workers : pending[w] = NoTask /\ inbox[w] = <<>> /\ outbox[w] = <<>>
    BY DEF PoolInit
  <2> QED
    BY <2>1, <2>2, <2>3, StackFacts DEF Free
<1>4. Single(backlog, pending, status, settledBy)
  BY DEF PoolInit, Single
<1> QED
  BY <1>1, <1>2, <1>3, <1>4 DEF PoolInv, PoolSound

-----------------------------------------------------------------------------
(* pump                                                                    *)

LEMMA PumpSound ==
  ASSUME NEW slots, NEW tasks, NEW held, NEW outs, NEW st, NEW gv,
         PoolSound(slots, tasks, held, inbox, outs, life, st, gv),
         Pump(slots, tasks, held)
  PROVE  PoolSound(idle', backlog', pending', inbox', outs, life, st, gv)
<1> USE DEF PoolSound
<1>1. CASE slots = <<>> \/ tasks = <<>>
  BY <1>1 DEF Pump
<1>2. CASE slots # <<>> /\ tasks # <<>>
  <2> DEFINE w == Last(slots)
             t == Head(tasks)
  <2>1. /\ idle' = Front(slots) /\ backlog' = Tail(tasks)
        /\ pending' = [held EXCEPT ![w] = t]
        /\ inbox' = IF life[w] = "up" THEN [inbox EXCEPT ![w] = Append(@, t)] ELSE inbox
    BY <1>2 DEF Pump
  <2>2. slots \in Seq(Workers) /\ tasks \in Seq(Tasks)
    BY DEF Typed
  <2>3. /\ Front(slots) \in Seq(Workers)
        /\ Len(Front(slots)) = Len(slots) - 1
        /\ \A i \in 1..Len(slots) - 1 : Front(slots)[i] = slots[i]
        /\ w \in Workers /\ Len(slots) \in 1..Len(slots) /\ w = slots[Len(slots)]
    BY <1>2, <2>2, FrontFacts
  <2>4. /\ t \in Tasks /\ t = tasks[1] /\ 1 \in 1..Len(tasks)
        /\ Tail(tasks) \in Seq(Tasks)
        /\ Len(Tail(tasks)) = Len(tasks) - 1
        /\ \A i \in 1..Len(tasks) - 1 : Tail(tasks)[i] = tasks[i + 1]
    BY <1>2, <2>2
  <2>5. held[w] = NoTask /\ inbox[w] = <<>> /\ outs[w] = <<>>
    BY <2>3 DEF Free
  <2>6. /\ Append(inbox[w], t) \in Seq(Tasks)
        /\ Append(inbox[w], t) # <<>>
        /\ Len(Append(inbox[w], t)) = 1 /\ Head(Append(inbox[w], t)) = t
    BY <2>4, <2>5
  <2>7. t # NoTask
    BY <2>4
  <2>8. /\ pending' \in [Workers -> Tasks \cup {NoTask}]
        /\ pending'[w] = t
        /\ \A v \in Workers \ {w} : pending'[v] = held[v]
    BY <2>1, <2>3, <2>4 DEF Typed
  <2>9. /\ inbox' \in [Workers -> Seq(Tasks)]
        /\ inbox'[w] = IF life[w] = "up" THEN Append(inbox[w], t) ELSE inbox[w]
        /\ \A v \in Workers \ {w} : inbox'[v] = inbox[v]
    BY <2>1, <2>3, <2>6 DEF Typed
  <2> HIDE DEF w, t
  <2>10. Typed(idle', backlog', pending', inbox', outs, life, st, gv)
    BY <2>1, <2>3, <2>4, <2>8, <2>9 DEF Typed
  <2>11. HeldInv(pending', inbox', outs, life)
    <3> SUFFICES ASSUME NEW v \in Workers
                 PROVE  /\ Len(inbox'[v]) + Len(outs[v]) <= 1
                        /\ inbox'[v] # <<>> => life[v] # "failing" /\ life[v] # "dead"
                                               /\ Head(inbox'[v]) = pending'[v]
                        /\ outs[v] # <<>> => pending'[v] = NoTask \/ pending'[v] = Head(outs[v]).of
                        /\ life[v] = "up" /\ pending'[v] = NoTask => inbox'[v] = <<>> /\ outs[v] = <<>>
      BY DEF HeldInv
    <3>1. CASE v = w
      <4>1. Len(outs[v]) = 0 /\ Len(inbox[v]) = 0
        BY <3>1, <2>5
      <4> QED
        BY <3>1, <4>1, <2>5, <2>6, <2>7, <2>8, <2>9
    <3>2. CASE v # w
      <4>1. inbox'[v] = inbox[v] /\ pending'[v] = held[v]
        BY <3>2, <2>8, <2>9
      <4> QED
        BY <4>1 DEF HeldInv
    <3> QED
      BY <3>1, <3>2
  <2>12. Free(idle', pending', inbox', outs)
    <3>1. \A i \in 1..Len(slots) - 1 :
            /\ i \in 1..Len(slots) /\ i # Len(slots) /\ slots[i] \in Workers
            /\ idle'[i] = slots[i]
      BY <2>1, <2>2, <2>3
    <3>2. \A i \in 1..Len(slots) - 1 : slots[i] # w
      BY <3>1, <2>3 DEF Free
    <3>3. \A i \in 1..Len(slots) - 1 :
            pending'[slots[i]] = NoTask /\ inbox'[slots[i]] = <<>> /\ outs[slots[i]] = <<>>
      BY <3>1, <3>2, <2>8, <2>9 DEF Free
    <3>4. \A i, j \in 1..Len(slots) - 1 : idle'[i] = idle'[j] => i = j
      BY <3>1 DEF Free
    <3>5. Len(idle') = Len(slots) - 1
      BY <2>1, <2>3
    <3> QED
      BY <3>1, <3>3, <3>4, <3>5 DEF Free
  <2>13. Single(backlog', pending', st, gv)
    <3>1. /\ Len(backlog') = Len(tasks) - 1
          /\ \A i \in 1..Len(tasks) - 1 :
               i + 1 \in 1..Len(tasks) /\ i + 1 # 1 /\ backlog'[i] = tasks[i + 1]
      BY <2>1, <2>2, <2>4
    <3>2. \A i \in 1..Len(tasks) - 1 : st[backlog'[i]] = "waiting" /\ backlog'[i] # t
      BY <3>1, <2>4 DEF Single
    <3>3. \A i, j \in 1..Len(tasks) - 1 : backlog'[i] = backlog'[j] => i = j
      <4> SUFFICES ASSUME NEW i \in 1..Len(tasks) - 1, NEW j \in 1..Len(tasks) - 1,
                          backlog'[i] = backlog'[j]
                   PROVE  i = j
        OBVIOUS
      <4>1. i + 1 = j + 1
        BY <3>1 DEF Single
      <4> QED
        BY <4>1
    <3>4. st[t] = "waiting"
      BY <2>4 DEF Single
    <3>5. \A v \in Workers : held[v] # t
      BY <2>4, <2>7 DEF Single
    <3>6. ASSUME NEW v \in Workers, pending'[v] # NoTask
          PROVE  /\ st[pending'[v]] = "waiting"
                 /\ \A i \in 1..Len(tasks) - 1 : backlog'[i] # pending'[v]
                 /\ \A u \in Workers : pending'[u] = pending'[v] => u = v
      <4>1. CASE v = w
        BY <4>1, <2>8, <3>2, <3>4, <3>5
      <4>2. CASE v # w
        <5>1. pending'[v] = held[v] /\ held[v] # NoTask
          BY <4>2, <3>6, <2>8
        <5>2. st[held[v]] = "waiting" /\ \A i \in 1..Len(tasks) : tasks[i] # held[v]
          BY <5>1 DEF Single
        <5>3. \A i \in 1..Len(tasks) - 1 : backlog'[i] # held[v]
          BY <5>2, <3>1
        <5>4. \A u \in Workers : pending'[u] = held[v] => u = v
          BY <5>1, <2>8, <3>5 DEF Single
        <5> QED
          BY <5>1, <5>2, <5>3, <5>4
      <4> QED
        BY <4>1, <4>2
    <3> QED
      BY <3>1, <3>2, <3>3, <3>6 DEF Single
  <2> QED
    BY <2>10, <2>11, <2>12, <2>13
<1> QED
  BY <1>1, <1>2

-----------------------------------------------------------------------------
(* The steps                                                               *)

LEMMA RunKeeps ==
  ASSUME PoolInv, NEW t \in Tasks, Run(t)
  PROVE  PoolInv'
<1> DEFINE tasks == Append(backlog, t)
<1>1. /\ status[t] = "new" /\ status' = [status EXCEPT ![t] = "waiting"]
      /\ Pump(idle, tasks, pending)
      /\ UNCHANGED <<outbox, life, settledBy>>
  BY DEF Run
<1>2. Typed(idle, backlog, pending, inbox, outbox, life, status, settledBy)
      /\ HeldInv(pending, inbox, outbox, life) /\ Free(idle, pending, inbox, outbox)
      /\ Single(backlog, pending, status, settledBy)
  BY DEF PoolInv, PoolSound
<1>3. /\ tasks \in Seq(Tasks) /\ Len(tasks) = Len(backlog) + 1
      /\ \A i \in 1..Len(backlog) + 1 : tasks[i] = IF i <= Len(backlog) THEN backlog[i] ELSE t
      /\ Len(backlog) \in Nat
  BY <1>2, AppendFacts DEF Typed
<1> HIDE DEF tasks
<1>4. /\ status' \in [Tasks -> {"new", "waiting", "resolved", "rejected"}]
      /\ status'[t] = "waiting" /\ \A u \in Tasks \ {t} : status'[u] = status[u]
  BY <1>1, <1>2 DEF Typed
<1>5. Typed(idle, tasks, pending, inbox, outbox, life, status', settledBy)
  BY <1>2, <1>3, <1>4 DEF Typed
<1>6. Single(tasks, pending, status', settledBy)
  <2>1. \A i \in 1..Len(backlog) : backlog[i] \in Tasks /\ backlog[i] # t /\ status[backlog[i]] = "waiting"
    <3>1. \A i \in 1..Len(backlog) : backlog[i] \in Tasks
      BY <1>2 DEF Typed
    <3>2. \A i \in 1..Len(backlog) : status[backlog[i]] = "waiting"
      BY <1>2 DEF Single
    <3> QED
      BY <1>1, <3>1, <3>2
  <2>2. \A i \in 1..Len(tasks) : status'[tasks[i]] = "waiting"
    BY <1>3, <1>4, <2>1
  <2>3. \A i, j \in 1..Len(tasks) : tasks[i] = tasks[j] => i = j
    <3> SUFFICES ASSUME NEW i \in 1..Len(tasks), NEW j \in 1..Len(tasks), tasks[i] = tasks[j]
                 PROVE  i = j
      OBVIOUS
    <3>1. CASE i <= Len(backlog) /\ j <= Len(backlog)
      <4>1. i \in 1..Len(backlog) /\ j \in 1..Len(backlog) /\ backlog[i] = backlog[j]
        BY <1>3, <3>1
      <4> QED
        BY <4>1, <1>2 DEF Single
    <3>2. CASE i > Len(backlog) \/ j > Len(backlog)
      BY <3>2, <1>3, <2>1
    <3> QED
      BY <3>1, <3>2, <1>3
  <2>4. \A w \in Workers : pending[w] # NoTask =>
          pending[w] \in Tasks /\ pending[w] # t /\ status[pending[w]] = "waiting"
    BY <1>1, <1>2 DEF Typed, Single
  <2>5. \A w \in Workers : pending[w] # NoTask =>
          /\ status'[pending[w]] = "waiting"
          /\ \A i \in 1..Len(tasks) : tasks[i] # pending[w]
          /\ \A v \in Workers : pending[v] = pending[w] => v = w
    BY <1>2, <1>3, <1>4, <2>4 DEF Single
  <2> QED
    BY <2>2, <2>3, <2>5, <1>2 DEF Single
<1>7. PoolSound(idle, tasks, pending, inbox, outbox, life, status', settledBy)
  BY <1>2, <1>5, <1>6 DEF PoolSound
<1>8. PoolSound(idle', backlog', pending', inbox', outbox, life, status', settledBy)
  BY <1>1, <1>7, PumpSound
<1> QED
  BY <1>1, <1>8 DEF PoolInv

\* Settling the task of a slot that has just let go of it.
LEMMA SettleSingle ==
  ASSUME PoolInv, NEW w \in Workers, NEW state \in {"resolved", "rejected"}, NEW of,
         of = pending[w], Settle(pending[w], state, of)
  PROVE  /\ status' \in [Tasks -> {"new", "waiting", "resolved", "rejected"}]
         /\ settledBy' \in [Tasks -> Tasks \cup {NoTask}]
         /\ Single(backlog, [pending EXCEPT ![w] = NoTask], status', settledBy')
<1> DEFINE held == [pending EXCEPT ![w] = NoTask]
<1>1. Typed(idle, backlog, pending, inbox, outbox, life, status, settledBy)
      /\ Single(backlog, pending, status, settledBy)
  BY DEF PoolInv, PoolSound
<1>2. held[w] = NoTask /\ \A v \in Workers \ {w} : held[v] = pending[v]
  BY <1>1 DEF Typed
<1> HIDE DEF held
<1>3. CASE pending[w] = NoTask
  <2>1. status' = status /\ settledBy' = settledBy
    BY <1>3 DEF Settle
  <2>2. Single(backlog, held, status, settledBy)
    BY <1>1, <1>2 DEF Single
  <2> QED
    BY <2>1, <2>2, <1>1 DEF Typed, held
<1>4. CASE pending[w] # NoTask
  <2>1. pending[w] \in Tasks
    BY <1>1, <1>4 DEF Typed
  <2>2. /\ status' = [status EXCEPT ![pending[w]] = state]
        /\ settledBy' = [settledBy EXCEPT ![pending[w]] = pending[w]]
    BY <1>4 DEF Settle
  <2>3. /\ status' \in [Tasks -> {"new", "waiting", "resolved", "rejected"}]
        /\ settledBy' \in [Tasks -> Tasks \cup {NoTask}]
        /\ \A t \in Tasks : t # pending[w] => status'[t] = status[t]
        /\ \A t \in Tasks : settledBy'[t] = NoTask \/ settledBy'[t] = t
    BY <1>1, <2>1, <2>2 DEF Typed, Single
  <2>4. \A i \in 1..Len(backlog) :
          backlog[i] \in Tasks /\ backlog[i] # pending[w] /\ status'[backlog[i]] = "waiting"
    BY <1>1, <1>4, <2>3 DEF Typed, Single
  <2>5. \A v \in Workers : held[v] # NoTask =>
          v # w /\ held[v] = pending[v] /\ pending[v] \in Tasks /\ pending[v] # pending[w]
    BY <1>1, <1>2 DEF Typed, Single
  <2>6. \A v \in Workers : held[v] # NoTask =>
          /\ status'[held[v]] = "waiting"
          /\ \A i \in 1..Len(backlog) : backlog[i] # held[v]
          /\ \A u \in Workers : held[u] = held[v] => u = v
    BY <1>1, <1>2, <2>3, <2>5 DEF Single
  <2>7. Single(backlog, held, status', settledBy')
    BY <1>1, <2>3, <2>4, <2>6 DEF Single
  <2> QED
    BY <2>3, <2>7 DEF held
<1> QED
  BY <1>3, <1>4

LEMMA MessageKeeps ==
  ASSUME PoolInv, NEW w \in Workers, Message(w)
  PROVE  PoolInv'
<1> DEFINE slots == Append(idle, w)
           held == [pending EXCEPT ![w] = NoTask]
           a == Head(outbox[w])
<1>1. /\ ~Closed /\ outbox[w] # <<>>
      /\ outbox' = [outbox EXCEPT ![w] = Tail(@)]
      /\ Pump(slots, backlog, held)
      /\ Settle(pending[w], IF a.ok THEN "resolved" ELSE "rejected", a.of)
      /\ life' = life
  BY DEF Message
<1>2. Typed(idle, backlog, pending, inbox, outbox, life, status, settledBy)
      /\ HeldInv(pending, inbox, outbox, life) /\ Free(idle, pending, inbox, outbox)
  BY DEF PoolInv, PoolSound
<1>3. outbox[w] \in Seq(Answers) /\ inbox[w] \in Seq(Tasks)
  BY <1>2 DEF Typed
<1>4. Len(inbox[w]) + Len(outbox[w]) <= 1
  BY <1>2 DEF HeldInv
<1>5. inbox[w] = <<>> /\ Tail(outbox[w]) = <<>> /\ Tail(outbox[w]) \in Seq(Answers)
  <2>1. Len(inbox[w]) \in Nat /\ Len(outbox[w]) \in Nat
    BY <1>3
  <2>2. \A m, n \in Nat : m + n <= 1 => n + m <= 1
    OBVIOUS
  <2>3. Len(outbox[w]) + Len(inbox[w]) <= 1
    BY <1>4, <2>1, <2>2
  <2>4. outbox[w] # <<>>
    BY <1>1
  <2>5. inbox[w] = <<>> /\ Len(outbox[w]) = 1
    <3>1. \A s \in Seq(Answers), t \in Seq(Tasks) :
            Len(s) + Len(t) <= 1 /\ s # <<>> => Len(s) = 1 /\ t = <<>>
      BY OneInTwo
    <3> QED
      BY <1>3, <2>3, <2>4, <3>1, Zenon
  <2> QED
    BY <1>3, <2>5, TailOfOne, EmptySeq
<1>6. /\ outbox' \in [Workers -> Seq(Answers)]
      /\ outbox'[w] = <<>> /\ \A v \in Workers \ {w} : outbox'[v] = outbox[v]
  BY <1>1, <1>2, <1>5 DEF Typed
<1>7. /\ held \in [Workers -> Tasks \cup {NoTask}]
      /\ held[w] = NoTask /\ \A v \in Workers \ {w} : held[v] = pending[v]
  BY <1>2 DEF Typed
<1>8. /\ status' \in [Tasks -> {"new", "waiting", "resolved", "rejected"}]
      /\ settledBy' \in [Tasks -> Tasks \cup {NoTask}]
      /\ Single(backlog, held, status', settledBy')
  <2>1. CASE pending[w] = NoTask
    <3>1. Settle(pending[w], "resolved", pending[w])
      BY <1>1, <2>1 DEF Settle
    <3> QED
      BY <3>1, SettleSingle
  <2>2. CASE pending[w] # NoTask
    <3>1. a.of = pending[w]
      BY <1>1, <1>2, <2>2 DEF HeldInv
    <3>2. (IF a.ok THEN "resolved" ELSE "rejected") \in {"resolved", "rejected"}
      OBVIOUS
    <3>3. Settle(pending[w], IF a.ok THEN "resolved" ELSE "rejected", pending[w])
      BY <1>1, <3>1
    <3> QED
      BY <3>2, <3>3, SettleSingle
  <2> QED
    BY <2>1, <2>2
<1>9. /\ slots \in Seq(Workers) /\ Len(slots) = Len(idle) + 1
      /\ \A i \in 1..Len(idle) + 1 : slots[i] = IF i <= Len(idle) THEN idle[i] ELSE w
      /\ Len(idle) \in Nat
  BY <1>2, AppendFacts DEF Typed
<1> HIDE DEF slots, held, a
<1>10. Typed(slots, backlog, held, inbox, outbox', life, status', settledBy')
  BY <1>2, <1>6, <1>7, <1>8, <1>9 DEF Typed
<1>11. HeldInv(held, inbox, outbox', life)
  <2> SUFFICES ASSUME NEW v \in Workers
               PROVE  /\ Len(inbox[v]) + Len(outbox'[v]) <= 1
                      /\ inbox[v] # <<>> => life[v] # "failing" /\ life[v] # "dead"
                                            /\ Head(inbox[v]) = held[v]
                      /\ outbox'[v] # <<>> => held[v] = NoTask \/ held[v] = Head(outbox'[v]).of
                      /\ life[v] = "up" /\ held[v] = NoTask => inbox[v] = <<>> /\ outbox'[v] = <<>>
    BY DEF HeldInv
  <2>1. CASE v = w
    <3>1. Len(inbox[w]) = 0 /\ Len(outbox'[w]) = 0
      BY <1>5, <1>6
    <3> QED
      BY <2>1, <3>1, <1>5, <1>6
  <2>2. CASE v # w
    <3>1. outbox'[v] = outbox[v] /\ held[v] = pending[v]
      BY <2>2, <1>6, <1>7
    <3> QED
      BY <3>1, <1>2 DEF HeldInv
  <2> QED
    BY <2>1, <2>2
<1>12. Free(slots, held, inbox, outbox')
  <2>1. \A i \in 1..Len(idle) : idle[i] \in Workers /\ idle[i] # w
    BY <1>1, <1>2 DEF Typed, Free
  <2>2. ASSUME NEW i \in 1..Len(slots)
        PROVE  held[slots[i]] = NoTask /\ inbox[slots[i]] = <<>> /\ outbox'[slots[i]] = <<>>
    <3>1. CASE i <= Len(idle)
      <4>1. i \in 1..Len(idle) /\ slots[i] = idle[i]
        BY <1>9, <3>1
      <4> QED
        BY <4>1, <1>2, <1>6, <1>7, <2>1 DEF Free
    <3>2. CASE i > Len(idle)
      <4>1. slots[i] = w
        BY <1>9, <3>2
      <4> QED
        BY <4>1, <1>5, <1>6, <1>7
    <3> QED
      BY <3>1, <3>2, <1>9
  <2>3. \A i, j \in 1..Len(slots) : slots[i] = slots[j] => i = j
    <3> SUFFICES ASSUME NEW i \in 1..Len(slots), NEW j \in 1..Len(slots), slots[i] = slots[j]
                 PROVE  i = j
      OBVIOUS
    <3>1. CASE i <= Len(idle) /\ j <= Len(idle)
      <4>1. i \in 1..Len(idle) /\ j \in 1..Len(idle) /\ idle[i] = idle[j]
        BY <1>9, <3>1
      <4> QED
        BY <4>1, <1>2 DEF Free
    <3>2. CASE i > Len(idle) \/ j > Len(idle)
      BY <3>2, <1>9, <2>1
    <3> QED
      BY <3>1, <3>2, <1>9
  <2> QED
    BY <2>2, <2>3 DEF Free
<1>13. PoolSound(slots, backlog, held, inbox, outbox', life, status', settledBy')
  BY <1>8, <1>10, <1>11, <1>12 DEF PoolSound
<1>14. PoolSound(idle', backlog', pending', inbox', outbox', life, status', settledBy')
  BY <1>1, <1>13, PumpSound
<1> QED
  BY <1>1, <1>14 DEF PoolInv

LEMMA ErrorKeeps ==
  ASSUME PoolInv, NEW w \in Workers, Error(w)
  PROVE  PoolInv'
<1>1. /\ life[w] = "failing" /\ life' = [life EXCEPT ![w] = "dead"]
      /\ pending' = [pending EXCEPT ![w] = NoTask]
      /\ Settle(pending[w], "rejected", pending[w])
      /\ UNCHANGED <<idle, backlog, inbox, outbox>>
  BY DEF Error
<1>2. Typed(idle, backlog, pending, inbox, outbox, life, status, settledBy)
      /\ HeldInv(pending, inbox, outbox, life) /\ Free(idle, pending, inbox, outbox)
  BY DEF PoolInv, PoolSound
<1>3. /\ pending' \in [Workers -> Tasks \cup {NoTask}]
      /\ pending'[w] = NoTask /\ \A v \in Workers \ {w} : pending'[v] = pending[v]
  BY <1>1, <1>2 DEF Typed
<1>4. /\ life' \in [Workers -> {"up", "failing", "dead", "closed"}]
      /\ life'[w] = "dead" /\ \A v \in Workers \ {w} : life'[v] = life[v]
  BY <1>1, <1>2 DEF Typed
<1>5. /\ status' \in [Tasks -> {"new", "waiting", "resolved", "rejected"}]
      /\ settledBy' \in [Tasks -> Tasks \cup {NoTask}]
      /\ Single(backlog, pending', status', settledBy')
  BY <1>1, SettleSingle
<1>6. inbox[w] = <<>>
  BY <1>1, <1>2 DEF HeldInv
<1>7. HeldInv(pending', inbox, outbox, life')
  BY <1>2, <1>3, <1>4, <1>6 DEF HeldInv
<1>8. Free(idle, pending', inbox, outbox)
  <2>1. \A i \in 1..Len(idle) : idle[i] \in Workers
    BY <1>2 DEF Typed
  <2> QED
    BY <1>2, <1>3, <2>1 DEF Free
<1>9. Typed(idle, backlog, pending', inbox, outbox, life', status', settledBy')
  BY <1>2, <1>3, <1>4, <1>5 DEF Typed
<1> QED
  BY <1>1, <1>5, <1>7, <1>8, <1>9 DEF PoolInv, PoolSound

LEMMA AnswerKeeps ==
  ASSUME PoolInv, NEW w \in Workers, Answer(w)
  PROVE  PoolInv'
<1>1. PICK ok \in BOOLEAN :
        outbox' = [outbox EXCEPT ![w] = Append(@, [of |-> Head(inbox[w]), ok |-> ok])]
  BY DEF Answer
<1>2. /\ life[w] = "up" /\ inbox[w] # <<>> /\ inbox' = [inbox EXCEPT ![w] = Tail(@)]
      /\ UNCHANGED <<idle, backlog, pending, life, status, settledBy>>
  BY DEF Answer
<1>3. Typed(idle, backlog, pending, inbox, outbox, life, status, settledBy)
      /\ HeldInv(pending, inbox, outbox, life) /\ Free(idle, pending, inbox, outbox)
      /\ Single(backlog, pending, status, settledBy)
  BY DEF PoolInv, PoolSound
<1>4. inbox[w] \in Seq(Tasks) /\ outbox[w] \in Seq(Answers)
  BY <1>3 DEF Typed
<1>5. Len(inbox[w]) = 1 /\ outbox[w] = <<>>
  <2>1. Len(inbox[w]) + Len(outbox[w]) <= 1
    BY <1>3 DEF HeldInv
  <2> QED
    BY <1>2, <1>4, <2>1, OneInTwo
<1>6. Tail(inbox[w]) = <<>> /\ Tail(inbox[w]) \in Seq(Tasks) /\ Head(inbox[w]) \in Tasks
  BY <1>4, <1>5, TailOfOne, EmptySeq
<1> DEFINE answer == [of |-> Head(inbox[w]), ok |-> ok]
<1>7. answer \in Answers /\ answer.of = Head(inbox[w])
  BY <1>6 DEF Answers
<1>8. Head(inbox[w]) = pending[w]
  BY <1>2, <1>3 DEF HeldInv
<1>9. /\ Append(outbox[w], answer) \in Seq(Answers)
      /\ Len(Append(outbox[w], answer)) = 1
      /\ Head(Append(outbox[w], answer)) = answer
  BY <1>4, <1>5, <1>6, <1>7, AppendFacts
<1>10. /\ outbox' \in [Workers -> Seq(Answers)]
       /\ outbox'[w] = Append(outbox[w], answer)
       /\ \A v \in Workers \ {w} : outbox'[v] = outbox[v]
  BY <1>1, <1>3, <1>9 DEF Typed
<1>11. /\ inbox' \in [Workers -> Seq(Tasks)]
       /\ inbox'[w] = <<>> /\ \A v \in Workers \ {w} : inbox'[v] = inbox[v]
  BY <1>2, <1>3, <1>6 DEF Typed
<1> HIDE DEF answer
<1>12. Len(outbox'[w]) = 1 /\ Head(outbox'[w]).of = pending[w]
  BY <1>7, <1>8, <1>9, <1>10
<1>13. pending[w] # NoTask
  BY <1>2, <1>3 DEF HeldInv
<1>14. HeldInv(pending, inbox', outbox', life)
  <2> SUFFICES ASSUME NEW v \in Workers
               PROVE  /\ Len(inbox'[v]) + Len(outbox'[v]) <= 1
                      /\ inbox'[v] # <<>> => life[v] # "failing" /\ life[v] # "dead"
                                             /\ Head(inbox'[v]) = pending[v]
                      /\ outbox'[v] # <<>> => pending[v] = NoTask \/ pending[v] = Head(outbox'[v]).of
                      /\ life[v] = "up" /\ pending[v] = NoTask => inbox'[v] = <<>> /\ outbox'[v] = <<>>
    BY DEF HeldInv
  <2>1. CASE v = w
    <3>1. Len(inbox'[w]) = 0
      BY <1>11
    <3> QED
      BY <2>1, <3>1, <1>11, <1>12, <1>13
  <2>2. CASE v # w
    <3>1. inbox'[v] = inbox[v] /\ outbox'[v] = outbox[v]
      BY <2>2, <1>10, <1>11
    <3> QED
      BY <3>1, <1>3 DEF HeldInv
  <2> QED
    BY <2>1, <2>2
<1>15. Free(idle, pending, inbox', outbox')
  <2>1. \A i \in 1..Len(idle) : idle[i] \in Workers /\ idle[i] # w
    BY <1>2, <1>3 DEF Typed, Free
  <2> QED
    BY <1>3, <1>10, <1>11, <2>1 DEF Free
<1>16. Typed(idle, backlog, pending, inbox', outbox', life, status, settledBy)
  BY <1>3, <1>10, <1>11 DEF Typed
<1> QED
  BY <1>2, <1>3, <1>14, <1>15, <1>16 DEF PoolInv, PoolSound

LEMMA FailKeeps ==
  ASSUME PoolInv, NEW w \in Workers, Fail(w)
  PROVE  PoolInv'
<1>1. /\ life[w] = "up" /\ life' = [life EXCEPT ![w] = "failing"]
      /\ inbox' = [inbox EXCEPT ![w] = <<>>]
      /\ UNCHANGED <<idle, backlog, pending, outbox, status, settledBy>>
  BY DEF Fail
<1>2. Typed(idle, backlog, pending, inbox, outbox, life, status, settledBy)
      /\ HeldInv(pending, inbox, outbox, life) /\ Free(idle, pending, inbox, outbox)
      /\ Single(backlog, pending, status, settledBy)
  BY DEF PoolInv, PoolSound
<1>3. /\ inbox' \in [Workers -> Seq(Tasks)]
      /\ inbox'[w] = <<>> /\ \A v \in Workers \ {w} : inbox'[v] = inbox[v]
  BY <1>1, <1>2, EmptySeq DEF Typed
<1>4. /\ life' \in [Workers -> {"up", "failing", "dead", "closed"}]
      /\ life'[w] = "failing" /\ \A v \in Workers \ {w} : life'[v] = life[v]
  BY <1>1, <1>2 DEF Typed
<1>5. Len(inbox'[w]) = 0 /\ Len(inbox[w]) \in Nat /\ Len(outbox[w]) \in Nat
      /\ Len(inbox[w]) + Len(outbox[w]) <= 1
  BY <1>2, <1>3 DEF Typed, HeldInv
<1>6. HeldInv(pending, inbox', outbox, life')
  <2> SUFFICES ASSUME NEW v \in Workers
               PROVE  /\ Len(inbox'[v]) + Len(outbox[v]) <= 1
                      /\ inbox'[v] # <<>> => life'[v] # "failing" /\ life'[v] # "dead"
                                             /\ Head(inbox'[v]) = pending[v]
                      /\ outbox[v] # <<>> => pending[v] = NoTask \/ pending[v] = Head(outbox[v]).of
                      /\ life'[v] = "up" /\ pending[v] = NoTask => inbox'[v] = <<>> /\ outbox[v] = <<>>
    BY DEF HeldInv
  <2>1. CASE v = w
    <3>1. \A m, n \in Nat : m + n <= 1 => 0 + n <= 1
      OBVIOUS
    <3>2. 0 + Len(outbox[w]) <= 1
      BY <1>5, <3>1, Zenon
    <3>3. Len(inbox'[w]) + Len(outbox[w]) <= 1
      BY <1>5, <3>2, Zenon
    <3>4. outbox[w] # <<>> => pending[w] = NoTask \/ pending[w] = Head(outbox[w]).of
      BY <1>2 DEF HeldInv
    <3> QED
      BY <2>1, <3>3, <3>4, <1>3, <1>4
  <2>2. CASE v # w
    BY <2>2, <1>2, <1>3, <1>4 DEF HeldInv
  <2> QED
    BY <2>1, <2>2
<1>7. Free(idle, pending, inbox', outbox)
  <2>1. \A i \in 1..Len(idle) : idle[i] \in Workers
    BY <1>2 DEF Typed
  <2> QED
    BY <1>2, <1>3, <2>1 DEF Free
<1>8. Typed(idle, backlog, pending, inbox', outbox, life', status, settledBy)
  BY <1>2, <1>3, <1>4 DEF Typed
<1> QED
  BY <1>1, <1>2, <1>6, <1>7, <1>8 DEF PoolInv, PoolSound

LEMMA CloseKeeps ==
  ASSUME PoolInv, Close
  PROVE  PoolInv'
<1>1. /\ life' = [w \in Workers |-> "closed"]
      /\ UNCHANGED <<idle, backlog, pending, inbox, outbox, status, settledBy>>
  BY DEF Close
<1>2. Typed(idle, backlog, pending, inbox, outbox, life, status, settledBy)
      /\ HeldInv(pending, inbox, outbox, life) /\ Free(idle, pending, inbox, outbox)
      /\ Single(backlog, pending, status, settledBy)
  BY DEF PoolInv, PoolSound
<1>3. HeldInv(pending, inbox, outbox, life')
  BY <1>1, <1>2 DEF HeldInv
<1>4. Typed(idle, backlog, pending, inbox, outbox, life', status, settledBy)
  BY <1>1, <1>2 DEF Typed
<1> QED
  BY <1>1, <1>2, <1>3, <1>4 DEF PoolInv, PoolSound

LEMMA NextPool == PoolInv /\ [PoolNext]_poolVars => PoolInv'
<1> SUFFICES ASSUME PoolInv, [PoolNext]_poolVars PROVE PoolInv'
  OBVIOUS
<1>1. ASSUME NEW t \in Tasks, Run(t) PROVE PoolInv'
  BY <1>1, RunKeeps
<1>2. ASSUME NEW w \in Workers, Message(w) PROVE PoolInv'
  BY <1>2, MessageKeeps
<1>3. ASSUME NEW w \in Workers, Error(w) PROVE PoolInv'
  BY <1>3, ErrorKeeps
<1>4. ASSUME NEW w \in Workers, Answer(w) PROVE PoolInv'
  BY <1>4, AnswerKeeps
<1>5. ASSUME NEW w \in Workers, Fail(w) PROVE PoolInv'
  BY <1>5, FailKeeps
<1>6. CASE Close
  BY <1>6, CloseKeeps
<1>7. CASE UNCHANGED poolVars
  BY <1>7 DEF poolVars, PoolInv
<1> QED
  BY <1>1, <1>2, <1>3, <1>4, <1>5, <1>6, <1>7 DEF PoolNext

-----------------------------------------------------------------------------
(* The theorems                                                            *)

LEMMA PoolIsSound == PoolSpec => []PoolInv
  BY InitPool, NextPool, PTL DEF PoolSpec

\* The stack, the queue, the pending tasks and the messages keep their types.
THEOREM PoolTypesHold == PoolSpec => []PoolTypeOK
<1>1. PoolInv => PoolTypeOK
  BY DEF PoolInv, PoolSound, Typed, PoolTypeOK
<1> QED
  BY <1>1, PoolIsSound, PTL

\* A task is settled by the answer to its own run or by the failure of its own
\* worker (pending of the slot in onmessage and onerror).
THEOREM OwnAnswerHolds == PoolSpec => []OwnAnswer
<1>1. PoolInv => OwnAnswer
  BY DEF PoolInv, PoolSound, Single, OwnAnswer
<1> QED
  BY <1>1, PoolIsSound, PTL

\* No two tasks share a worker, and a slot that is offered is empty.
THEOREM OneTaskPerWorkerHolds == PoolSpec => []OneTaskPerWorker
<1>1. PoolInv => OneTaskPerWorker
  <2> SUFFICES ASSUME PoolInv, NEW w \in Workers
               PROVE  /\ Len(inbox[w]) + Len(outbox[w]) <= 1
                      /\ life[w] = "up" /\ pending[w] = NoTask => inbox[w] = <<>> /\ outbox[w] = <<>>
                      /\ w \in Range(idle) => pending[w] = NoTask
                      /\ \A v \in Workers : pending[w] = pending[v] /\ pending[w] # NoTask => v = w
    BY DEF OneTaskPerWorker
  <2>1. /\ Len(inbox[w]) + Len(outbox[w]) <= 1
        /\ life[w] = "up" /\ pending[w] = NoTask => inbox[w] = <<>> /\ outbox[w] = <<>>
    BY DEF PoolInv, PoolSound, HeldInv
  <2>2. w \in Range(idle) => pending[w] = NoTask
    <3>1. idle \in Seq(Workers) /\ Free(idle, pending, inbox, outbox)
      BY DEF PoolInv, PoolSound, Typed
    <3>2. \A x \in Range(idle) : \E i \in 1..Len(idle) : x = idle[i]
      BY <3>1 DEF Range
    <3> QED
      BY <3>1, <3>2 DEF Free
  <2>3. \A v \in Workers : pending[w] = pending[v] /\ pending[w] # NoTask => v = w
    BY DEF PoolInv, PoolSound, Single
  <2> QED
    BY <2>1, <2>2, <2>3
<1> QED
  BY <1>1, PoolIsSound, PTL

\* Every task gets the answer of its own run, however slots are handed on.
THEOREM AnswersAreOwnHolds == PoolSpec => []AnswersAreOwn
<1>1. OwnAnswer /\ OneTaskPerWorker => AnswersAreOwn
  BY DEF AnswersAreOwn
<1> QED
  BY <1>1, OwnAnswerHolds, OneTaskPerWorkerHolds, PTL
=============================================================================
