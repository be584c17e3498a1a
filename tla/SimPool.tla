------------------------------ MODULE SimPool ------------------------------
(***************************************************************************)
(* The pool that runs trials in worker threads (createSimPool) and the     *)
(* worker at the other end of each slot (sim-worker.mjs). The main thread  *)
(* keeps a stack of idle slots and a queue of tasks; a slot remembers the  *)
(* task it was given, and whatever message comes back settles it.          *)
(*                                                                         *)
(* A worker answers its messages one after the other: a run awaits only    *)
(* promises of its own, so no second message is begun within it. A worker  *)
(* may fail at any time; its error and the messages it posted before come  *)
(* by different ports, in any order. What a run computes is left out.      *)
(***************************************************************************)
EXTENDS SequencesExt

CONSTANTS Tasks, Workers, NoTask

ASSUME NoTaskAssumption == NoTask \notin Tasks \cup Workers
ASSUME WorkersAssumption == IsFiniteSet(Workers)

VARIABLES
  idle,      \* stack of slots without a task
  backlog,   \* tasks without a slot
  pending,   \* the task of each slot
  inbox,     \* messages to each worker
  outbox,    \* messages from each worker: whose run, and did it succeed
  life,      \* up; failing: the error is on its way; dead; closed
  status,    \* of the promise of each task
  settledBy  \* ghost: the task whose run settled each task

poolVars == <<idle, backlog, pending, inbox, outbox, life, status, settledBy>>

Answers == [of : Tasks, ok : BOOLEAN]
Closed == \E w \in Workers : life[w] = "closed"
-----------------------------------------------------------------------------
PoolInit ==
  /\ idle = SetToSeq(Workers)
  /\ backlog = <<>>
  /\ pending = [w \in Workers |-> NoTask]
  /\ inbox = [w \in Workers |-> <<>>]
  /\ outbox = [w \in Workers |-> <<>>]
  /\ life = [w \in Workers |-> "up"]
  /\ status = [t \in Tasks |-> "new"]
  /\ settledBy = [t \in Tasks |-> NoTask]

\* A bug: the slot stays on the stack.
PumpMutant(slots, tasks, held) ==
  IF slots = <<>> \/ tasks = <<>>
  THEN idle' = slots /\ backlog' = tasks /\ pending' = held /\ UNCHANGED inbox
  ELSE LET w == Last(slots) IN
       /\ idle' = slots
       /\ backlog' = Tail(tasks)
       /\ pending' = [held EXCEPT ![w] = Head(tasks)]
       /\ inbox' = [inbox EXCEPT ![w] = Append(@, Head(tasks))]

\* pump. Each call adds one slot or one task to a pool where one of the two
\* was empty (Drained), so its loop runs once at most. A message to a worker
\* that is gone is lost.
Pump(slots, tasks, held) ==
  IF slots = <<>> \/ tasks = <<>>
  THEN idle' = slots /\ backlog' = tasks /\ pending' = held /\ UNCHANGED inbox
  ELSE LET w == Last(slots) IN
       /\ idle' = Front(slots)
       /\ backlog' = Tail(tasks)
       /\ pending' = [held EXCEPT ![w] = Head(tasks)]
       /\ inbox' = IF life[w] = "up" THEN [inbox EXCEPT ![w] = Append(@, Head(tasks))] ELSE inbox

\* run(task).
Run(t) ==
  /\ ~Closed /\ status[t] = "new"
  /\ status' = [status EXCEPT ![t] = "waiting"]
  /\ Pump(idle, Append(backlog, t), pending)
  /\ UNCHANGED <<outbox, life, settledBy>>

Settle(t, state, of) ==
  IF t = NoTask THEN UNCHANGED <<status, settledBy>>
  ELSE status' = [status EXCEPT ![t] = state] /\ settledBy' = [settledBy EXCEPT ![t] = of]

\* A bug: the slot is freed without waking the queue.
MessageMutant(w) ==
  /\ ~Closed /\ outbox[w] # <<>>
  /\ outbox' = [outbox EXCEPT ![w] = Tail(@)]
  /\ idle' = Append(idle, w)
  /\ pending' = [pending EXCEPT ![w] = NoTask]
  /\ LET a == Head(outbox[w]) IN
     Settle(pending[w], IF a.ok THEN "resolved" ELSE "rejected", a.of)
  /\ UNCHANGED <<backlog, inbox, life>>

\* The slot's task is read before pump gives the slot another.
Message(w) ==
  /\ ~Closed /\ outbox[w] # <<>>
  /\ outbox' = [outbox EXCEPT ![w] = Tail(@)]
  /\ Pump(Append(idle, w), backlog, [pending EXCEPT ![w] = NoTask])
  /\ LET a == Head(outbox[w]) IN
     Settle(pending[w], IF a.ok THEN "resolved" ELSE "rejected", a.of)
  /\ UNCHANGED life

\* The slot is not offered again; if it was on the stack it stays there.
Error(w) ==
  /\ life[w] = "failing"
  /\ life' = [life EXCEPT ![w] = "dead"]
  /\ pending' = [pending EXCEPT ![w] = NoTask]
  /\ Settle(pending[w], "rejected", pending[w])
  /\ UNCHANGED <<idle, backlog, inbox, outbox>>

\* sim-worker: a run that ends, or throws and is answered for.
Answer(w) ==
  /\ life[w] = "up" /\ inbox[w] # <<>>
  /\ inbox' = [inbox EXCEPT ![w] = Tail(@)]
  /\ \E ok \in BOOLEAN :
       outbox' = [outbox EXCEPT ![w] = Append(@, [of |-> Head(inbox[w]), ok |-> ok])]
  /\ UNCHANGED <<idle, backlog, pending, life, status, settledBy>>

\* Out of memory, or a module that does not load.
Fail(w) ==
  /\ life[w] = "up"
  /\ life' = [life EXCEPT ![w] = "failing"]
  /\ inbox' = [inbox EXCEPT ![w] = <<>>]
  /\ UNCHANGED <<idle, backlog, pending, outbox, status, settledBy>>

\* close, once a script has its results or met an error.
Close ==
  /\ ~Closed
  /\ (\A t \in Tasks : status[t] # "waiting") \/ (\E t \in Tasks : status[t] = "rejected")
  /\ life' = [w \in Workers |-> "closed"]
  /\ UNCHANGED <<idle, backlog, pending, inbox, outbox, status, settledBy>>

PoolNext ==
  \/ \E t \in Tasks : Run(t)
  \/ \E w \in Workers : Message(w) \/ Error(w) \/ Answer(w) \/ Fail(w)
  \/ Close

PoolSpec == PoolInit /\ [][PoolNext]_poolVars

\* Runs end and the main thread handles its events; no worker has to fail.
PoolFairness ==
  \A w \in Workers : WF_poolVars(Answer(w)) /\ WF_poolVars(Message(w)) /\ WF_poolVars(Error(w))
FairPoolSpec == PoolSpec /\ PoolFairness
-----------------------------------------------------------------------------
\* The variables keep their types.
PoolTypeOK ==
  /\ idle \in Seq(Workers) /\ backlog \in Seq(Tasks)
  /\ pending \in [Workers -> Tasks \cup {NoTask}]
  /\ inbox \in [Workers -> Seq(Tasks)]
  /\ outbox \in [Workers -> Seq(Answers)]
  /\ life \in [Workers -> {"up", "failing", "dead", "closed"}]
  /\ status \in [Tasks -> {"new", "waiting", "resolved", "rejected"}]
  /\ settledBy \in [Tasks -> Tasks \cup {NoTask}]

(* A task is settled by its own run or its own worker's failure, though    *)
(* answers carry no check of their id and slots are handed on at once.     *)
OwnAnswer == \A t \in Tasks : settledBy[t] \in {NoTask, t}

(* What is inside a worker is the one task its slot remembers, and an idle *)
(* slot has none: no two runs share a thread, its Math.random with it.     *)
OneTaskPerWorker ==
  \A w \in Workers :
    /\ Len(inbox[w]) + Len(outbox[w]) <= 1
    /\ life[w] = "up" /\ pending[w] = NoTask => inbox[w] = <<>> /\ outbox[w] = <<>>
    /\ w \in Range(idle) => pending[w] = NoTask
    /\ \A v \in Workers : pending[w] = pending[v] /\ pending[w] # NoTask => v = w

(* The pool hands every task its own answer.                               *)
AnswersAreOwn == OwnAnswer /\ OneTaskPerWorker

(* No task waits while a slot is idle: whoever frees a slot or adds a task *)
(* wakes the other.                                                        *)
Drained == idle = <<>> \/ backlog = <<>>

(* Every task is settled, as long as no worker fails and the script does   *)
(* not close the pool; after a failure a task may wait for ever.           *)
EveryTaskSettles ==
  \A t \in Tasks :
    status[t] = "waiting"
      ~> (status[t] \in {"resolved", "rejected"} \/ \E w \in Workers : life[w] # "up")
=============================================================================
