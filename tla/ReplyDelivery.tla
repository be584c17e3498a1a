--------------------------- MODULE ReplyDelivery ---------------------------
(***************************************************************************)
(* How the bot answers: the OneBot webhook acknowledges an event at once   *)
(* and handles it in the background, so many deliveries are under way at   *)
(* a time. Every message to a group first takes one from the group's daily *)
(* quota, a counter in memory with a copy on disk (createGroupDailyQuota-  *)
(* Store); private messages are free.                                      *)
(*                                                                         *)
(* The process has one thread: what runs between two awaits is one action. *)
(* A kill within it leaves what a kill right after it leaves: a place that *)
(* was counted, on disk or in memory only, and a message that is gone.     *)
(* Left out: texts, file uploads (which only add a line to the text),      *)
(* authentication. The clock of the host never goes back.                  *)
(***************************************************************************)
EXTENDS Naturals, Sequences

CONSTANTS
  Groups, Private,
  Deliveries,     \* events that reach the webhook; the poller's notices go the same way
  Room,           \* the chat of each: a group, or Private
  Replies,        \* what the handler answers to each
  Limit,          \* messages of a day to a group; 0 is no limit
  MaxDay          \* bounds the days

ASSUME LimitAssumption == Limit \in Nat /\ MaxDay \in Nat
ASSUME RepliesAssumption ==
  /\ Private \notin Groups
  /\ Room \in [Deliveries -> Groups \cup {Private}]
  /\ Replies \in [Deliveries -> Seq([pieces : Nat, followups : Nat])]

VARIABLES
  today,      \* shanghaiDayKey(now())
  up,         \* the process runs
  mem,        \* the store's state: day and count of each group
  file,       \* its copy on disk
  pc,         \* where each delivery stands
  pos,        \* the reply and the message it is at
  spent,      \* ghost: messages set on their way to each group today, arrived or not
  forgot      \* ghost: a count of today was lost in a crash

vars == <<today, up, mem, file, pc, pos, spent, forgot>>

Zero == [g \in Groups |-> 0]
Store == [day : 0 .. MaxDay, used : [Groups -> Nat]]
Start == [reply |-> 1, part |-> 1]
Settled == {"done", "failed", "lost"}

Reply(d) == Replies[d][pos[d].reply]
RepliesLeft(d) == pos[d].reply <= Len(Replies[d])
PieceNext(d) == RepliesLeft(d) /\ pos[d].part <= Reply(d).pieces
FollowupNext(d) ==
  RepliesLeft(d) /\ ~PieceNext(d) /\ pos[d].part <= Reply(d).pieces + Reply(d).followups
ReplyOver(d) == RepliesLeft(d) /\ ~PieceNext(d) /\ ~FollowupNext(d)
-----------------------------------------------------------------------------
(* The quota store.                                                        *)

\* A bug: the counts of the day before stay.
RolledMutant(store) == [store EXCEPT !.day = today]

\* rollDay.
Rolled(store) == IF store.day = today THEN store ELSE [day |-> today, used |-> Zero]

Used(store, g) == IF store.day = today THEN store.used[g] ELSE 0

HasRoom(g) == Limit = 0 \/ Rolled(mem).used[g] < Limit

Consumed(g) == IF Limit = 0 THEN Rolled(mem) ELSE [Rolled(mem) EXCEPT !.used[g] = @ + 1]

\* persist writes a temporary file and renames it, after the roll and again
\* after the count; a write that fails is only logged.
Persist(g) == file' \in {file, Rolled(mem), Consumed(g)}

ReplyInit ==
  /\ today = 0
  /\ up = TRUE
  /\ mem = [day |-> 0, used |-> Zero]
  /\ file = mem
  /\ pc = [d \in Deliveries |-> "idle"]
  /\ pos = [d \in Deliveries |-> Start]
  /\ spent = Zero
  /\ forgot = FALSE

Goes(d, from, to) == up /\ pc[d] = from /\ pc' = [pc EXCEPT ![d] = to]

\* The webhook answers 204 and queues the handling.
Event(d) ==
  /\ Goes(d, "idle", "handling")
  /\ UNCHANGED <<today, up, mem, file, pos, spent, forgot>>

HandlerAnswers(d) ==
  /\ Goes(d, "handling", "ready")
  /\ UNCHANGED <<today, up, mem, file, pos, spent, forgot>>

HandlerThrows(d) ==
  /\ Goes(d, "handling", "failed")
  /\ UNCHANGED <<today, up, mem, file, pos, spent, forgot>>

\* sendChunked, one piece to a group: consume, then send.
SendGroup(d) ==
  /\ PieceNext(d) /\ Room[d] \in Groups /\ HasRoom(Room[d])
  /\ Goes(d, "ready", "sending")
  /\ mem' = Consumed(Room[d])
  /\ Persist(Room[d])
  /\ spent' = [spent EXCEPT ![Room[d]] = @ + 1]
  /\ UNCHANGED <<today, up, pos, forgot>>

\* No quota is left: the rest of the pieces is dropped, followups are not.
\* The look at the quota may roll the day.
SkipGroup(d) ==
  /\ PieceNext(d) /\ Room[d] \in Groups /\ ~HasRoom(Room[d])
  /\ up /\ pc[d] = "ready"
  /\ mem' = Rolled(mem)
  /\ file' \in {file, Rolled(mem)}
  /\ pos' = [pos EXCEPT ![d].part = Reply(d).pieces + 1]
  /\ UNCHANGED <<today, up, pc, spent, forgot>>

\* A piece to a private chat, or a private followup.
SendPrivate(d) ==
  /\ FollowupNext(d) \/ (PieceNext(d) /\ Room[d] = Private)
  /\ Goes(d, "ready", "sending")
  /\ UNCHANGED <<today, up, mem, file, pos, spent, forgot>>

SendOk(d) ==
  /\ Goes(d, "sending", "ready")
  /\ pos' = [pos EXCEPT ![d].part = @ + 1]
  /\ UNCHANGED <<today, up, mem, file, spent, forgot>>

\* A bug: a message that failed is tried again, and again.
SendFailsMutant(d) ==
  /\ up /\ pc[d] = "sending"
  /\ UNCHANGED vars

\* An error, or no answer for ten seconds: whatever was left is dropped.
SendFails(d) ==
  /\ Goes(d, "sending", "failed")
  /\ UNCHANGED <<today, up, mem, file, pos, spent, forgot>>

NextReply(d) ==
  /\ up /\ pc[d] = "ready" /\ ReplyOver(d)
  /\ pos' = [pos EXCEPT ![d] = [reply |-> @.reply + 1, part |-> 1]]
  /\ UNCHANGED <<today, up, mem, file, pc, spent, forgot>>

Finish(d) ==
  /\ ~RepliesLeft(d)
  /\ Goes(d, "ready", "done")
  /\ UNCHANGED <<today, up, mem, file, pos, spent, forgot>>

NextDay ==
  /\ today < MaxDay
  /\ today' = today + 1
  /\ spent' = Zero
  /\ forgot' = FALSE
  /\ UNCHANGED <<up, mem, file, pc, pos>>

\* The process ends, and with it what was acknowledged and not yet sent.
Crash ==
  /\ up
  /\ up' = FALSE
  /\ pc' = [d \in Deliveries |-> IF pc[d] \in Settled \cup {"idle"} THEN pc[d] ELSE "lost"]
  /\ forgot' = (forgot \/ \E g \in Groups : Used(file, g) # Used(mem, g))
  /\ UNCHANGED <<today, mem, file, pos, spent>>

\* createGroupDailyQuotaStore reads the copy.
Restart ==
  /\ ~up
  /\ up' = TRUE
  /\ mem' = file
  /\ UNCHANGED <<today, file, pc, pos, spent, forgot>>

Step(d) ==
  \/ HandlerAnswers(d)
  \/ SendGroup(d) \/ SkipGroup(d) \/ SendPrivate(d)
  \/ NextReply(d) \/ Finish(d)

ReplyNext ==
  \/ \E d \in Deliveries : Event(d) \/ Step(d) \/ SendOk(d) \/ SendFails(d) \/ HandlerThrows(d)
  \/ NextDay \/ Crash \/ Restart

ReplySpec == ReplyInit /\ [][ReplyNext]_vars

(* The thread runs what is ready, handlers answer or throw, and a message  *)
(* without an answer is aborted after its timeout. Nothing makes the host  *)
(* restart the bot or OneBot answer.                                       *)
FairReplySpec ==
  /\ ReplySpec
  /\ \A d \in Deliveries : WF_vars(Step(d)) /\ WF_vars(SendFails(d))
-----------------------------------------------------------------------------
\* The variables keep their types.
ReplyTypeOK ==
  /\ today \in 0 .. MaxDay
  /\ up \in BOOLEAN
  /\ mem \in Store /\ file \in Store
  /\ pc \in [Deliveries -> {"idle", "handling", "ready", "sending"} \cup Settled]
  /\ pos \in [Deliveries -> [reply : Nat \ {0}, part : Nat \ {0}]]
  /\ spent \in [Groups -> Nat]
  /\ forgot \in BOOLEAN

(* No group gets more messages in a day than its quota, however many       *)
(* deliveries run at once and however often the bot restarts, unless a     *)
(* crash followed a write that failed.                                     *)
WithinQuota == Limit > 0 /\ ~forgot => \A g \in Groups : spent[g] <= Limit

(* A count lost in a crash is lost: no count, in memory or on disk, is     *)
(* ever ahead of the messages set on their way, nor of a day to come.      *)
NeverAhead ==
  /\ mem.day <= today /\ file.day <= today
  /\ \A g \in Groups : Used(mem, g) <= spent[g] /\ Used(file, g) <= spent[g]

(* The counter agrees with the messages set on their way today: across     *)
(* days, restarts and deliveries that overlap, neither is ahead of the     *)
(* other. A message that OneBot refused, or that was killed with the       *)
(* process before it left, counts as well.                                 *)
CountIsTrue ==
  Limit > 0 /\ ~forgot =>
    \A g \in Groups : spent[g] = Used(IF up THEN mem ELSE file, g)

(* The quota is kept and kept account of.                                  *)
QuotaIsExact == WithinQuota /\ CountIsTrue

(* A piece is dropped only when its group really got its quota today: the  *)
(* counts of the day before are not held against it.                       *)
DropsAreDue == \A d \in Deliveries : SkipGroup(d) => spent[Room[d]] >= Limit
RefusedOnlyWhenSpent == [][DropsAreDue]_vars

(* The quota is kept, and used to the full: every step leaves it exact and *)
(* drops nothing before its time.                                          *)
QuotaIsKept == [][QuotaIsExact' /\ DropsAreDue]_vars

(* Every event that was acknowledged is answered, fails or is lost in a    *)
(* crash; none waits for ever for an answer of OneBot.                     *)
EveryEventSettles ==
  \A d \in Deliveries : pc[d] # "idle" ~> pc[d] \in Settled
=============================================================================
