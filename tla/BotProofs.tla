----------------------------- MODULE BotProofs -----------------------------
(***************************************************************************)
(* What the bot's commands say is so, they keep the authority of those     *)
(* they are about, and the quota of the answers is kept: for any messages, *)
(* users, names and members, and any limit, deliveries and groups.         *)
(***************************************************************************)
EXTENDS BotCommands, ReplyDelivery, SequenceTheorems, FiniteSetTheorems, TLAPS

-----------------------------------------------------------------------------
(* The commands: what may be in the variables                              *)

Spoken == UNION {Says[m] : m \in Messages}
Commands == {Command} \cup {parseCommand(t) : t \in Spoken}
Places == {"idle", "parsed", "owned", "found", "reading", "pruning", "answered"}
Verdicts == Quiet \cup {"pending", "done", "unavailable", "report"}

\* What a report may list.
ListSets ==
    {NoLists}
    \cup [uploaded : SUBSET Names, unbound : SUBSET Names]
    \cup [fit : SUBSET Names, weak : SUBSET Names, unbound : SUBSET Names]
    \cup [unbound : SUBSET Names, missing : SUBSET Names, weak : SUBSET Names]
    \cup [unavailable : SUBSET Names, removed : SUBSET Names]
    \cup [alerts : SUBSET Names]
    \cup [missing : SUBSET Names, strangers : SUBSET Names]
    \cup [expired : SUBSET Names]

Jobs ==
    [pc : Places, admin : BOOLEAN, grouped : BOOLEAN, command : Commands,
     target : Names \cup {"none"}, members : SUBSET Names, bindings : [Names -> Rows],
     unread : SUBSET {"members", "bindings"}, stale : Seq(Names), removed : SUBSET Names,
     owned : SUBSET Names, says : Verdicts, lists : ListSets]

BotTypeOK ==
    /\ text \in [Messages -> Spoken]
    /\ active \in SUBSET Names /\ bound \in [Names -> Rows]
    /\ aura \in [Names -> [AuraTypes -> Levels \cup {"none"}]]
    /\ job \in [Messages -> Jobs]
    /\ did \in [Messages -> Seq(Names)]
    /\ steady \in [Messages -> SUBSET Names]

-----------------------------------------------------------------------------
(* What is true of one command: of its job, of what it did and of who was  *)
(* bound ever since it came.                                               *)

Shown(j, l) == IF l \in DOMAIN j.lists THEN j.lists[l] ELSE {}
Done(d) == {d[i] : i \in DOMAIN d}
Writing(j) == j.command.kind \in {"bind-combat", "rebind-combat", "unbind-combat", "set-aura"}

\* RepliesAreTrue, of one command.
Honest(j, d, s) ==
    /\ j.says \in Quiet => d = <<>>
    /\ j.says = "done" => d = <<j.target>>
    /\ Writing(j) => Len(d) <= 1
    /\ Shown(j, "removed") \subseteq Done(d)
    /\ Shown(j, "removed") \cap s = {}
    /\ Shown(j, "unbound") \cap s = {}

\* Nothing is done or said before its time, and what was read was true of those
\* who stayed bound.
Faithful(j, d, s) ==
    /\ j.pc \notin {"pruning", "answered"} => d = <<>> /\ j.removed = {}
    /\ j.pc # "answered" => j.says = "pending" /\ j.lists = NoLists
    /\ j.pc \in {"owned", "found"} => Writing(j)
    /\ j.pc = "reading" =>
         /\ j.command.kind \in Reports
         /\ "members" \in j.unread \/ s \subseteq j.members
         /\ "bindings" \in j.unread \/ j.command.kind \notin ReadsBindings
              \/ s \subseteq HasBinding(j.bindings)
    /\ j.pc = "pruning" =>
         /\ j.command.kind \in Prunes
         /\ j.removed \subseteq Done(d)
         /\ j.removed \cap s = {} /\ \A i \in DOMAIN j.stale : j.stale[i] \notin s

\* Who may do what it is about to do.
Entitled(m, j) ==
    /\ j.pc \in {"owned", "found", "reading", "pruning"} =>
         (j.command.kind \in AdminCommands => j.admin)
    /\ j.pc = "owned" => j.command.kind = "set-aura" /\ j.target \in j.owned
    /\ j.pc = "found" =>
         /\ j.target \in Names
         /\ j.command.kind = "bind-combat" /\ j.command.qq \notin {"none", Sender[m]} => j.admin
         /\ j.command.kind = "set-aura" =>
              j.admin \/ \E o \in j.owned : Fold[o] = Fold[j.target]

BotInv ==
    /\ BotTypeOK
    /\ \A m \in Messages :
         /\ Honest(job[m], did[m], steady[m])
         /\ Faithful(job[m], did[m], steady[m])
         /\ Entitled(m, job[m])
         /\ steady[m] \subseteq Bound(active, bound)

\* What commands say of rows is a row.
LEMMA ParseFacts ==
    ASSUME NEW c \in Commands
    PROVE  /\ c.kind \in {"bind-combat", "rebind-combat"} =>
                c.qq \in Users \cup {"none"} /\ c.type \in CombatTypes
           /\ c.kind = "set-aura" => c.type \in AuraTypes /\ c.level \in Levels
<1>1. CASE c = Command
  BY <1>1 DEF Command
<1>2. ASSUME NEW t \in Spoken, c = parseCommand(t)
      PROVE  /\ c.kind \in {"bind-combat", "rebind-combat"} =>
                  c.qq \in Users \cup {"none"} /\ c.type \in CombatTypes
             /\ c.kind = "set-aura" => c.type \in AuraTypes /\ c.level \in Levels
  <2>1. CASE c = Command \/ c = Usage
    BY <2>1 DEF Command, Usage
  <2>2. CASE c = [Command EXCEPT !.kind = t[1]] /\ t[1] \in SimpleCommands
    BY <2>2 DEF Command, SimpleCommands, Reports, Texts, Elsewhere
  <2>3. CASE c = ParseBind(t)
    BY <2>3 DEF ParseBind, Command, Usage
  <2>4. CASE c = ParseRebind(t)
    BY <2>4 DEF ParseRebind, Command, Usage
  <2>5. CASE c = ParseUnbind(t)
    BY <2>5 DEF ParseUnbind, Command, Usage
  <2>6. CASE c = ParseAura(t)
    BY <2>6 DEF ParseAura, Command, Usage
  <2> QED
    BY <1>2, <2>1, <2>2, <2>3, <2>4, <2>5, <2>6 DEF parseCommand
<1> QED
  BY <1>1, <1>2 DEF Commands

\* A report lists names, and calls unbound who had no binding, removed whom it removed.
LEMMA ReportFacts ==
    ASSUME NEW m \in Messages, job[m] \in Jobs, job[m].command.kind \in Reports
    PROVE  /\ ReportOf(m) \in ListSets
           /\ (IF "removed" \in DOMAIN ReportOf(m) THEN ReportOf(m)["removed"] ELSE {})
                \subseteq job[m].removed
           /\ (IF "unbound" \in DOMAIN ReportOf(m) THEN ReportOf(m)["unbound"] ELSE {})
                \subseteq job[m].members \ HasBinding(job[m].bindings)
           /\ job[m].command.kind \in Prunes \/ job[m].command.kind \notin ReadsBindings =>
                "unbound" \notin DOMAIN ReportOf(m)
           /\ job[m].command.kind \notin Prunes => "removed" \notin DOMAIN ReportOf(m)
<1> DEFINE j == job[m]
<1>1. j.members \in SUBSET Names /\ j.removed \in SUBSET Names
  BY DEF Jobs
<1>2. CASE j.command.kind = "guild-roster"
  BY <1>1, <1>2 DEF ReportOf, ListSets, Prunes, ReadsBindings, Reports
<1>3. CASE j.command.kind = "profession-distribution"
  <2>1. ReportOf(m) = formatProfessionDistribution(j.members, j.bindings)
    BY <1>3 DEF ReportOf
  <2>2. Bound(j.members, j.bindings) \subseteq Names
    BY <1>1 DEF Bound
  <2> QED
    BY <1>1, <1>3, <2>1, <2>2 DEF formatProfessionDistribution, ListSets, Prunes, ReadsBindings, Reports
<1>4. CASE j.command.kind = "optimization-audit"
  <2>1. ReportOf(m) = formatOptimizationAudit(j.members, j.bindings)
    BY <1>4 DEF ReportOf
  <2>2. Bound(j.members, j.bindings) \subseteq Names
    BY <1>1 DEF Bound
  <2> QED
    BY <1>1, <1>4, <2>1, <2>2 DEF formatOptimizationAudit, ListSets, Prunes, ReadsBindings, Reports
<1>5. CASE j.command.kind = "unavailable-roster"
  <2>1. ReportOf(m) = [unavailable |-> formatUnavailableRoster(j.members, j.bindings),
                       removed |-> j.removed]
    BY <1>5 DEF ReportOf
  <2>2. formatUnavailableRoster(j.members, j.bindings) \subseteq Names
    BY <1>1 DEF formatUnavailableRoster, Bound, DroppedShields
  <2> QED
    BY <1>1, <1>5, <2>1, <2>2 DEF ListSets, Prunes, ReadsBindings, Reports
<1>6. CASE j.command.kind = "equipment-check"
  <2>1. ReportOf(m) = [alerts |-> formatWeaponEnhancementCheck(j.members, j.bindings)]
    BY <1>6 DEF ReportOf
  <2>2. formatWeaponEnhancementCheck(j.members, j.bindings) \subseteq Names
    BY <1>1 DEF formatWeaponEnhancementCheck, Bound
  <2> QED
    BY <1>6, <2>1, <2>2 DEF ListSets, Prunes, ReadsBindings, Reports
<1>7. CASE j.command.kind = "missing-uploads"
  <2>1. ReportOf(m) = formatMissingUploads(j.members, j.grouped)
    BY <1>7 DEF ReportOf
  <2> QED
    BY <1>1, <1>7, <2>1 DEF formatMissingUploads, ListSets, Prunes, ReadsBindings, Reports
<1>8. CASE j.command.kind = "expired-uploads"
  <2>1. ReportOf(m) = [expired |-> {n \in j.members : Old(n)}]
    BY <1>8 DEF ReportOf
  <2> QED
    BY <1>1, <1>8, <2>1 DEF ListSets, Prunes, ReadsBindings, Reports
<1> QED
  BY <1>2, <1>3, <1>4, <1>5, <1>6, <1>7, <1>8 DEF Reports

-----------------------------------------------------------------------------
(* One step of a handler                                                   *)

\* Who was bound all along may only become fewer.
LEMMA FewerBound ==
    ASSUME NEW j, NEW d, NEW s, NEW r \in SUBSET s, Honest(j, d, s), Faithful(j, d, s)
    PROVE  Honest(j, d, r) /\ Faithful(j, d, r)
<1>1. Honest(j, d, r)
  BY DEF Honest
<1>2. Faithful(j, d, r)
  BY DEF Faithful
<1> QED
  BY <1>1, <1>2

\* The command that moves is what it should be, and the rows are rows: so are all.
LEMMA MovedInv ==
    ASSUME BotInv, Follow, NEW m \in Messages, NEW j \in Jobs, NEW d \in Seq(Names),
           job' = [job EXCEPT ![m] = j], did' = [did EXCEPT ![m] = d], text' = text,
           active' \in SUBSET Names, bound' \in [Names -> Rows],
           aura' \in [Names -> [AuraTypes -> Levels \cup {"none"}]],
           j.pc # "idle", Entitled(m, j),
           job[m].pc = "idle" => active' = active /\ bound' = bound,
           \A s \in SUBSET Names :
               job[m].pc = "idle" \/ s \subseteq steady[m] => Honest(j, d, s) /\ Faithful(j, d, s)
    PROVE  BotInv'
<1>1. /\ job \in [Messages -> Jobs] /\ did \in [Messages -> Seq(Names)]
      /\ steady \in [Messages -> SUBSET Names] /\ active \in SUBSET Names
      /\ text \in [Messages -> Spoken]
  BY DEF BotInv, BotTypeOK
<1>2. job'[m] = j /\ did'[m] = d
  BY <1>1
<1>3. ASSUME NEW k \in Messages, k # m
      PROVE  job'[k] = job[k] /\ did'[k] = did[k]
  BY <1>1, <1>3
<1>4. ASSUME NEW k \in Messages
      PROVE  /\ steady'[k] \in SUBSET Names
             /\ job[k].pc # "idle" => steady'[k] \subseteq steady[k]
             /\ k # m => steady'[k] \subseteq steady[k]
             /\ steady'[k] \subseteq Bound(active', bound')
  <2>1. steady'[k] = IF job[k].pc # "idle" THEN steady[k] \cap Bound(active', bound')
                     ELSE IF job'[k].pc = "idle" THEN {} ELSE Bound(active, bound)
    BY DEF Follow, At
  <2>2. Bound(active, bound) \subseteq Names
    BY <1>1 DEF Bound
  <2>3. CASE job[k].pc # "idle"
    BY <1>1, <2>1, <2>3
  <2>4. CASE job[k].pc = "idle" /\ k = m
    BY <1>2, <2>1, <2>2, <2>4
  <2>5. CASE job[k].pc = "idle" /\ k # m
    BY <1>3, <2>1, <2>5
  <2> QED
    BY <2>3, <2>4, <2>5
<1>5. BotTypeOK'
  <2>1. job' \in [Messages -> Jobs] /\ did' \in [Messages -> Seq(Names)]
    BY <1>1
  <2>2. steady' \in [Messages -> SUBSET Names]
    BY <1>4 DEF Follow
  <2> QED
    BY <1>1, <2>1, <2>2 DEF BotTypeOK
<1>6. ASSUME NEW k \in Messages
      PROVE  /\ Honest(job'[k], did'[k], steady'[k])
             /\ Faithful(job'[k], did'[k], steady'[k])
             /\ Entitled(k, job'[k])
  <2>1. CASE k = m
    BY <1>2, <1>4, <2>1
  <2>2. CASE k # m
    <3>1. Honest(job[k], did[k], steady[k]) /\ Faithful(job[k], did[k], steady[k])
          /\ Entitled(k, job[k])
      BY DEF BotInv
    <3>2. steady'[k] \in SUBSET steady[k]
      BY <1>4, <2>2
    <3>3. Honest(job[k], did[k], steady'[k]) /\ Faithful(job[k], did[k], steady'[k])
      BY <3>1, <3>2, FewerBound
    <3> QED
      BY <1>3, <2>2, <3>1, <3>3
  <2> QED
    BY <2>1, <2>2
<1> QED
  BY <1>4, <1>5, <1>6 DEF BotInv

\* So too when the command only moves on.
LEMMA JobInv ==
    ASSUME BotInv, Follow, NEW m \in Messages, NEW j \in Jobs, Moves(m, j), OnlyTheJob,
           j.pc # "idle", Entitled(m, j),
           \A s \in SUBSET Names : job[m].pc = "idle" \/ s \subseteq steady[m] =>
               Honest(j, did[m], s) /\ Faithful(j, did[m], s)
    PROVE  BotInv'
<1> DEFINE d == did[m]
<1>1. d \in Seq(Names) /\ did \in [Messages -> Seq(Names)]
  BY DEF BotInv, BotTypeOK
<1>2. did' = [did EXCEPT ![m] = d] /\ job' = [job EXCEPT ![m] = j]
  BY <1>1 DEF OnlyTheJob, Moves
<1>3. /\ active' \in SUBSET Names /\ bound' \in [Names -> Rows] /\ text' = text
      /\ aura' \in [Names -> [AuraTypes -> Levels \cup {"none"}]]
      /\ active' = active /\ bound' = bound
  BY DEF OnlyTheJob, BotInv, BotTypeOK
<1> HIDE DEF d
<1>4. \A s \in SUBSET Names : job[m].pc = "idle" \/ s \subseteq steady[m] =>
         Honest(j, d, s) /\ Faithful(j, d, s)
  BY DEF d
<1> QED
  BY <1>1, <1>2, <1>3, <1>4, MovedInv

\* An answer before anything was done is true, if it does not claim a deed.
LEMMA EarlyAnswer ==
    ASSUME BotInv, NEW m \in Messages, NEW says \in Quiet \cup {"unavailable"},
           job[m].pc \notin {"idle", "pruning", "answered"},
           Answers(m, says), OnlyTheJob, Follow
    PROVE  BotInv'
<1> DEFINE j == [job[m] EXCEPT !.pc = "answered", !.says = says]
<1>1. /\ job[m] \in Jobs /\ Honest(job[m], did[m], steady[m])
      /\ Faithful(job[m], did[m], steady[m])
  BY DEF BotInv, BotTypeOK
<1>2. /\ j \in Jobs /\ j.pc = "answered" /\ j.says = says /\ j.lists = job[m].lists
      /\ j.command = job[m].command
  BY <1>1 DEF Jobs, Verdicts, Places
<1>3. did[m] = <<>> /\ job[m].lists = NoLists
  BY <1>1 DEF Faithful
<1>4. Moves(m, j)
  BY DEF Answers
<1> HIDE DEF j
<1>5. Entitled(m, j) /\ j.pc # "idle"
  BY <1>2 DEF Entitled
<1>6. ASSUME NEW s PROVE Honest(j, did[m], s) /\ Faithful(j, did[m], s)
  <2>1. Shown(j, "removed") = {} /\ Shown(j, "unbound") = {}
    BY <1>2, <1>3 DEF Shown, NoLists
  <2>2. j.says # "done"
    BY <1>2 DEF Quiet
  <2>3. Len(did[m]) <= 1
    BY <1>3
  <2>4. Honest(j, did[m], s)
    BY <1>3, <2>1, <2>2, <2>3 DEF Honest
  <2> QED
    BY <1>2, <2>4 DEF Faithful
<1> QED
  BY <1>2, <1>4, <1>5, <1>6, JobInv

LEMMA ReceiveInv ==
    ASSUME BotInv, Follow, NEW m \in Messages, Receive(m)
    PROVE  BotInv'
<1>1. PICK admin \in BOOLEAN, grouped \in BOOLEAN :
        Moves(m, [job[m] EXCEPT !.pc = "parsed", !.admin = admin, !.grouped = grouped,
                                !.command = parseCommand(text[m])])
  BY DEF Receive
<1> DEFINE j == [job[m] EXCEPT !.pc = "parsed", !.admin = admin, !.grouped = grouped,
                               !.command = parseCommand(text[m])]
<1>2. /\ job[m] \in Jobs /\ Honest(job[m], did[m], steady[m])
      /\ Faithful(job[m], did[m], steady[m])
      /\ parseCommand(text[m]) \in Commands
  BY DEF BotInv, BotTypeOK, Commands
<1>3. /\ j \in Jobs /\ j.pc = "parsed" /\ j.says = job[m].says /\ j.lists = job[m].lists
      /\ j.removed = job[m].removed
  BY <1>2 DEF Jobs, Places
<1>4. Moves(m, j) /\ OnlyTheJob /\ job[m].pc = "idle"
  BY <1>1 DEF Receive, At
<1> HIDE DEF j
<1>5. did[m] = <<>> /\ j.says = "pending" /\ j.lists = NoLists /\ j.removed = {}
  BY <1>2, <1>3, <1>4 DEF Faithful
<1>6. Entitled(m, j)
  BY <1>3 DEF Entitled
<1>7. ASSUME NEW s PROVE Honest(j, did[m], s) /\ Faithful(j, did[m], s)
  <2>1. Shown(j, "removed") = {} /\ Shown(j, "unbound") = {}
    BY <1>5 DEF Shown, NoLists
  <2>2. j.says # "done" /\ Len(did[m]) <= 1
    BY <1>5
  <2>3. Honest(j, did[m], s)
    BY <1>5, <2>1, <2>2 DEF Honest
  <2> QED
    BY <1>3, <1>5, <2>3 DEF Faithful
<1> QED
  BY <1>3, <1>4, <1>6, <1>7, JobInv

\* A command that has done nothing goes on, its answer still to come.
LEMMA GoesOn ==
    ASSUME BotInv, Follow, NEW m \in Messages, NEW j \in Jobs, Moves(m, j), OnlyTheJob,
           job[m].pc \notin {"idle", "pruning", "answered"}, j.pc \notin {"idle", "answered"},
           Entitled(m, j),
           j.says = job[m].says, j.lists = job[m].lists, j.removed = job[m].removed,
           j.pc \in {"owned", "found"} => Writing(j),
           \A s \in SUBSET steady[m] : Faithful(j, did[m], s)
    PROVE  BotInv'
<1>1. did[m] = <<>> /\ j.says = "pending" /\ j.lists = NoLists
  BY DEF BotInv, Faithful
<1>2. \A s : Honest(j, did[m], s)
  <2>1. Shown(j, "removed") = {} /\ Shown(j, "unbound") = {}
    BY <1>1 DEF Shown, NoLists
  <2>2. j.says # "done" /\ j.says \notin Quiet /\ Len(did[m]) <= 1
    BY <1>1 DEF Quiet
  <2> QED
    BY <2>1, <2>2 DEF Honest
<1> QED
  BY <1>2, JobInv

LEMMA AnswerAtOnceInv ==
    ASSUME BotInv, Follow, NEW m \in Messages, AnswerAtOnce(m) \/ StartOfficial(m)
    PROVE  BotInv'
<1>1. job[m].pc = "parsed" /\ OnlyTheJob
  BY DEF AnswerAtOnce, StartOfficial, At, Fails
<1>2. PICK says \in Quiet \cup {"unavailable"} : Answers(m, says)
  BY DEF AnswerAtOnce, StartOfficial, Fails, Quiet
<1> QED
  BY <1>1, <1>2, EarlyAnswer

LEMMA LookUpOwnInv ==
    ASSUME BotInv, Follow, NEW m \in Messages, LookUpOwn(m)
    PROVE  BotInv'
<1> DEFINE own == OwnedBy(Sender[m])
           named == job[m].command.name # "none"
           target == IF named THEN job[m].command.name ELSE CHOOSE n \in own : TRUE
           j == [job[m] EXCEPT !.pc = "owned", !.owned = own, !.target = target]
<1>1. /\ job[m].pc = "parsed" /\ OnlyTheJob /\ job[m].command.kind = "set-aura"
      /\ \/ \E says \in Quiet \cup {"unavailable"} : Answers(m, says)
         \/ /\ IF named THEN job[m].command.name \in own ELSE Cardinality(own) = 1
            /\ Moves(m, j)
  BY DEF LookUpOwn, At, OwnFirst, KindOf, Quiet
<1>2. job[m] \in Jobs /\ own \in SUBSET Names /\ Faithful(job[m], did[m], steady[m])
  BY DEF BotInv, BotTypeOK, OwnedBy
<1>3. CASE \E says \in Quiet \cup {"unavailable"} : Answers(m, says)
  <2>1. PICK says \in Quiet \cup {"unavailable"} : Answers(m, says)
    BY <1>3
  <2> QED
    BY <1>1, <2>1, EarlyAnswer
<1> HIDE DEF own
<1>4. CASE /\ IF named THEN job[m].command.name \in own ELSE Cardinality(own) = 1
           /\ Moves(m, j)
  <2>1. target \in own
    <3>1. CASE named
      BY <1>4, <3>1
    <3>2. CASE ~named
      <4>1. own # {}
        BY <1>4, <3>2, FS_EmptySet
      <4> QED
        BY <3>2, <4>1
    <3> QED
      BY <3>1, <3>2
  <2> HIDE DEF target
  <2>2. /\ j \in Jobs /\ j.pc = "owned" /\ j.owned = own /\ j.target = target
        /\ j.says = job[m].says /\ j.lists = job[m].lists /\ j.removed = job[m].removed
        /\ j.command = job[m].command
    BY <1>2, <2>1 DEF Jobs, Places
  <2>3. Moves(m, j)
    BY <1>4
  <2> HIDE DEF j
  <2>4. Entitled(m, j)
    BY <1>1, <2>1, <2>2 DEF Entitled, AdminCommands
  <2>5. Writing(j)
    BY <1>1, <2>2 DEF Writing
  <2>6. \A s \in SUBSET steady[m] : Faithful(j, did[m], s)
    BY <1>1, <1>2, <2>2, <2>5 DEF Faithful
  <2> QED
    BY <1>1, <2>2, <2>3, <2>4, <2>5, <2>6, GoesOn
<1> QED
  BY <1>1, <1>3, <1>4

LEMMA FindMemberInv ==
    ASSUME BotInv, Follow, NEW m \in Messages, FindMember(m)
    PROVE  BotInv'
<1> DEFINE name == IF At(m, "owned") THEN job[m].target ELSE job[m].command.name
<1>1. /\ OnlyTheJob
      /\ \/ job[m].pc = "owned"
         \/ job[m].pc = "parsed" /\ Writes(m) /\ Allowed(m) /\ OwnNumber(m) /\ ~OwnFirst(m)
      /\ \/ \E says \in Quiet \cup {"unavailable"} : Answers(m, says)
         \/ \E n \in Bearers(name) : Moves(m, [job[m] EXCEPT !.pc = "found", !.target = n])
  BY DEF FindMember, At, Quiet
<1>2. /\ job[m] \in Jobs /\ active \in SUBSET Names /\ Faithful(job[m], did[m], steady[m])
      /\ Entitled(m, job[m])
  BY DEF BotInv, BotTypeOK
<1>3. CASE \E says \in Quiet \cup {"unavailable"} : Answers(m, says)
  <2>1. PICK says \in Quiet \cup {"unavailable"} : Answers(m, says)
    BY <1>3
  <2> QED
    BY <1>1, <2>1, EarlyAnswer
<1>4. ASSUME NEW n \in Bearers(name),
             Moves(m, [job[m] EXCEPT !.pc = "found", !.target = n])
      PROVE  BotInv'
  <2> DEFINE j == [job[m] EXCEPT !.pc = "found", !.target = n]
  <2>1. n \in Names /\ Fold[n] = Fold[name]
    BY <1>2, <1>4 DEF Bearers
  <2>2. /\ j \in Jobs /\ j.pc = "found" /\ j.owned = job[m].owned /\ j.target = n
        /\ j.says = job[m].says /\ j.lists = job[m].lists /\ j.removed = job[m].removed
        /\ j.command = job[m].command /\ j.admin = job[m].admin
    BY <1>2, <2>1 DEF Jobs, Places
  <2>3. Moves(m, j)
    BY <1>4
  <2> HIDE DEF j
  <2>4. Writing(j) /\ Entitled(m, j)
    <3>1. CASE job[m].pc = "owned"
      <4>1. job[m].command.kind = "set-aura" /\ job[m].target \in job[m].owned /\ name = job[m].target
        BY <1>2, <3>1 DEF Entitled, At
      <4> QED
        BY <2>1, <2>2, <4>1 DEF Entitled, Writing, AdminCommands
    <3>2. CASE job[m].pc = "parsed" /\ Writes(m) /\ Allowed(m) /\ OwnNumber(m) /\ ~OwnFirst(m)
      <4>1. Writing(j)
        BY <2>2, <3>2 DEF Writing, Writes, KindOf
      <4>2. j.command.kind \in AdminCommands => j.admin
        BY <2>2, <3>2 DEF Allowed, KindOf
      <4>3. j.command.kind = "bind-combat" /\ j.command.qq \notin {"none", Sender[m]} => j.admin
        BY <2>2, <3>2 DEF OwnNumber, KindOf
      <4>4. j.command.kind = "set-aura" => j.admin
        BY <1>2, <2>2, <3>2 DEF OwnFirst, KindOf, Jobs
      <4> QED
        BY <2>1, <2>2, <4>1, <4>2, <4>3, <4>4 DEF Entitled
    <3> QED
      BY <1>1, <3>1, <3>2
  <2>5. \A s \in SUBSET steady[m] : Faithful(j, did[m], s)
    BY <1>1, <1>2, <2>2, <2>4 DEF Faithful
  <2> QED
    BY <1>1, <2>2, <2>3, <2>4, <2>5, GoesOn
<1> QED
  BY <1>1, <1>3, <1>4

\* What the API accepts it writes; the answer claims no more.
LEMMA WriteRowInv ==
    ASSUME BotInv, Follow, NEW m \in Messages, WriteRow(m)
    PROVE  BotInv'
<1> DEFINE n == job[m].target
           d == Append(did[m], n)
<1>1. /\ job[m] \in Jobs /\ Faithful(job[m], did[m], steady[m]) /\ Entitled(m, job[m])
      /\ did \in [Messages -> Seq(Names)] /\ text' = text /\ active' = active
      /\ active \in SUBSET Names /\ bound \in [Names -> Rows]
      /\ aura \in [Names -> [AuraTypes -> Levels \cup {"none"}]]
  BY DEF BotInv, BotTypeOK, WriteRow
<1>2. job[m].pc = "found" /\ n \in Names /\ did[m] = <<>> /\ Writing(job[m])
      /\ job[m].removed = {} /\ job[m].lists = NoLists
  BY <1>1 DEF WriteRow, At, Faithful, Entitled
<1>3. did' = [did EXCEPT ![m] = d] /\ d = <<n>> /\ d \in Seq(Names)
  BY <1>1, <1>2 DEF WriteRow
<1>4. bound' \in [Names -> Rows] /\ aura' \in [Names -> [AuraTypes -> Levels \cup {"none"}]]
  <2>1. job[m].command \in Commands /\ Sender[m] \in Users
    BY <1>1, BotAssumption DEF Jobs
  <2>2. CASE KindOf(m) = "set-aura"
    <3>1. aura' = NewAura(m) /\ bound' = bound
      BY <2>2 DEF WriteRow
    <3>2. job[m].command.type \in AuraTypes /\ job[m].command.level \in Levels
      BY <2>1, <2>2, ParseFacts DEF KindOf
    <3> QED
      BY <1>1, <1>2, <3>1, <3>2 DEF NewAura
  <2>3. CASE KindOf(m) # "set-aura"
    <3>1. bound' = [bound EXCEPT ![n] = NewBinding(m)] /\ aura' = aura
      BY <2>3 DEF WriteRow
    <3>2. NewBinding(m) \in Rows
      <4>1. CASE KindOf(m) = "unbind-combat"
        BY <4>1 DEF NewBinding, Unbound, Rows
      <4>2. CASE KindOf(m) \in {"bind-combat", "rebind-combat"}
        <5>1. job[m].command.qq \in Users \cup {"none"} /\ job[m].command.type \in CombatTypes
          BY <2>1, <4>2, ParseFacts DEF KindOf
        <5> QED
          BY <2>1, <4>2, <5>1 DEF NewBinding, Rows
      <4> QED
        BY <1>2, <2>3, <4>1, <4>2 DEF Writing, KindOf
    <3> QED
      BY <1>1, <3>1, <3>2
  <2> QED
    BY <2>2, <2>3
<1>5. PICK says \in {"done", "unavailable"} : Answers(m, says)
  BY DEF WriteRow
<1> DEFINE j == [job[m] EXCEPT !.pc = "answered", !.says = says]
<1>6. /\ j \in Jobs /\ j.pc = "answered" /\ j.says = says /\ j.lists = NoLists
      /\ j.target = n /\ job' = [job EXCEPT ![m] = j]
  BY <1>1, <1>2, <1>5 DEF Jobs, Verdicts, Places, Answers, Moves
<1> HIDE DEF j, d
<1>7. Entitled(m, j) /\ j.pc # "idle"
  BY <1>6 DEF Entitled
<1>8. ASSUME NEW s PROVE Honest(j, d, s) /\ Faithful(j, d, s)
  <2>1. Shown(j, "removed") = {} /\ Shown(j, "unbound") = {}
    BY <1>6 DEF Shown, NoLists
  <2>2. j.says \notin Quiet
    BY <1>6 DEF Quiet
  <2>3. Len(d) <= 1 /\ d = <<j.target>>
    BY <1>3, <1>6
  <2>4. Honest(j, d, s)
    BY <2>1, <2>2, <2>3 DEF Honest
  <2> QED
    BY <1>6, <2>4 DEF Faithful
<1> QED
  BY <1>1, <1>2, <1>3, <1>4, <1>6, <1>7, <1>8, MovedInv

LEMMA FailsInv ==
    ASSUME BotInv, Follow, NEW m \in Messages, WriteFails(m) \/ ReadFails(m)
    PROVE  BotInv'
<1>1. job[m].pc \in {"found", "reading"} /\ Answers(m, "unavailable") /\ OnlyTheJob
  BY DEF WriteFails, ReadFails, Fails, At
<1> QED
  BY <1>1, EarlyAnswer

LEMMA StartReportInv ==
    ASSUME BotInv, Follow, NEW m \in Messages, StartReport(m)
    PROVE  BotInv'
<1> DEFINE unread == {"members"} \cup IF KindOf(m) \in ReadsBindings THEN {"bindings"} ELSE {}
           j == [job[m] EXCEPT !.pc = "reading", !.unread = unread]
<1>1. /\ job[m].pc = "parsed" /\ OnlyTheJob /\ Moves(m, j) /\ KindOf(m) \in Reports
      /\ Allowed(m)
  BY DEF StartReport, At
<1>2. job[m] \in Jobs /\ Faithful(job[m], did[m], steady[m])
  BY DEF BotInv, BotTypeOK
<1>3. unread \in SUBSET {"members", "bindings"}
  OBVIOUS
<1>4. /\ j \in Jobs /\ j.pc = "reading" /\ j.unread = unread
      /\ j.says = job[m].says /\ j.lists = job[m].lists /\ j.removed = job[m].removed
      /\ j.command = job[m].command /\ j.admin = job[m].admin
  BY <1>2, <1>3 DEF Jobs, Places
<1> HIDE DEF j
<1>5. Entitled(m, j)
  BY <1>1, <1>4 DEF Entitled, Allowed, KindOf
<1>6. \A s \in SUBSET steady[m] : Faithful(j, did[m], s)
  BY <1>1, <1>2, <1>4 DEF Faithful, KindOf
<1> QED
  BY <1>1, <1>4, <1>5, <1>6, GoesOn

\* Who is bound all along is a member, and bound, whenever it is asked.
LEMMA ReadInv ==
    ASSUME BotInv, Follow, NEW m \in Messages, ReadMembers(m) \/ ReadBindings(m)
    PROVE  BotInv'
<1>1. /\ job[m] \in Jobs /\ Faithful(job[m], did[m], steady[m]) /\ Entitled(m, job[m])
      /\ active \in SUBSET Names /\ bound \in [Names -> Rows]
      /\ steady[m] \subseteq active /\ steady[m] \subseteq HasBinding(bound)
  BY DEF BotInv, BotTypeOK, Bound
<1>2. job[m].pc = "reading" /\ OnlyTheJob
  BY DEF ReadMembers, ReadBindings, At
<1>3. CASE ReadMembers(m)
  <2> DEFINE j == [job[m] EXCEPT !.unread = @ \ {"members"}, !.members = active]
  <2>1. Moves(m, j)
    BY <1>3 DEF ReadMembers
  <2>2. /\ j \in Jobs /\ j.pc = "reading" /\ j.unread = job[m].unread \ {"members"}
        /\ j.members = active /\ j.bindings = job[m].bindings
        /\ j.says = job[m].says /\ j.lists = job[m].lists /\ j.removed = job[m].removed
        /\ j.command = job[m].command /\ j.admin = job[m].admin
    BY <1>1, <1>2 DEF Jobs, Places
  <2> HIDE DEF j
  <2>3. Entitled(m, j)
    BY <1>1, <1>2, <2>2 DEF Entitled
  <2>4. \A s \in SUBSET steady[m] : Faithful(j, did[m], s)
    BY <1>1, <1>2, <2>2 DEF Faithful
  <2> QED
    BY <1>2, <2>1, <2>2, <2>3, <2>4, GoesOn
<1>4. CASE ReadBindings(m)
  <2> DEFINE j == [job[m] EXCEPT !.unread = @ \ {"bindings"}, !.bindings = bound]
  <2>1. Moves(m, j)
    BY <1>4 DEF ReadBindings
  <2>2. /\ j \in Jobs /\ j.pc = "reading" /\ j.unread = job[m].unread \ {"bindings"}
        /\ j.bindings = bound /\ j.members = job[m].members
        /\ j.says = job[m].says /\ j.lists = job[m].lists /\ j.removed = job[m].removed
        /\ j.command = job[m].command /\ j.admin = job[m].admin
    BY <1>1, <1>2 DEF Jobs, Places
  <2> HIDE DEF j
  <2>3. Entitled(m, j)
    BY <1>1, <1>2, <2>2 DEF Entitled
  <2>4. \A s \in SUBSET steady[m] : Faithful(j, did[m], s)
    BY <1>1, <1>2, <2>2 DEF Faithful
  <2> QED
    BY <1>2, <2>1, <2>2, <2>3, <2>4, GoesOn
<1> QED
  BY <1>3, <1>4

\* The names to remove had no member when the members were read.
LEMMA ListStaleInv ==
    ASSUME BotInv, Follow, NEW m \in Messages, ListStale(m)
    PROVE  BotInv'
<1> DEFINE S == HasBinding(job[m].bindings) \ job[m].members
<1>1. PICK stale \in ByPlace(S) : Moves(m, [job[m] EXCEPT !.pc = "pruning", !.stale = stale])
  BY DEF ListStale
<1> DEFINE j == [job[m] EXCEPT !.pc = "pruning", !.stale = stale]
<1>2. /\ job[m] \in Jobs /\ Faithful(job[m], did[m], steady[m]) /\ Entitled(m, job[m])
  BY DEF BotInv, BotTypeOK
<1>3. /\ job[m].pc = "reading" /\ job[m].unread = {} /\ KindOf(m) \in Prunes /\ OnlyTheJob
  BY DEF ListStale, At
<1>4. stale \in Seq(Names) /\ \A i \in DOMAIN stale : stale[i] \in S
  <2>1. IsFiniteSet(S) /\ S \subseteq Names
    <3>1. S \subseteq Names
      BY DEF HasBinding
    <3> QED
      BY <3>1, FS_Subset, BotAssumption
  <2>2. Cardinality(S) \in Nat
    BY <2>1, FS_CardinalityType
  <2>3. stale \in [1 .. Cardinality(S) -> S]
    BY DEF ByPlace
  <2> HIDE DEF S
  <2> QED
    BY <2>1, <2>2, <2>3
<1>5. \A s \in SUBSET steady[m] : \A i \in DOMAIN stale : stale[i] \notin s
  <2>1. steady[m] \subseteq job[m].members
    BY <1>2, <1>3 DEF Faithful
  <2> QED
    BY <1>4, <2>1
<1> HIDE DEF S
<1>6. /\ j \in Jobs /\ j.pc = "pruning" /\ j.stale = stale
      /\ j.says = job[m].says /\ j.lists = job[m].lists /\ j.removed = job[m].removed
      /\ j.command = job[m].command /\ j.admin = job[m].admin
  BY <1>2, <1>4 DEF Jobs, Places
<1> HIDE DEF j
<1>7. Entitled(m, j)
  BY <1>2, <1>3, <1>6 DEF Entitled
<1>8. \A s \in SUBSET steady[m] : Faithful(j, did[m], s)
  BY <1>2, <1>3, <1>5, <1>6 DEF Faithful, KindOf, Done
<1> QED
  BY <1>1, <1>3, <1>6, <1>7, <1>8, GoesOn DEF j

\* A removal that is heard of was made.
LEMMA PruneInv ==
    ASSUME BotInv, Follow, NEW m \in Messages, PruneRow(m) \/ PruneFails(m)
    PROVE  BotInv'
<1>1. /\ job[m] \in Jobs /\ Faithful(job[m], did[m], steady[m]) /\ Entitled(m, job[m])
      /\ Honest(job[m], did[m], steady[m])
      /\ did \in [Messages -> Seq(Names)] /\ active \in SUBSET Names
      /\ bound \in [Names -> Rows] /\ aura \in [Names -> [AuraTypes -> Levels \cup {"none"}]]
  BY DEF BotInv, BotTypeOK
<1>2. job[m].pc = "pruning" /\ job[m].stale # <<>> /\ job[m].stale \in Seq(Names)
  BY <1>1 DEF PruneRow, PruneFails, At, Jobs
<1> DEFINE n == Head(job[m].stale)
           t == Tail(job[m].stale)
<1>3. /\ n \in Names /\ t \in Seq(Names)
      /\ \A s \in SUBSET steady[m] : n \notin s /\ \A i \in DOMAIN t : t[i] \notin s
  <2>1. n \in Names /\ t \in Seq(Names) /\ Len(t) = Len(job[m].stale) - 1
        /\ \A i \in 1..Len(t) : t[i] = job[m].stale[i + 1]
    BY <1>2, HeadTailProperties
  <2>2. n = job[m].stale[1] /\ Len(job[m].stale) \in Nat /\ Len(job[m].stale) > 0
    BY <1>2, EmptySeq, LenProperties
  <2>3. \A i \in 1..Len(job[m].stale) : job[m].stale[i] \notin steady[m]
    BY <1>1, <1>2 DEF Faithful
  <2>4. n \notin steady[m]
    BY <2>2, <2>3
  <2>5. ASSUME NEW i \in 1..Len(t) PROVE t[i] \notin steady[m]
    <3>1. i + 1 \in 1..Len(job[m].stale)
      BY <2>1, <2>2
    <3> QED
      BY <2>1, <2>3, <3>1
  <2>6. DOMAIN t = 1..Len(t)
    BY <2>1, LenProperties
  <2> HIDE DEF t, n
  <2> QED
    BY <2>1, <2>4, <2>5, <2>6
<1> HIDE DEF n, t
<1>4. ASSUME NEW r \in SUBSET {n}, NEW d \in Seq(Names), r \subseteq Done(d),
             Done(did[m]) \subseteq Done(d), Pruned(m, r)
      PROVE  LET j == [job[m] EXCEPT !.stale = t, !.removed = @ \cup r] IN
             /\ j \in Jobs /\ job' = [job EXCEPT ![m] = j] /\ j.pc # "idle" /\ Entitled(m, j)
             /\ \A s \in SUBSET Names : s \subseteq steady[m] => Honest(j, d, s) /\ Faithful(j, d, s)
  <2> DEFINE j == [job[m] EXCEPT !.stale = t, !.removed = @ \cup r]
  <2>1. /\ j \in Jobs /\ j.pc = "pruning" /\ j.stale = t /\ j.removed = job[m].removed \cup r
        /\ j.says = job[m].says /\ j.lists = job[m].lists
        /\ j.command = job[m].command /\ j.admin = job[m].admin
    BY <1>1, <1>2, <1>3 DEF Jobs, Places
  <2>2. job' = [job EXCEPT ![m] = j]
    BY <1>4 DEF Pruned, Moves, t
  <2> HIDE DEF j
  <2>3. Entitled(m, j)
    BY <1>1, <1>2, <2>1 DEF Entitled
  <2>4. ASSUME NEW s \in SUBSET steady[m] PROVE Honest(j, d, s) /\ Faithful(j, d, s)
    <3>1. j.says = "pending" /\ j.lists = NoLists /\ j.command.kind \in Prunes
      BY <1>1, <1>2, <2>1 DEF Faithful
    <3>2. Shown(j, "removed") = {} /\ Shown(j, "unbound") = {}
      BY <3>1 DEF Shown, NoLists
    <3>3. j.says \notin Quiet /\ j.says # "done" /\ ~Writing(j)
      BY <3>1 DEF Quiet, Writing, Prunes
    <3>4. Honest(j, d, s)
      BY <3>2, <3>3 DEF Honest
    <3>5. j.removed \subseteq Done(d) /\ j.removed \cap s = {}
      <4>1. job[m].removed \subseteq Done(did[m]) /\ job[m].removed \cap steady[m] = {}
        BY <1>1, <1>2 DEF Faithful
      <4> QED
        BY <1>3, <1>4, <2>1, <2>4, <4>1
    <3>6. Faithful(j, d, s)
      BY <1>3, <2>1, <3>1, <3>5 DEF Faithful
    <3> QED
      BY <3>4, <3>6
  <2> QED
    BY <2>1, <2>2, <2>3, <2>4 DEF j
<1>5. CASE PruneFails(m)
  <2>1. Pruned(m, {}) /\ OnlyTheJob
    BY <1>5 DEF PruneFails
  <2>2. did[m] \in Seq(Names) /\ did' = [did EXCEPT ![m] = did[m]]
    BY <1>1, <2>1 DEF OnlyTheJob
  <2> QED
    BY <1>1, <1>2, <1>4, <2>1, <2>2, MovedInv DEF OnlyTheJob
<1>6. CASE PruneRow(m)
  <2> DEFINE d == Append(did[m], n)
  <2>1. /\ bound' = [bound EXCEPT ![n] = Unbound] /\ did' = [did EXCEPT ![m] = d]
        /\ \E heard \in BOOLEAN : Pruned(m, IF heard THEN {n} ELSE {})
        /\ UNCHANGED <<text, active, aura>>
    BY <1>6 DEF PruneRow, n
  <2>2. d \in Seq(Names) /\ {n} \subseteq Done(d) /\ Done(did[m]) \subseteq Done(d)
    <3>1. did[m] \in Seq(Names)
      BY <1>1
    <3>2. /\ d \in Seq(Names) /\ Len(d) = Len(did[m]) + 1 /\ d[Len(did[m]) + 1] = n
          /\ \A i \in 1..Len(did[m]) : d[i] = did[m][i]
      BY <1>3, <3>1, AppendProperties
    <3>3. DOMAIN d = 1..Len(d) /\ DOMAIN did[m] = 1..Len(did[m]) /\ Len(did[m]) \in Nat
      BY <3>1, <3>2, LenProperties
    <3> HIDE DEF d
    <3>4. Len(did[m]) + 1 \in DOMAIN d /\ \A i \in DOMAIN did[m] : i \in DOMAIN d /\ d[i] = did[m][i]
      BY <3>2, <3>3
    <3> QED
      BY <3>2, <3>4 DEF Done
  <2>3. PICK r \in SUBSET {n} : Pruned(m, r)
    BY <2>1
  <2>4. bound' \in [Names -> Rows]
    BY <1>1, <1>3, <2>1 DEF Unbound, Rows
  <2> HIDE DEF d
  <2>5. r \subseteq Done(d)
    BY <2>2
  <2> QED
    BY <1>1, <1>2, <1>4, <2>1, <2>2, <2>3, <2>4, <2>5, MovedInv
<1> QED
  BY <1>5, <1>6

LEMMA ReportInv ==
    ASSUME BotInv, Follow, NEW m \in Messages, Report(m)
    PROVE  BotInv'
<1> DEFINE j == [job[m] EXCEPT !.pc = "answered", !.says = "report", !.lists = ReportOf(m)]
<1>1. /\ job[m] \in Jobs /\ Faithful(job[m], did[m], steady[m])
      /\ Honest(job[m], did[m], steady[m])
  BY DEF BotInv, BotTypeOK
<1>2. /\ OnlyTheJob /\ Moves(m, j)
      /\ \/ job[m].pc = "reading" /\ job[m].unread = {} /\ job[m].command.kind \notin Prunes
         \/ job[m].pc = "pruning"
  BY DEF Report, At, KindOf
<1>3. job[m].command.kind \in Reports
  BY <1>1, <1>2 DEF Faithful, Prunes, Reports
<1>4. /\ ReportOf(m) \in ListSets
      /\ (IF "removed" \in DOMAIN ReportOf(m) THEN ReportOf(m)["removed"] ELSE {})
           \subseteq job[m].removed
      /\ (IF "unbound" \in DOMAIN ReportOf(m) THEN ReportOf(m)["unbound"] ELSE {})
           \subseteq job[m].members \ HasBinding(job[m].bindings)
      /\ job[m].command.kind \in Prunes \/ job[m].command.kind \notin ReadsBindings =>
           "unbound" \notin DOMAIN ReportOf(m)
      /\ job[m].command.kind \notin Prunes => "removed" \notin DOMAIN ReportOf(m)
  BY <1>1, <1>3, ReportFacts
<1>5. /\ j \in Jobs /\ j.pc = "answered" /\ j.says = "report" /\ j.lists = ReportOf(m)
      /\ j.command = job[m].command
  BY <1>1, <1>4 DEF Jobs, Places, Verdicts
<1> HIDE DEF j
<1>6. Entitled(m, j)
  BY <1>5 DEF Entitled
<1>7. ASSUME NEW s \in SUBSET steady[m] PROVE Honest(j, did[m], s) /\ Faithful(j, did[m], s)
  <2>1. j.says \notin Quiet /\ j.says # "done" /\ ~Writing(j)
    BY <1>3, <1>5 DEF Quiet, Writing, Reports
  <2>2. /\ Shown(j, "removed") \subseteq job[m].removed
        /\ Shown(j, "unbound") \subseteq job[m].members \ HasBinding(job[m].bindings)
    BY <1>4, <1>5 DEF Shown
  <2>3. Shown(j, "removed") \subseteq Done(did[m]) /\ Shown(j, "removed") \cap s = {}
    <3>1. CASE job[m].pc = "reading"
      BY <1>2, <1>4, <1>5, <3>1 DEF Shown
    <3>2. CASE job[m].pc = "pruning"
      BY <1>1, <1>7, <2>2, <3>2 DEF Faithful
    <3> QED
      BY <1>2, <3>1, <3>2
  <2>4. Shown(j, "unbound") \cap s = {}
    <3>1. CASE job[m].command.kind \in Prunes \/ job[m].command.kind \notin ReadsBindings
      BY <1>4, <1>5, <3>1 DEF Shown
    <3>2. CASE job[m].command.kind \notin Prunes /\ job[m].command.kind \in ReadsBindings
      <4>1. job[m].pc = "reading" /\ job[m].unread = {}
        BY <1>1, <1>2, <3>2 DEF Faithful
      <4>2. steady[m] \subseteq HasBinding(job[m].bindings)
        BY <1>1, <3>2, <4>1 DEF Faithful
      <4> QED
        BY <1>7, <2>2, <4>2
    <3> QED
      BY <3>1, <3>2
  <2>5. Honest(j, did[m], s)
    BY <2>1, <2>3, <2>4 DEF Honest
  <2> QED
    BY <1>5, <2>5 DEF Faithful
<1>8. job[m].pc # "idle"
  BY <1>2
<1> QED
  BY <1>2, <1>5, <1>6, <1>7, <1>8, JobInv

-----------------------------------------------------------------------------
(* The commands together                                                   *)

LEMMA SyncInv ==
    ASSUME BotInv, Follow, SyncRoster
    PROVE  BotInv'
<1>1. /\ BotTypeOK /\ UNCHANGED <<text, aura, job, did>>
      /\ active' \in SUBSET Names /\ bound' \in [Names -> Rows]
  <2>1. BotTypeOK /\ UNCHANGED <<text, aura, job, did>> /\ active' \in SUBSET Names
    BY DEF BotInv, SyncRoster
  <2>2. bound' = [n \in Names |-> IF n \in active' THEN bound[n] ELSE Unbound]
    BY DEF SyncRoster
  <2>3. bound' \in [Names -> Rows]
    BY <2>1, <2>2 DEF BotTypeOK, Unbound, Rows
  <2> QED
    BY <2>1, <2>3
<1>2. ASSUME NEW k \in Messages
      PROVE  /\ steady'[k] \in SUBSET Names /\ steady'[k] \in SUBSET steady[k]
             /\ steady'[k] \subseteq Bound(active', bound')
  <2>1. steady'[k] = IF job[k].pc # "idle" THEN steady[k] \cap Bound(active', bound')
                     ELSE IF job'[k].pc = "idle" THEN {} ELSE Bound(active, bound)
    BY DEF Follow, At
  <2>2. steady[k] \subseteq Names
    BY <1>1 DEF BotTypeOK
  <2> QED
    BY <1>1, <2>1, <2>2
<1>3. ASSUME NEW k \in Messages
      PROVE  /\ Honest(job[k], did[k], steady'[k]) /\ Faithful(job[k], did[k], steady'[k])
             /\ Entitled(k, job[k])
  <2>1. Honest(job[k], did[k], steady[k]) /\ Faithful(job[k], did[k], steady[k])
        /\ Entitled(k, job[k])
    BY DEF BotInv
  <2> QED
    BY <1>2, <2>1, FewerBound
<1>4. BotTypeOK'
  <2>1. steady' \in [Messages -> SUBSET Names]
    BY <1>2 DEF Follow
  <2> QED
    BY <1>1, <2>1 DEF BotTypeOK
<1> QED
  BY <1>1, <1>2, <1>3, <1>4 DEF BotInv

LEMMA BotInitInv == BotInit => BotInv
<1> SUFFICES ASSUME NEW members \in SUBSET Names, NEW bindings \in [Names -> Rows],
                    BotInitFrom(members, bindings)
             PROVE  BotInv
  BY DEF BotInit
<1>1. Idle \in Jobs
  <2>1. [n \in Names |-> Unbound] \in [Names -> Rows]
    BY DEF Unbound, Rows
  <2>2. <<>> \in Seq(Names) /\ {} \in SUBSET Names
    BY EmptySeq
  <2> QED
    BY <2>1, <2>2 DEF Idle, Jobs, Commands, Places, Verdicts, ListSets
<1>2. BotTypeOK
  <2>1. <<>> \in Seq(Names)
    BY EmptySeq
  <2>2. text \in [Messages -> Spoken]
    BY DEF BotInitFrom, Spoken
  <2>3. aura \in [Names -> [AuraTypes -> Levels \cup {"none"}]]
    BY DEF BotInitFrom
  <2> QED
    BY <1>1, <2>1, <2>2, <2>3 DEF BotTypeOK, BotInitFrom
<1>3. ASSUME NEW m \in Messages
      PROVE  /\ Honest(job[m], did[m], steady[m]) /\ Faithful(job[m], did[m], steady[m])
             /\ Entitled(m, job[m]) /\ steady[m] \subseteq Bound(active, bound)
  <2>1. job[m] = Idle /\ did[m] = <<>> /\ steady[m] = {}
    BY DEF BotInitFrom
  <2>2. Idle.pc = "idle" /\ Idle.says = "pending" /\ Idle.lists = NoLists /\ Idle.removed = {}
    BY DEF Idle
  <2>3. Shown(Idle, "removed") = {} /\ Shown(Idle, "unbound") = {}
    BY <2>2 DEF Shown, NoLists
  <2>4. Idle.says \notin Quiet /\ Idle.says # "done"
    BY <2>2 DEF Quiet
  <2>5. Honest(Idle, <<>>, {})
    BY <2>3, <2>4 DEF Honest
  <2>6. Faithful(Idle, <<>>, {}) /\ Entitled(m, Idle)
    BY <2>2 DEF Faithful, Entitled
  <2> QED
    BY <2>1, <2>5, <2>6
<1> QED
  BY <1>2, <1>3 DEF BotInv

LEMMA BotNextInv == BotInv /\ [BotNext]_botVars => BotInv'
<1> SUFFICES ASSUME BotInv, [BotNext]_botVars PROVE BotInv'
  OBVIOUS
<1>1. CASE UNCHANGED botVars
  BY <1>1 DEF botVars, BotInv, BotTypeOK
<1>2. CASE SyncRoster /\ Follow
  BY <1>2, SyncInv
<1>3. ASSUME NEW m \in Messages, HandlerSteps(m), Follow PROVE BotInv'
  BY <1>3, ReceiveInv, AnswerAtOnceInv, LookUpOwnInv, FindMemberInv, WriteRowInv, FailsInv,
     StartReportInv, ReadInv, ListStaleInv, PruneInv, ReportInv DEF HandlerSteps
<1> QED
  BY <1>1, <1>2, <1>3 DEF BotNext

LEMMA BotInvHolds == BotSpec => []BotInv
  BY BotInitInv, BotNextInv, PTL DEF BotSpec

\* The variables of the commands keep their types, and every row in the API is one.
THEOREM BotTypeOKHolds == BotSpec => []BotTypeOK
<1>1. BotInv => BotTypeOK
  BY DEF BotInv
<1> QED
  BY <1>1, BotInvHolds, PTL

(* What the bot says is so, for any messages, users and members: a refusal *)
(* changed nothing, "done" changed one row, the removals it names it made, *)
(* and no report calls a member unbound who was bound all along.           *)
THEOREM RepliesAreTrueHolds == BotSpec => []RepliesAreTrue
<1>1. BotInv => RepliesAreTrue
  BY DEF BotInv, Honest, RepliesAreTrue, Lists, Shown, Done, Writes, Writing, KindOf
<1> QED
  BY <1>1, BotInvHolds, PTL

(* Bindings and auras change on the word of an administrator or of the one *)
(* they are about.                                                         *)
THEOREM CommandsKeepAuthorityHolds == BotSpec => CommandsKeepAuthority
<1> DEFINE Right(m) ==
             LET n == did'[m][Len(did'[m])]
             IN  CASE KindOf(m) = "bind-combat" -> job[m].admin \/ bound'[n].qq = Sender[m]
                   [] KindOf(m) \in {"rebind-combat", "unbind-combat"} -> job[m].admin
                   [] KindOf(m) = "set-aura" ->
                        \/ job[m].admin
                        \/ job[m].owned \cap {o \in Names : Fold[o] = Fold[n]} # {}
                   [] OTHER -> job[m].admin /\ n \notin steady[m]
<1>1. ASSUME BotInv, NEW m \in Messages, Doer(m), NEW k \in Messages, HandlerSteps(k)
      PROVE  Right(m)
  <2>1. /\ did \in [Messages -> Seq(Names)] /\ job[m] \in Jobs /\ bound \in [Names -> Rows]
        /\ Entitled(m, job[m]) /\ Faithful(job[m], did[m], steady[m])
    BY <1>1 DEF BotInv, BotTypeOK
  <2>2. k = m /\ (WriteRow(m) \/ PruneRow(m))
    <3>1. did' # did
      BY <1>1 DEF Doer
    <3>2. WriteRow(k) \/ PruneRow(k)
      BY <1>1, <3>1 DEF HandlerSteps, Receive, AnswerAtOnce, StartOfficial, LookUpOwn,
         FindMember, WriteFails, StartReport, ReadMembers, ReadBindings, ReadFails, ListStale,
         PruneFails, Report, Fails, OnlyTheJob
    <3>3. \E d : did' = [did EXCEPT ![k] = d]
      BY <3>2 DEF WriteRow, PruneRow
    <3>4. k = m
      BY <1>1, <2>1, <3>3 DEF Doer
    <3> QED
      BY <3>2, <3>4
  <2>3. ASSUME NEW n \in Names, did' = [did EXCEPT ![m] = Append(@, n)]
        PROVE  did'[m][Len(did'[m])] = n
    <3>1. did[m] \in Seq(Names) /\ did'[m] = Append(did[m], n)
      BY <2>1, <2>3
    <3> QED
      BY <3>1, AppendProperties
  <2>4. CASE WriteRow(m)
    <3> DEFINE n == job[m].target
    <3>1. n \in Names /\ job[m].pc = "found" /\ Writing(job[m])
      BY <2>1, <2>4 DEF WriteRow, At, Entitled, Faithful
    <3>2. did'[m][Len(did'[m])] = n
      BY <2>3, <2>4, <3>1 DEF WriteRow
    <3>3. CASE KindOf(m) = "bind-combat"
      <4>1. bound' = [bound EXCEPT ![n] = NewBinding(m)]
        BY <2>4, <3>3 DEF WriteRow
      <4>2. bound'[n].qq = IF job[m].command.qq = "none" THEN Sender[m] ELSE job[m].command.qq
        BY <2>1, <3>1, <3>3, <4>1 DEF NewBinding
      <4>3. job[m].command.qq \notin {"none", Sender[m]} => job[m].admin
        BY <2>1, <3>1, <3>3 DEF Entitled, KindOf
      <4> QED
        BY <3>2, <3>3, <4>2, <4>3
    <3>4. CASE KindOf(m) \in {"rebind-combat", "unbind-combat"}
      <4>1. job[m].admin
        BY <2>1, <3>1, <3>4 DEF Entitled, KindOf, AdminCommands
      <4> QED
        BY <3>4, <4>1
    <3>5. CASE KindOf(m) = "set-aura"
      <4>1. job[m].admin \/ \E o \in job[m].owned : Fold[o] = Fold[n]
        BY <2>1, <3>1, <3>5 DEF Entitled, KindOf
      <4>2. job[m].owned \subseteq Names
        BY <2>1 DEF Jobs
      <4>3. job[m].admin \/ job[m].owned \cap {o \in Names : Fold[o] = Fold[n]} # {}
        BY <4>1, <4>2
      <4> HIDE DEF n
      <4> QED
        BY <3>2, <3>5, <4>3
    <3> QED
      BY <3>1, <3>3, <3>4, <3>5 DEF Writing, KindOf
  <2>5. CASE PruneRow(m)
    <3> DEFINE n == Head(job[m].stale)
    <3>1. /\ job[m].pc = "pruning" /\ job[m].stale # <<>> /\ job[m].stale \in Seq(Names)
          /\ did' = [did EXCEPT ![m] = Append(@, n)]
      BY <2>1, <2>5 DEF PruneRow, At, Jobs
    <3>2. KindOf(m) \in Prunes /\ job[m].admin
      BY <2>1, <3>1 DEF Faithful, Entitled, KindOf, Prunes, AdminCommands
    <3>3. n \in Names /\ n \notin steady[m]
      <4>1. n \in Names /\ n = job[m].stale[1] /\ 1 \in DOMAIN job[m].stale
        BY <3>1, EmptySeq, LenProperties, HeadTailProperties
      <4>2. \A i \in DOMAIN job[m].stale : job[m].stale[i] \notin steady[m]
        BY <2>1, <3>1 DEF Faithful
      <4> QED
        BY <4>1, <4>2
    <3> HIDE DEF n
    <3>4. did'[m][Len(did'[m])] = n
      BY <2>3, <3>1, <3>3
    <3> QED
      BY <3>2, <3>3, <3>4 DEF Prunes
  <2> QED
    BY <2>2, <2>4, <2>5
<1>2. ASSUME BotInv, BotNext, NEW m \in Messages, Doer(m)
      PROVE  Right(m)
  <2>1. ~SyncRoster
    BY <1>2 DEF SyncRoster, Doer
  <2>2. PICK k \in Messages : HandlerSteps(k)
    BY <1>2, <2>1 DEF BotNext
  <2> QED
    BY <1>1, <1>2, <2>2
<1>3. BotInv /\ [BotNext]_botVars => [\A m \in Messages : Doer(m) => Right(m)]_botVars
  BY <1>2
<1> QED
  BY <1>3, BotInvHolds, PTL DEF BotSpec, CommandsKeepAuthority

-----------------------------------------------------------------------------
(* The deliveries.  ReplyInv is inductive: the count in memory bounds what  *)
(* a group got only because it is true, and it stays true over a day's end *)
(* only because no count is of a day to come.                              *)

ReplyInv == ReplyTypeOK /\ NeverAhead /\ CountIsTrue /\ WithinQuota

\* Rolling the day keeps a store a store and every count of today.
LEMMA RollKeeps ==
  ASSUME today \in 0 .. MaxDay, NEW store \in Store, store.day <= today
  PROVE  /\ Rolled(store) \in Store
         /\ Rolled(store).day = today
         /\ \A g \in Groups : Rolled(store).used[g] = Used(store, g)
         /\ \A g \in Groups : Used(Rolled(store), g) = Used(store, g)
  BY LimitAssumption DEF Store, Rolled, Used, Zero

\* Counting a message adds one to its group and leaves the others.
LEMMA ConsumeCounts ==
  ASSUME ReplyTypeOK, NeverAhead, NEW g \in Groups
  PROVE  /\ Consumed(g) \in Store
         /\ Consumed(g).day = today
         /\ \A h \in Groups :
              Used(Consumed(g), h) =
                IF h = g /\ Limit > 0 THEN Used(mem, h) + 1 ELSE Used(mem, h)
<1>1. /\ Rolled(mem) \in Store /\ Rolled(mem).day = today
      /\ \A h \in Groups : Rolled(mem).used[h] = Used(mem, h)
      /\ \A h \in Groups : Used(Rolled(mem), h) = Used(mem, h)
  BY RollKeeps DEF ReplyTypeOK, NeverAhead
<1>2. CASE Limit = 0
  BY <1>1, <1>2 DEF Consumed
<1>3. CASE Limit # 0
  <2> DEFINE more == [Rolled(mem) EXCEPT !.used[g] = @ + 1]
  <2>1. Consumed(g) = more
    BY <1>3 DEF Consumed
  <2>2. more \in Store /\ more.day = today
    BY <1>1 DEF Store
  <2>3. \A h \in Groups :
          more.used[h] = IF h = g THEN Rolled(mem).used[h] + 1 ELSE Rolled(mem).used[h]
    BY <1>1 DEF Store
  <2>4. \A h \in Groups : Used(more, h) = more.used[h]
    BY <2>2 DEF Used
  <2>5. Limit > 0
    BY <1>3, LimitAssumption
  <2> QED
    BY <1>1, <2>1, <2>2, <2>3, <2>4, <2>5
<1> QED
  BY <1>2, <1>3

LEMMA ReplyInitInv == ReplyInit => ReplyInv
<1> SUFFICES ASSUME ReplyInit PROVE ReplyInv
  OBVIOUS
<1>1. mem \in Store /\ file \in Store /\ today \in 0 .. MaxDay /\ up \in BOOLEAN
      /\ spent \in [Groups -> Nat] /\ forgot \in BOOLEAN
  <2>1. 0 \in 0 .. MaxDay /\ Zero \in [Groups -> Nat]
    BY LimitAssumption DEF Zero
  <2> QED
    BY <2>1 DEF ReplyInit, Store
<1>2. /\ pc \in [Deliveries -> {"idle", "handling", "ready", "sending"} \cup Settled]
      /\ pos \in [Deliveries -> [reply : Nat \ {0}, part : Nat \ {0}]]
  BY DEF ReplyInit, Start
<1>3. \A g \in Groups : spent[g] = 0 /\ Used(mem, g) = 0 /\ Used(file, g) = 0
  BY DEF ReplyInit, Used, Zero
<1>4. mem.day = today /\ file.day = today /\ up
  BY DEF ReplyInit
<1>5. ReplyTypeOK
  BY <1>1, <1>2 DEF ReplyTypeOK
<1>6. NeverAhead /\ CountIsTrue /\ WithinQuota
  BY <1>1, <1>3, <1>4, LimitAssumption DEF NeverAhead, CountIsTrue, WithinQuota
<1> QED
  BY <1>5, <1>6 DEF ReplyInv

\* A group message that goes out keeps the quota.
LEMMA SendGroupInv ==
  ASSUME ReplyInv, NEW d \in Deliveries, SendGroup(d)
  PROVE  ReplyInv'
<1> DEFINE g == Room[d]
<1>1. ReplyTypeOK /\ NeverAhead /\ CountIsTrue /\ WithinQuota /\ g \in Groups /\ HasRoom(g)
  BY DEF ReplyInv, SendGroup
<1>2. /\ Consumed(g) \in Store /\ Consumed(g).day = today
      /\ \A h \in Groups :
           Used(Consumed(g), h) =
             IF h = g /\ Limit > 0 THEN Used(mem, h) + 1 ELSE Used(mem, h)
  BY <1>1, ConsumeCounts
<1>3. /\ Rolled(mem) \in Store /\ Rolled(mem).day = today
      /\ \A h \in Groups : Rolled(mem).used[h] = Used(mem, h)
      /\ \A h \in Groups : Used(Rolled(mem), h) = Used(mem, h)
  BY <1>1, RollKeeps DEF ReplyTypeOK, NeverAhead
<1>4. /\ mem' = Consumed(g) /\ file' \in {file, Rolled(mem), Consumed(g)}
      /\ spent' = [spent EXCEPT ![g] = @ + 1]
      /\ today' = today /\ up' = up /\ up /\ forgot' = forgot /\ pos' = pos
      /\ pc' = [pc EXCEPT ![d] = "sending"]
  BY DEF SendGroup, Persist, Goes
<1>5. \A h \in Groups : /\ Used(mem, h) \in Nat /\ Used(file, h) \in Nat
                        /\ spent[h] \in Nat
                        /\ spent'[h] = IF h = g THEN spent[h] + 1 ELSE spent[h]
  BY <1>1, <1>4 DEF ReplyTypeOK, Store, Used
<1>6. ReplyTypeOK'
  <2>1. file' \in Store
    BY <1>1, <1>2, <1>3, <1>4 DEF ReplyTypeOK
  <2>2. pc' \in [Deliveries -> {"idle", "handling", "ready", "sending"} \cup Settled]
    BY <1>1, <1>4 DEF ReplyTypeOK
  <2>3. spent' \in [Groups -> Nat]
    BY <1>1, <1>4 DEF ReplyTypeOK
  <2> QED
    BY <1>1, <1>2, <1>4, <2>1, <2>2, <2>3 DEF ReplyTypeOK, Store, Settled
<1>7. \A s : \A h : Used(s, h)' = Used(s', h)
  BY <1>4 DEF Used
<1>8. \A h \in Groups : Used(mem, h)' = Used(Consumed(g), h)
  BY <1>4 DEF Used
<1>9. \A h \in Groups :
        Used(file, h)' \in {Used(file, h), Used(mem, h), Used(Consumed(g), h)}
  BY <1>3, <1>4 DEF Used
<1>10. NeverAhead'
  <2>1. mem'.day <= today' /\ file'.day <= today'
    BY <1>1, <1>2, <1>3, <1>4 DEF NeverAhead, ReplyTypeOK
  <2>2. ASSUME NEW h \in Groups
        PROVE  Used(mem, h)' <= spent'[h] /\ Used(file, h)' <= spent'[h]
    <3>1. Used(mem, h) <= spent[h] /\ Used(file, h) <= spent[h]
      BY <1>1 DEF NeverAhead
    <3>2. Used(Consumed(g), h) <= spent'[h]
      BY <1>2, <1>5, <3>1
    <3> QED
      BY <1>5, <1>8, <1>9, <3>1, <3>2
  <2> QED
    BY <2>1, <2>2 DEF NeverAhead
<1>11. CountIsTrue'
  <2> SUFFICES ASSUME Limit > 0, ~forgot, NEW h \in Groups
               PROVE  spent'[h] = Used(mem, h)'
    BY <1>4 DEF CountIsTrue
  <2>1. spent[h] = Used(mem, h)
    BY <1>1, <1>4 DEF CountIsTrue
  <2> QED
    BY <1>2, <1>5, <1>8, <2>1
<1>12. WithinQuota'
  <2> SUFFICES ASSUME Limit > 0, ~forgot, NEW h \in Groups
               PROVE  spent'[h] <= Limit
    BY <1>4 DEF WithinQuota
  <2>1. spent[h] <= Limit /\ spent[g] = Used(mem, g)
    BY <1>1, <1>4 DEF CountIsTrue, WithinQuota
  <2>2. Used(mem, g) < Limit
    BY <1>1, <1>3, LimitAssumption DEF HasRoom
  <2> QED
    BY <1>1, <1>5, <2>1, <2>2, LimitAssumption
<1> QED
  BY <1>6, <1>10, <1>11, <1>12 DEF ReplyInv

\* A look at a spent quota changes no count of today.
LEMMA SkipGroupInv ==
  ASSUME ReplyInv, NEW d \in Deliveries, SkipGroup(d)
  PROVE  ReplyInv'
<1>1. ReplyTypeOK /\ NeverAhead /\ CountIsTrue /\ WithinQuota
  BY DEF ReplyInv
<1>2. /\ Rolled(mem) \in Store /\ Rolled(mem).day = today
      /\ \A h \in Groups : Used(Rolled(mem), h) = Used(mem, h)
  BY <1>1, RollKeeps DEF ReplyTypeOK, NeverAhead
<1>3. /\ mem' = Rolled(mem) /\ file' \in {file, Rolled(mem)}
      /\ spent' = spent /\ today' = today /\ up' = up /\ up /\ forgot' = forgot /\ pc' = pc
      /\ pos' = [pos EXCEPT ![d].part = Reply(d).pieces + 1]
  BY DEF SkipGroup
<1>4. Reply(d).pieces \in Nat
  <2>1. pos[d].reply \in Nat /\ RepliesLeft(d) /\ Replies[d] \in Seq([pieces : Nat, followups : Nat])
    BY <1>1, RepliesAssumption DEF SkipGroup, PieceNext, ReplyTypeOK
  <2>2. pos[d].reply \in 1 .. Len(Replies[d])
    BY <1>1, <2>1 DEF RepliesLeft, ReplyTypeOK
  <2> QED
    <3>1. Replies[d][pos[d].reply] \in [pieces : Nat, followups : Nat]
      BY <2>1, <2>2, ElementOfSeq
    <3> QED
      BY <3>1 DEF Reply
<1>5. ReplyTypeOK'
  BY <1>1, <1>2, <1>3, <1>4 DEF ReplyTypeOK
<1>6. \A h \in Groups : /\ Used(mem, h)' = Used(mem, h)
                        /\ Used(file, h)' \in {Used(file, h), Used(mem, h)}
  BY <1>2, <1>3 DEF Used
<1> QED
  BY <1>1, <1>2, <1>3, <1>5, <1>6
  DEF ReplyInv, NeverAhead, CountIsTrue, WithinQuota, ReplyTypeOK
\* A new day starts every group at nothing, on disk and in memory.
LEMMA NextDayInv ==
  ASSUME ReplyInv, NextDay
  PROVE  ReplyInv'
<1>1. ReplyTypeOK /\ NeverAhead
  BY DEF ReplyInv
<1>2. /\ mem' = mem /\ file' = file /\ today' = today + 1 /\ today < MaxDay
      /\ spent' = Zero /\ up' = up /\ forgot' = FALSE /\ pc' = pc /\ pos' = pos
  BY DEF NextDay
<1>3. mem.day \in Nat /\ file.day \in Nat /\ today \in 0 .. MaxDay
      /\ mem.day <= today /\ file.day <= today
  BY <1>1, LimitAssumption DEF ReplyTypeOK, NeverAhead, Store
<1>4. \A g \in Groups : Used(mem, g)' = 0 /\ Used(file, g)' = 0 /\ spent'[g] = 0
  BY <1>2, <1>3 DEF Used, Zero
<1>5. ReplyTypeOK'
  <2>1. today' \in 0 .. MaxDay
    BY <1>2, <1>3, LimitAssumption
  <2>2. spent' \in [Groups -> Nat] /\ forgot' \in BOOLEAN
    BY <1>2 DEF Zero
  <2> QED
    BY <1>1, <1>2, <2>1, <2>2 DEF ReplyTypeOK, Store
<1>6. NeverAhead'
  BY <1>2, <1>3, <1>4 DEF NeverAhead
<1>7. CountIsTrue'
  BY <1>4, <1>2 DEF CountIsTrue
<1>8. WithinQuota'
  BY <1>4, LimitAssumption DEF WithinQuota
<1> QED
  BY <1>5, <1>6, <1>7, <1>8 DEF ReplyInv

\* A crash leaves the copy on disk to be the count.
LEMMA CrashInv ==
  ASSUME ReplyInv, Crash
  PROVE  ReplyInv'
<1>1. ReplyTypeOK /\ NeverAhead /\ CountIsTrue /\ WithinQuota
  BY DEF ReplyInv
<1>2. /\ mem' = mem /\ file' = file /\ today' = today /\ spent' = spent /\ pos' = pos
      /\ up /\ up' = FALSE
      /\ forgot' = (forgot \/ \E g \in Groups : Used(file, g) # Used(mem, g))
      /\ pc' = [d \in Deliveries |-> IF pc[d] \in Settled \cup {"idle"} THEN pc[d] ELSE "lost"]
  BY DEF Crash
<1>3. \A g \in Groups : Used(mem, g)' = Used(mem, g) /\ Used(file, g)' = Used(file, g)
  BY <1>2 DEF Used
<1>4. pc' \in [Deliveries -> {"idle", "handling", "ready", "sending"} \cup Settled]
  BY <1>1, <1>2 DEF ReplyTypeOK, Settled
<1>5. ReplyTypeOK'
  BY <1>1, <1>2, <1>4 DEF ReplyTypeOK
<1>6. NeverAhead'
  BY <1>1, <1>2, <1>3 DEF NeverAhead
<1>7. CountIsTrue'
  <2> SUFFICES ASSUME Limit > 0, ~forgot', NEW g \in Groups
               PROVE  spent'[g] = Used(file, g)'
    BY <1>2 DEF CountIsTrue
  <2>1. ~forgot /\ Used(file, g) = Used(mem, g)
    BY <1>2
  <2>2. spent[g] = Used(mem, g)
    BY <1>1, <1>2, <2>1 DEF CountIsTrue
  <2> QED
    BY <1>2, <1>3, <2>1, <2>2
<1>8. WithinQuota'
  BY <1>1, <1>2 DEF WithinQuota
<1> QED
  BY <1>5, <1>6, <1>7, <1>8 DEF ReplyInv

\* A restart counts on from the copy.
LEMMA RestartInv ==
  ASSUME ReplyInv, Restart
  PROVE  ReplyInv'
<1>1. ReplyTypeOK /\ NeverAhead /\ CountIsTrue /\ WithinQuota
  BY DEF ReplyInv
<1>2. /\ mem' = file /\ file' = file /\ today' = today /\ spent' = spent
      /\ ~up /\ up' = TRUE /\ forgot' = forgot /\ pc' = pc /\ pos' = pos
  BY DEF Restart
<1>3. \A g \in Groups : Used(mem, g)' = Used(file, g) /\ Used(file, g)' = Used(file, g)
  BY <1>2 DEF Used
<1>4. ReplyTypeOK'
  BY <1>1, <1>2 DEF ReplyTypeOK
<1>5. NeverAhead'
  BY <1>1, <1>2, <1>3 DEF NeverAhead
<1>6. CountIsTrue' /\ WithinQuota'
  BY <1>1, <1>2, <1>3 DEF CountIsTrue, WithinQuota
<1> QED
  BY <1>4, <1>5, <1>6 DEF ReplyInv

\* What a delivery does besides sending to a group touches no count.
LEMMA QuietInv ==
  ASSUME ReplyInv, UNCHANGED <<today, up, mem, file, spent, forgot>>,
         pc' \in [Deliveries -> {"idle", "handling", "ready", "sending"} \cup Settled],
         pos' \in [Deliveries -> [reply : Nat \ {0}, part : Nat \ {0}]]
  PROVE  ReplyInv'
  BY DEF ReplyInv, ReplyTypeOK, NeverAhead, CountIsTrue, WithinQuota, Used

LEMMA ReplyStepInv == ReplyInv /\ [ReplyNext]_vars => ReplyInv'
<1> SUFFICES ASSUME ReplyInv, [ReplyNext]_vars PROVE ReplyInv'
  OBVIOUS
<1> DEFINE PcOK == pc' \in [Deliveries -> {"idle", "handling", "ready", "sending"} \cup Settled]
           PosOK == pos' \in [Deliveries -> [reply : Nat \ {0}, part : Nat \ {0}]]
           Still == UNCHANGED <<today, up, mem, file, spent, forgot>>
<1>1. ReplyTypeOK
  BY DEF ReplyInv
<1>2. ASSUME NEW d \in Deliveries, Event(d) \/ HandlerAnswers(d) \/ HandlerThrows(d)
      PROVE  ReplyInv'
  <2>1. Still /\ PcOK /\ PosOK
    BY <1>1, <1>2 DEF Event, HandlerAnswers, HandlerThrows, Goes, ReplyTypeOK, Settled
  <2> QED
    BY <2>1, QuietInv
<1>3. ASSUME NEW d \in Deliveries, SendPrivate(d) \/ SendOk(d) \/ SendFails(d)
      PROVE  ReplyInv'
  <2>1. Still /\ PcOK /\ PosOK
    BY <1>1, <1>3 DEF SendPrivate, SendOk, SendFails, Goes, ReplyTypeOK, Settled
  <2> QED
    BY <2>1, QuietInv
<1>4. ASSUME NEW d \in Deliveries, NextReply(d) \/ Finish(d)
      PROVE  ReplyInv'
  <2>1. Still /\ PcOK /\ PosOK
    BY <1>1, <1>4 DEF NextReply, Finish, Goes, ReplyTypeOK, Settled
  <2> QED
    BY <2>1, QuietInv
<1>5. CASE UNCHANGED vars
  BY <1>1, <1>5, QuietInv DEF vars, ReplyTypeOK
<1> QED
  BY <1>2, <1>3, <1>4, <1>5, SendGroupInv, SkipGroupInv, NextDayInv, CrashInv, RestartInv
  DEF ReplyNext, Step

THEOREM ReplyInvHolds == ReplySpec => []ReplyInv
  BY ReplyInitInv, ReplyStepInv, PTL DEF ReplySpec

(* The variables keep their types: the states of a delivery, the store and *)
(* its copy (deliverReplies, createGroupDailyQuotaStore).                  *)
THEOREM ReplyTypeOKHolds == ReplySpec => []ReplyTypeOK
<1>1. ReplyInv => ReplyTypeOK
  BY DEF ReplyInv
<1> QED
  BY <1>1, ReplyInvHolds, PTL

(* However many deliveries and restarts, no group gets more messages in a  *)
(* day than the quota, while no count was lost in a crash.                 *)
THEOREM WithinQuotaHolds == ReplySpec => []WithinQuota
<1>1. ReplyInv => WithinQuota
  BY DEF ReplyInv
<1> QED
  BY <1>1, ReplyInvHolds, PTL

(* tryConsume counts each message to a group once, over restarts and the   *)
(* end of a day.                                                           *)
THEOREM CountIsTrueHolds == ReplySpec => []CountIsTrue
<1>1. ReplyInv => CountIsTrue
  BY DEF ReplyInv
<1> QED
  BY <1>1, ReplyInvHolds, PTL

(* A lost count only ever lets more through: nothing is counted that was   *)
(* not sent, and nothing of today is counted as of tomorrow.               *)
THEOREM NeverAheadHolds == ReplySpec => []NeverAhead
<1>1. ReplyInv => NeverAhead
  BY DEF ReplyInv
<1> QED
  BY <1>1, ReplyInvHolds, PTL

(* sendChunked drops a piece only when its group had its messages of the   *)
(* day, also when a count was lost.                                        *)
THEOREM RefusedOnlyWhenSpentHolds == ReplySpec => RefusedOnlyWhenSpent
<1>1. ASSUME ReplyInv, NEW d \in Deliveries, SkipGroup(d)
      PROVE  spent[Room[d]] >= Limit
  <2> DEFINE g == Room[d]
  <2>1. g \in Groups /\ ~HasRoom(g) /\ ReplyTypeOK /\ NeverAhead
    BY <1>1 DEF SkipGroup, ReplyInv
  <2>2. Rolled(mem) \in Store /\ Rolled(mem).used[g] = Used(mem, g)
    BY <2>1, RollKeeps DEF ReplyTypeOK, NeverAhead
  <2>3. Used(mem, g) \in Nat /\ spent[g] \in Nat /\ Used(mem, g) <= spent[g]
    BY <2>1 DEF ReplyTypeOK, NeverAhead, Store, Used
  <2>4. Used(mem, g) >= Limit
    BY <2>1, <2>2, <2>3, LimitAssumption DEF HasRoom
  <2> QED
    BY <2>3, <2>4, LimitAssumption
<1>2. ReplyInv => [DropsAreDue]_vars
  BY <1>1 DEF DropsAreDue
<1> QED
  BY <1>2, ReplyInvHolds, PTL DEF RefusedOnlyWhenSpent

(* The quota is exact: kept, and its counter is what was sent.             *)
THEOREM QuotaIsExactHolds == ReplySpec => []QuotaIsExact
<1>1. WithinQuota /\ CountIsTrue => QuotaIsExact
  BY DEF QuotaIsExact
<1> QED
  BY <1>1, WithinQuotaHolds, CountIsTrueHolds, PTL

(* It is kept, and nothing is dropped before it is spent.                  *)
THEOREM QuotaIsKeptHolds == ReplySpec => QuotaIsKept
BY QuotaIsExactHolds, RefusedOnlyWhenSpentHolds, PTL DEF QuotaIsKept, RefusedOnlyWhenSpent
=============================================================================
