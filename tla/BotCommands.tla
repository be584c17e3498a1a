----------------------------- MODULE BotCommands -----------------------------
(***************************************************************************)
(* What the QQ bot does with a command: parseCommand, CommandHandler and   *)
(* the requests of GuildApiCommandService to the API, up to the answer     *)
(* that ReplyDelivery sends. Commands run concurrently: every request to   *)
(* the API is an await, so other commands and roster uploads come between. *)
(*                                                                         *)
(* A text is the sequence of its words; the aliases of a command are one   *)
(* word. A request may fail before the API sees it or lose its answer.     *)
(* Commands that other modules are about (the combat test run, the life    *)
(* and aura assignments, the signup check) are only let through here.      *)
(***************************************************************************)
EXTENDS Naturals, Sequences, FiniteSets

CONSTANTS
    Messages, Sender, Says,    \* what arrives, from whom, and what it may say: sequences of words
    Users, Listed, Trusted,    \* MWI_QQ_ADMIN_IDS; owners and admins of trusted groups
    Names, Fold,               \* names and what they are ignoring case
    Gear,                      \* the stored snapshot of each name, see Fit and Old
    CombatTypes, AuraTypes, Levels,
    MinAttack, MinWeapon,      \* GUILD_TRIAL_MIN_ATTACK_LEVEL, WEAPON_ENHANCEMENT_ALERT_BELOW
    ShieldsKept,               \* of both sides together, keepTopShieldsByDefense
    MaxSyncs                   \* bounds the roster uploads

\* A guild has so many members, and who writes has a number.
ASSUME BotAssumption == IsFiniteSet(Names) /\ Sender \in [Messages -> Users]

VARIABLES
    text,       \* the words of each message
    active,     \* the members the API lists
    bound,      \* its qq_bindings: none, or the QQ and type of a name
    aura,       \* its auras: the level of each name and type
    job,        \* of each message: where its handler stands and what it has read
    did,        \* ghost: the names whose rows it changed, in order
    steady,     \* ghost: the members that were bound ever since it arrived
    syncs

botVars == <<text, active, bound, aura, job, did, steady, syncs>>

Unbound == [qq |-> "none", type |-> "none"]
-----------------------------------------------------------------------------
(* The parser                                                              *)

Reports == {"guild-roster", "profession-distribution", "optimization-audit",
            "unavailable-roster", "equipment-check", "missing-uploads", "expired-uploads"}
Texts == {"help", "help-admin", "promote-test-assignment"}
Elsewhere == {"latest-combat-assignment", "start-test-assignment", "generate-life-assignment"}
SimpleCommands == Reports \cup Texts \cup Elsewhere \cup {"start-assignment"}

\* Everything may be missing but the kind.
Command == [kind |-> "ignored", name |-> "none", qq |-> "none", type |-> "none", level |-> "none"]
Usage == [Command EXCEPT !.kind = "usage"]

ParseBind(t) ==
    IF Len(t) \notin {3, 4} \/ t[Len(t)] \notin CombatTypes \/ (Len(t) = 4 /\ t[3] \notin Users)
    THEN Usage
    ELSE [Command EXCEPT !.kind = "bind-combat", !.name = t[2], !.type = t[Len(t)],
                         !.qq = IF Len(t) = 4 THEN t[3] ELSE "none"]

ParseRebind(t) ==
    IF Len(t) # 4 \/ t[3] \notin Users \/ t[4] \notin CombatTypes THEN Usage
    ELSE [Command EXCEPT !.kind = "rebind-combat", !.name = t[2], !.qq = t[3], !.type = t[4]]

ParseUnbind(t) ==
    IF Len(t) # 2 THEN Usage ELSE [Command EXCEPT !.kind = "unbind-combat", !.name = t[2]]

ParseAura(t) ==
    IF Len(t) \notin {3, 4} \/ t[Len(t) - 1] \notin AuraTypes \/ t[Len(t)] \notin Levels
    THEN Usage
    ELSE [Command EXCEPT !.kind = "set-aura", !.name = IF Len(t) = 4 THEN t[2] ELSE "none",
                         !.type = t[Len(t) - 1], !.level = t[Len(t)]]

\* A simulation with "#" and names to leave out: rejectRetiredExclusion.
parseCommand(t) ==
    IF t = <<>> THEN Command
    ELSE CASE Len(t) = 1 /\ t[1] \in SimpleCommands -> [Command EXCEPT !.kind = t[1]]
           [] t[1] = "retired-exclusion" -> Usage
           [] t[1] = "bind" -> ParseBind(t)
           [] t[1] = "rebind" -> ParseRebind(t)
           [] t[1] = "unbind" -> ParseUnbind(t)
           [] t[1] = "aura" -> ParseAura(t)
           [] OTHER -> Command

AdminCommands ==
    {"help-admin", "start-assignment", "start-test-assignment", "generate-life-assignment",
     "promote-test-assignment", "optimization-audit", "unavailable-roster", "equipment-check",
     "missing-uploads", "expired-uploads", "unbind-combat", "rebind-combat"}
-----------------------------------------------------------------------------
(* Reports, from the members and the bindings that were read: a set of     *)
(* members, and the names with a binding. A member has one binding at      *)
(* most, so that the counts in the texts are those of these sets.          *)

Fit(n) == Gear[n].uploaded /\ Gear[n].attack >= MinAttack
Old(n) == Gear[n].uploaded /\ Gear[n].days > 7

\* assessCombatMemberReadiness
Usable(n, b) == Fit(n) /\ b[n].type \in Gear[n].builds

HasBinding(b) == {n \in Names : b[n] # Unbound}
Bound(members, b) == members \cap HasBinding(b)

\* keepTopShieldsByDefense, ranked by defence and then by name.
ShieldsAhead(n, shields) ==
    {o \in shields : \/ Gear[o].defense > Gear[n].defense
                     \/ Gear[o].defense = Gear[n].defense /\ Gear[o].place < Gear[n].place}
DroppedShields(shields) ==
    {n \in shields : Cardinality(ShieldsAhead(n, shields)) >= ShieldsKept}

formatUnavailableRoster(members, b) ==
    LET usable == {n \in Bound(members, b) : Usable(n, b)}
    IN  (Bound(members, b) \ usable) \cup DroppedShields({n \in usable : b[n].type = "shield"})

\* The lists "uploaded but unbound" and "bound but not uploaded" are these, met.
formatOptimizationAudit(members, b) ==
    [unbound |-> members \ HasBinding(b), missing |-> {n \in members : ~Gear[n].uploaded},
     weak |-> {n \in Bound(members, b) : ~Fit(n)}]

formatProfessionDistribution(members, b) ==
    [fit |-> {n \in Bound(members, b) : Fit(n)}, weak |-> {n \in Bound(members, b) : ~Fit(n)},
     unbound |-> members \ HasBinding(b)]

\* Who of those that could take part carries a weapon below the mark.
formatWeaponEnhancementCheck(members, b) ==
    {n \in Bound(members, b) : Usable(n, b) /\ Gear[n].weapon < MinWeapon}

\* The names of the group are there only when the chat is one and they could be fetched.
formatMissingUploads(members, grouped) ==
    LET missing == {n \in members : ~Gear[n].uploaded}
    IN  [missing |-> missing, strangers |-> {n \in missing : grouped /\ ~Gear[n].carded}]

ReportOf(m) ==
    LET j == job[m]
    IN  CASE j.command.kind = "guild-roster" ->
               [uploaded |-> {n \in j.members : Gear[n].uploaded},
                unbound |-> j.members \ HasBinding(j.bindings)]
          [] j.command.kind = "profession-distribution" ->
               formatProfessionDistribution(j.members, j.bindings)
          [] j.command.kind = "optimization-audit" ->
               formatOptimizationAudit(j.members, j.bindings)
          [] j.command.kind = "unavailable-roster" ->
               [unavailable |-> formatUnavailableRoster(j.members, j.bindings),
                removed |-> j.removed]
          [] j.command.kind = "equipment-check" ->
               [alerts |-> formatWeaponEnhancementCheck(j.members, j.bindings)]
          [] j.command.kind = "missing-uploads" -> formatMissingUploads(j.members, j.grouped)
          [] j.command.kind = "expired-uploads" -> [expired |-> {n \in j.members : Old(n)}]

ReadsBindings == Reports \ {"expired-uploads"}
Prunes == {"unavailable-roster", "equipment-check", "missing-uploads"}
-----------------------------------------------------------------------------
NoLists == [none |-> {}]
Idle == [pc |-> "idle", admin |-> FALSE, grouped |-> FALSE, command |-> Command,
         target |-> "none", members |-> {}, bindings |-> [n \in Names |-> Unbound],
         unread |-> {}, stale |-> <<>>, removed |-> {}, owned |-> {}, says |-> "pending", lists |-> NoLists]

At(m, pc) == job[m].pc = pc
KindOf(m) == job[m].command.kind

Moves(m, j) == job' = [job EXCEPT ![m] = j]
Answers(m, says) == Moves(m, [job[m] EXCEPT !.pc = "answered", !.says = says])
OnlyTheJob == UNCHANGED <<text, active, bound, aura, did, syncs>>

\* The API changes nothing of the kind and the handler goes on.
Fails(m) == Answers(m, "unavailable") /\ OnlyTheJob

\* createOneBotCommandHandler: a role that cannot be looked up is none.
Receive(m) ==
    /\ At(m, "idle")
    /\ \E admin \in IF Sender[m] \in Listed THEN {TRUE}
                    ELSE IF Sender[m] \in Trusted THEN BOOLEAN ELSE {FALSE},
          grouped \in IF text[m] = <<"missing-uploads">> THEN BOOLEAN ELSE {FALSE} :
         Moves(m, [job[m] EXCEPT !.pc = "parsed", !.admin = admin, !.grouped = grouped,
                                 !.command = parseCommand(text[m])])
    /\ OnlyTheJob

Allowed(m) == KindOf(m) \in AdminCommands => job[m].admin

\* A bug: the number of another may be given.
OwnNumberMutant(m) == TRUE

\* The check of #bindCombat.
OwnNumber(m) ==
    KindOf(m) = "bind-combat" /\ job[m].command.qq \notin {"none", Sender[m]} => job[m].admin

\* No answer, the usage, a refusal, or a text there is no request for.
AnswerAtOnce(m) ==
    /\ At(m, "parsed")
    /\ \/ KindOf(m) = "ignored" /\ Answers(m, "nothing")
       \/ KindOf(m) = "usage" /\ Answers(m, "usage")
       \/ (~Allowed(m) \/ ~OwnNumber(m)) /\ Answers(m, "denied")
       \/ Allowed(m) /\ KindOf(m) \in Texts \cup Elsewhere /\ Answers(m, "text")
    /\ OnlyTheJob

\* startOfficialAssignment is not connected, whatever the health of the API.
StartOfficial(m) ==
    /\ At(m, "parsed") /\ Allowed(m) /\ KindOf(m) = "start-assignment"
    /\ Fails(m)

Writes(m) == KindOf(m) \in {"bind-combat", "rebind-combat", "unbind-combat", "set-aura"}

\* Whose aura it is has to be looked up first.
OwnFirst(m) ==
    KindOf(m) = "set-aura" /\ (job[m].command.name = "none" \/ ~job[m].admin)

OwnedBy(q) == {n \in Names : bound[n].qq = q}

\* #setAura, up to the answer of getCombatBindingsForUser.
LookUpOwn(m) ==
    /\ At(m, "parsed") /\ OwnFirst(m)
    /\ LET named == job[m].command.name # "none"
           own == OwnedBy(Sender[m])
       IN  \/ Answers(m, "unavailable")
           \/ named /\ job[m].command.name \notin own /\ Answers(m, "not yours")
           \/ ~named /\ Cardinality(own) # 1 /\ Answers(m, "which one")
           \/ /\ IF named THEN job[m].command.name \in own ELSE Cardinality(own) = 1
              /\ Moves(m, [job[m] EXCEPT !.pc = "owned", !.owned = own,
                             !.target = IF named THEN job[m].command.name
                                        ELSE CHOOSE n \in own : TRUE])
    /\ OnlyTheJob

\* isCurrentGuildMember: whoever bears the name, ignoring case.
Bearers(name) == {n \in active : Fold[n] = Fold[name]}

\* #forCurrentMember: the listed name is the one that is written to.
FindMember(m) ==
    /\ \/ At(m, "owned")
       \/ At(m, "parsed") /\ Writes(m) /\ Allowed(m) /\ OwnNumber(m) /\ ~OwnFirst(m)
    /\ LET name == IF At(m, "owned") THEN job[m].target ELSE job[m].command.name
       IN  \/ Answers(m, "unavailable")
           \/ Bearers(name) = {} /\ Answers(m, "no member")
           \/ \E n \in Bearers(name) : Moves(m, [job[m] EXCEPT !.pc = "found", !.target = n])
    /\ OnlyTheJob

\* What the API checks: a member for a binding or an aura, a row for a removal.
Accepts(m) ==
    IF KindOf(m) = "unbind-combat" THEN bound[job[m].target] # Unbound ELSE job[m].target \in active

NewBinding(m) ==
    IF KindOf(m) = "unbind-combat" THEN Unbound
    ELSE [qq |-> IF job[m].command.qq = "none" THEN Sender[m] ELSE job[m].command.qq,
          type |-> job[m].command.type]

NewAura(m) == [aura EXCEPT ![job[m].target][job[m].command.type] = job[m].command.level]

\* bindCombat, rebindCombat, unbindCombat, setAura with the handler of each in the API.
WriteRow(m) ==
    /\ At(m, "found") /\ Accepts(m)
    /\ LET n == job[m].target
       IN  /\ IF KindOf(m) = "set-aura"
              THEN aura' = NewAura(m) /\ UNCHANGED bound
              ELSE bound' = [bound EXCEPT ![n] = NewBinding(m)] /\ UNCHANGED aura
           /\ did' = [did EXCEPT ![m] = Append(@, n)]
    /\ \E says \in {"done", "unavailable"} : Answers(m, says)
    /\ UNCHANGED <<text, active, syncs>>

WriteFails(m) ==
    /\ At(m, "found")
    /\ Fails(m)

\* The two requests of a report go out together; what each finds is what was there then.
StartReport(m) ==
    /\ At(m, "parsed") /\ Allowed(m) /\ KindOf(m) \in Reports
    /\ Moves(m, [job[m] EXCEPT !.pc = "reading", !.unread =
                   {"members"} \cup IF KindOf(m) \in ReadsBindings THEN {"bindings"} ELSE {}])
    /\ OnlyTheJob

ReadMembers(m) ==
    /\ At(m, "reading") /\ "members" \in job[m].unread
    /\ Moves(m, [job[m] EXCEPT !.unread = @ \ {"members"}, !.members = active])
    /\ OnlyTheJob

ReadBindings(m) ==
    /\ At(m, "reading") /\ "bindings" \in job[m].unread
    /\ Moves(m, [job[m] EXCEPT !.unread = @ \ {"bindings"}, !.bindings = bound])
    /\ OnlyTheJob

ReadFails(m) ==
    /\ At(m, "reading") /\ job[m].unread # {}
    /\ Fails(m)

ByPlace(S) == {s \in [1 .. Cardinality(S) -> S] :
                \A i, k \in 1 .. Cardinality(S) : i < k => Gear[s[i]].place < Gear[s[k]].place}

\* listStaleBindingMemberIds
ListStale(m) ==
    /\ At(m, "reading") /\ job[m].unread = {} /\ KindOf(m) \in Prunes
    /\ \E stale \in ByPlace(HasBinding(job[m].bindings) \ job[m].members) :
         Moves(m, [job[m] EXCEPT !.pc = "pruning", !.stale = stale])
    /\ OnlyTheJob

Pruned(m, removed) ==
    Moves(m, [job[m] EXCEPT !.stale = Tail(@), !.removed = @ \cup removed])

\* One removal of #pruneStaleBindings; its answer may be lost.
PruneRow(m) ==
    /\ At(m, "pruning") /\ job[m].stale # <<>>
    /\ LET n == Head(job[m].stale)
       IN  /\ bound[n] # Unbound
           /\ bound' = [bound EXCEPT ![n] = Unbound]
           /\ did' = [did EXCEPT ![m] = Append(@, n)]
           /\ \E heard \in BOOLEAN : Pruned(m, IF heard THEN {n} ELSE {})
    /\ UNCHANGED <<text, active, aura, syncs>>

\* A bug: a removal that failed is reported all the same.
PruneFailsMutant(m) ==
    /\ At(m, "pruning") /\ job[m].stale # <<>>
    /\ Pruned(m, {Head(job[m].stale)})
    /\ OnlyTheJob

\* No row any more, or no API: the next one.
PruneFails(m) ==
    /\ At(m, "pruning") /\ job[m].stale # <<>>
    /\ Pruned(m, {})
    /\ OnlyTheJob

Report(m) ==
    /\ \/ At(m, "reading") /\ job[m].unread = {} /\ KindOf(m) \notin Prunes
       \/ At(m, "pruning") /\ job[m].stale = <<>>
    /\ Moves(m, [job[m] EXCEPT !.pc = "answered", !.says = "report", !.lists = ReportOf(m)])
    /\ OnlyTheJob

\* A member's script uploads the roster: GuildRoster has the whole of it. Auras stay.
SyncRoster ==
    /\ syncs < MaxSyncs
    /\ \E roster \in SUBSET {n \in Names : Gear[n].listed} :
         /\ roster # {}
         /\ active' = roster
         /\ bound' = [n \in Names |-> IF n \in roster THEN bound[n] ELSE Unbound]
    /\ syncs' = syncs + 1
    /\ UNCHANGED <<text, aura, job, did>>

BotInitFrom(members, bindings) ==
    /\ text \in {f \in [Messages -> UNION {Says[m] : m \in Messages}] :
                  \A m \in Messages : f[m] \in Says[m]}
    /\ active = members
    /\ bound = bindings
    /\ aura = [n \in Names |-> [a \in AuraTypes |-> "none"]]
    /\ job = [m \in Messages |-> Idle]
    /\ did = [m \in Messages |-> <<>>]
    /\ steady = [m \in Messages |-> {}]
    /\ syncs = 0

\* Rows may be left of who is a member no longer.
Rows == [qq : Users \cup {"none"}, type : CombatTypes \cup {"none"}]
BotInit == \E members \in SUBSET Names, bindings \in [Names -> Rows] : BotInitFrom(members, bindings)

HandlerSteps(m) ==
    \/ Receive(m) \/ AnswerAtOnce(m) \/ StartOfficial(m)
    \/ LookUpOwn(m) \/ FindMember(m) \/ WriteRow(m) \/ WriteFails(m)
    \/ StartReport(m) \/ ReadMembers(m) \/ ReadBindings(m) \/ ReadFails(m)
    \/ ListStale(m) \/ PruneRow(m) \/ PruneFails(m) \/ Report(m)

\* The ghost: what was bound when a message came and is so still.
Follow ==
    steady' = [m \in Messages |->
                 IF ~At(m, "idle") THEN steady[m] \cap Bound(active', bound')
                 ELSE IF job'[m].pc = "idle" THEN {} ELSE Bound(active, bound)]

BotNext == (SyncRoster \/ \E m \in Messages : HandlerSteps(m)) /\ Follow

BotSpec == BotInit /\ [][BotNext]_botVars

-----------------------------------------------------------------------------
\* The answers after which nothing was changed.
Quiet == {"nothing", "usage", "denied", "text", "not yours", "which one", "no member"}

Lists(m, l) == IF l \in DOMAIN job[m].lists THEN job[m].lists[l] ELSE {}

(* What the bot says is so, whatever other commands, roster uploads and     *)
(* lost requests came between the awaits of CommandHandler: a refusal      *)
(* changed nothing, "done" changed one row, the removals it names it made, *)
(* and no report calls a member unbound who was a bound member all along.  *)
RepliesAreTrue ==
    \A m \in Messages :
      /\ job[m].says \in Quiet => did[m] = <<>>
      /\ job[m].says = "done" => did[m] = <<job[m].target>>
      /\ Writes(m) => Len(did[m]) <= 1
      /\ Lists(m, "removed") \subseteq {did[m][i] : i \in DOMAIN did[m]}
      /\ Lists(m, "removed") \cap steady[m] = {}
      /\ Lists(m, "unbound") \cap steady[m] = {}

\* The commands that may have done a step: those whose rows it changed.
Doer(m) == did'[m] # did[m]

(* Bindings and auras change on the word of an administrator or of the one *)
(* they are about: a number is bound by its owner, only administrators      *)
(* unbind, reports remove nobody who was a bound member while they read,   *)
(* and an aura is set by who owned the name, or the name it stands for.    *)
CommandsKeepAuthority ==
    [][\A m \in Messages : Doer(m) =>
         LET n == did'[m][Len(did'[m])]
         IN  CASE KindOf(m) = "bind-combat" -> job[m].admin \/ bound'[n].qq = Sender[m]
               [] KindOf(m) \in {"rebind-combat", "unbind-combat"} -> job[m].admin
               [] KindOf(m) = "set-aura" ->
                    \/ job[m].admin
                    \/ job[m].owned \cap {o \in Names : Fold[o] = Fold[n]} # {}
               [] OTHER -> job[m].admin /\ n \notin steady[m]]_botVars

(* The text of a report calls the bindings it removed those of members who *)
(* left the guild: no removal takes the binding of one who is a member.    *)
PruneTakesLeaversOnly ==
    [][\A m \in Messages :
         Doer(m) /\ KindOf(m) \in Prunes => did'[m][Len(did'[m])] \notin active]_botVars
=============================================================================
