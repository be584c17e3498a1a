# TLA+ models of the MWI guild trial simulator

This directory holds TLA+ specifications of the parts of the repository that
decide something over time, or that search for something: what the QQ bot
starts, tells and forgets; who is on the roster and what a week's tables say;
what the userscript captures and uploads; how the labs split a guild and their
scripts rewrite the plan; which files a chat is shown; and how the simulators
order their events. TLC checks them on small instances; TLAPS proves nearly all
safety properties of thirteen modules for every value of the constants.

* [1. The system](#1-the-system)
* [2. Modules](#2-modules)
* [3. What each run checks](#3-what-each-run-checks)
* [4. Disagreements found](#4-disagreements-found)
* [5. What is proved](#5-what-is-proved)
* [6. What is only model-checked, and what is not modelled](#6-what-is-only-model-checked-and-what-is-not-modelled)
* [7. Plan](#7-plan)
* [8. Running the checks](#8-running-the-checks)

`PROJECT.json` lists the same things for tools: components, runs, the lines
each definition translates, the hazards with the properties that cover them,
and, per property, a plausible bug of the code (a "mutant") that makes TLC
refute it. Mutants stand in the modules directly above the definition they
change; nothing else uses them.

## 1. The system

| component | where | state it keeps | operations | what is hard |
|---|---|---|---|---|
| Combat test run | `apps/qq-bot/src/combat-test-run.ts`, `scripts/run-qq-combat-test-job.mjs`, `apps/qq-bot/server.mjs` | one JSON state file; a detached wrapper process and the pipeline it waits for; the poller's flag | start, stop, progress (which reconciles dead jobs), the poller's tick, the wrapper's writes | two processes write one file without a lock; writes are not atomic; the poller reads before an await and writes after it; processes die |
| combat-core queue and loop | `packages/combat-core/src` | a binary heap with a set of cancelled ids; the clock | schedule, cancel, peek, pop, clear; run | lazy cancellation inside a heap; processors that schedule, cancel and throw |
| Trial runner on that loop | `packages/guild-trial-core/src/runner.ts` | bosses, members' mana, kills, damage | strikes, regeneration, spawns, the deadline and the result | three kinds of events at one instant; several ways out of one handler |
| Guild trial combat engine | `packages/shykai-full-runtime/generated/src/combatsimulator` | event queue, units, level | one handler per event type | a unit lives by the events queued for it: a lost one freezes it, a spare one lets it act twice or when dead |
| Guild trial zone, seeding, summary | `packages/shykai-full-runtime/*.mjs` | the zone: level, wave, whether it is complete | spawn, complete, summarise | the level of the zone and the encounters of the engine are two counters |
| API: rosters and bindings | `apps/api/server.mjs` | tables members, bindings, tokens, uploads (SQLite) | upload of a roster, manual members, QQ bindings, provisioning, tokens, registrations, restart | pruning a roster must take bindings along; three notions of "the same name" |
| API: member snapshots | `apps/api/server.mjs` | latest snapshot per member | two upload routes | permission is checked before the body is awaited, storage follows after it; carrying forward of fields |
| API: weekly trials, registrations, assignments | `apps/api/server.mjs` | append-only tables, of which the latest row is served | PUT/POST/GET routes | rows of old weeks stay; capacities carried forward; a page that slept through the new week |
| API: jobs, versions, auras, rate limit | `apps/api/server.mjs` | rows by key; a window of upload times | routes | little: see section 6 |
| Reply delivery and quota | `apps/qq-bot/src/onebot`, `apps/qq-bot/src/core`, `apps/qq-bot/server.mjs` | count per group and day, in memory and on disk; deliveries in the background | take one from the quota, send, follow up, persist | deliveries overlap; sending fails; a crash loses a count; a day ends between two messages |
| Bot commands and reports | `apps/qq-bot/src/core`, `apps/qq-bot/src/api-client.ts` | none; several requests per command | parse, authorise, bind, re-bind, unbind, auras, five reports that prune bindings | each request is an await between which everything may change; a request that failed may have been carried out |
| Signup check, life assignment, unique auras | `apps/qq-bot/src` | a report image and its manifest on disk | generate, store, render, look up; compare assignments with signups; search for casters | five requests answered in any order; two files written one after the other; a search with a bound |
| Combat report | `scripts/render-and-send-available-roster-report.mjs`, `scripts/run-qq-*.mjs`, `apps/qq-bot/src/api-client.ts` | up to three directories of images with a manifest; the latest plan in the API | lab, render, publish, copy; show; upload | no directory has a lock, each file is an await of its own |
| Life trial optimizer | `packages/guild-trial-core/src/life-trial*.ts` | none | pins, greedy choice, passes of exchanges | ties, reserved places, names in two spellings, whether the passes end |
| Weekly combat partition and lab | `scripts/weekly-combat-partition.mjs`, `scripts/run-available-roster-composition-lab.mjs`, `packages/optimizer` | none | split, caps, pins, overflow, exchanges, kits, aura carriers, screening | each step may undo what one before it settled |
| Scripts that rewrite the plan | `scripts/ab-*.mjs` | the lab's file | measure, then read, convert and write the file whole | four programs without a lock, run in any order and again |
| Simulation pool | `scripts/*-lab.mjs`, `scripts/sim-worker.mjs` | idle slots, queued tasks, the pending task of each slot | run, message, error, exit, close | a failed worker's answer and error may come in any order |
| Userscripts | `userscripts` | what was captured, of whom; uploads under way; highlights | capture from page, caches and packets; upload by timer or click; fetch and highlight | alts share a page; uploads overlap; answers come late; a wake-up may be lost |
| Web page and simulator worker | `apps/web`, `workers` | the simulation under way | start, cancel, progress | answers of a superseded request |
| Adapters, contracts, data, labs, vendored sources | the rest | none | validation, conversion, experiments | field-by-field, not a matter of order |

How they interact. A chat message reaches the bot's webhook, which acknowledges
it and handles it in the background; the handler reads from the API over HTTP
and answers through OneBot, one message at a time, each taken from the quota of
its group. An administrator's message starts a *combat test run*: a detached
wrapper runs the pipeline, which runs the lab (a pool of workers, each running
the *combat engine*), renders images into a directory, stores the plan in the
API and copies the images to where the bot looks. The poller of the bot reads
the run's state file every few seconds and sends the result through the same
reply delivery. By hand, an administrator runs the scripts that measure and
rewrite the lab's plan before it is published. Members reach the API through
the userscripts (rosters, catalogues, signups, snapshots), which show them
their assignments in return. So there are five kinds of shared state: the run's
state file (bot and wrapper), the image directories (pipeline and bot), the
lab's file (lab and scripts), the page's memory and caches (all characters of
an account), and the API's tables (everyone, but each handler runs to
completion once its body is read).

Properties that make each part correct, in short:

* a run: never two at once, a stopped run stays stopped, what a chat is told is
  true and told once, the "running" lock is released, every run settles;
* queue, loop and trial runner: the earliest event next, nothing lost, nothing
  twice, every member gets his turns, damage and result add up;
* combat engine: nobody alive is left without an event, nobody acts against a
  control, the dead stay dead, the run of levels is carried on;
* rosters: no binding to a removed member, the table is the last roster plus
  what was added by hand, tokens survive;
* snapshots: a full capture is not lost to an old client;
* weekly tables: no assignment beyond the places of its week's trials, no check
  against another week's rows, no image of another run under a text;
* replies: the quota holds over crashes and overlapping deliveries, and every
  acknowledged event settles;
* commands: what the bot says it did it did, and only on the word of who may ask;
* reports: images and text belong to one plan;
* userscript: what is stored under a name is that member's, no change is left
  without an upload to come, another character's trials do not stay highlighted;
* assignments: legal, pins kept, no exchange helps any more, the pruned search
  finds the best; teams disjoint, within capacity, with a carrier per aura;
* scripts: whatever order they run in, the file holds teams that can fight;
* pool: every task gets its own result, one task per worker, none forgotten.

## 2. Modules

| module | models | extends / instantiates |
|---|---|---|
| `CombatTestRun` | bot, poller, wrapper, pipeline around the state file | |
| `PriorityQueue` | *abstract*: what a queue of events promises | |
| `EventQueue` | the binary heap, one step per iteration of its loops | refines `PriorityQueue` |
| `EventLoop` | the loop and processors, on the abstract queue | `PriorityQueue` |
| `GuildTrialRunner` | a whole trial as a processor of that loop | `EventLoop` |
| `TrialLadder` | *abstract*: the levels of a trial | |
| `TrialCombat` | the engine, one action per event handler | refines `TrialLadder` |
| `GuildRoster` | members, bindings, tokens, uploads of the API | |
| `MemberSnapshots` | the two snapshot routes on those tables | `GuildRoster` |
| `WeeklyTrials` | a guild week: game, page, API tables, life assignments, report, checks | |
| `ReplyDelivery` | deliveries and quota | |
| `BotCommands` | texts, rules, requests, reports of the bot | |
| `ReportAssets` | lab, images, manifest, plan, uploads, commands | |
| `LifeAssignment` | the optimizer of skilling trials | |
| `AuraAssignment` | the search for casters of unique auras | |
| `RosterPartition` | the arithmetic of a split between two bosses | |
| `CombatKits` | duties and kits of a team | |
| `RosterLab` | the composition lab | `RosterPartition`, `CombatKits` |
| `WeeklyPipeline` | the lab's file under the scripts that rewrite it | `CombatKits` |
| `KitSweep` | how a script finds the number of kits to change | |
| `SimPool` | pool and workers | |
| `PluginState` | what the userscript knows, from page, caches and packets | |
| `PluginSync` | its uploads, timers and highlights | `PluginState` |
| `TrialCombatProofs`, `PluginSyncProofs` | invariants and theorems | the module they are named after |
| `CombatTestRunProofs` | the same of test runs and the report | `CombatTestRun`, `ReportAssets` |
| `QueueProofs` | of the heap and the pool | `EventQueue`, `SimPool` |
| `EventLoopProofs` | of the loop and the trial on it | `GuildTrialRunner` |
| `GuildRosterProofs` | of all tables of the API | `MemberSnapshots`, `WeeklyTrials` |
| `BotProofs` | of commands and deliveries | `BotCommands`, `ReplyDelivery` |
| `AssignmentProofs` | of skilling trials, unique auras, the composition lab, the scripts' sweeps and the file they rewrite | `LifeAssignment`, `AuraAssignment`, `RosterLab`, `KitSweep`, `WeeklyPipeline` |
| `MC*` | instances for TLC: small constants, constraints, and which parts a run explores | see section 3 |

The composition is by module where parts share state (`MemberSnapshots` on
`GuildRoster`, `GuildTrialRunner` on `EventLoop`, `PluginSync` on `PluginState`),
by refinement where one part only needs another's promise (`EventLoop` runs on
`PriorityQueue`, which `EventQueue` implements), and by an assumption stated at
the head of the module otherwise (`ReportAssets` has one pipeline at a time
because `CombatTestRun` shows `OneAtATime`). `WeeklyTrials` composes five
components of its own - the game, the page, the API, the life assignment with
its report and the bot's checks - because the hazard is in what they read of
each other.

### CombatTestRun

`file` is what reading the state file returns; a write is two steps, one that
truncates and one that fills, because `writeFileSync` is. `bot` is the bot's
thread (which function, at which file access), `poller` the part of a tick that
outlives its await, `job` and `pipe` the wrapper and the pipeline of each run.
The bot's functions are synchronous, so one bot action never interleaves with
another, but every access to the file or look at a process is a step of its own,
because the wrapper and the pipeline are other processes. Starting reads, refuses an active run,
writes `starting`, spawns, writes `running` with the pid; stopping reads, kills,
writes `stopped`; progress reads and reconciles a dead job; the poller reads,
sends, then marks whatever the file holds. `used`, `stopped`, `told`, `again`
and `lapses` record history and guard nothing. `lapses` names the moments at which
the protocol is weak: a crash within a start, a torn read, a start that
overtakes a message, a job that finishes before its start has filled the file, a
wrapper killed from outside, a message that arrived though its send failed.
`Orderly` says that neither a cut start nor a torn read has happened; the safety
properties that need it are checked under it as a constraint, and the proofs
carry it as a hypothesis of the invariant.
A start that cannot open its log throws and leaves a state without a process, which the
next reader ends when it is too old. Not modelled: reuse of process ids, a SIGTERM that
takes time.

### PriorityQueue, EventQueue, EventLoop, GuildTrialRunner

`PriorityQueue` has a set of pending events; `Peek` and `Pop` return the least by
(time, priority, id). `EventQueue` has the array, the set of cancelled ids and
the loop under way; each iteration of `siftUp`, `siftDown` and
`discardCancelledRoots` is one step. `EventLoop` adds the clock and the
processor: `run(until)` pops while the next event is due, a processor may
schedule at or after now, cancel, and throw. Times and priorities are
far below the safe-integer limit; identifiers are given in order.
`GuildTrialRunner` is one such processor: an event's payload is a member's
attack, the regeneration or the spawn of a level; a handler notes the schedule
calls it makes (`calls`) and the loop's own `Schedule` carries them out, in the
order of the code, before it returns. What a member does is an input: an
attack of any damage, or a lack of mana. An action or a boss that the code refuses makes the
run throw, also a boss that is put together for the result only.

### TrialLadder, TrialCombat

A unit is its hit points, mana, controls and the set of kinds of events queued
for it. The queue's order is left out: any queued event may be the next, so each
property holds for every choice of speeds, hastes and durations. Amounts are
left out: a hit takes any number of points. One action stands for one `process*Event`
method with everything it calls (`checkTriggers`, `checkEncounterEnd`,
`addNextAttackEvent`, clearing of the dead). `TrialLadder` is the run as the zone
sees it: spawn a level, clear it, fall, complete. Simplifications are listed
at the head of the module.

### GuildRoster, MemberSnapshots, WeeklyTrials

A handler of the API awaits its body once and then runs to completion on
synchronous SQLite, so one handler is one action; a refusal or a rollback
changes nothing and is no step. Only the snapshot routes check their permission
before the await and store after it: in `MemberSnapshots` acceptance
(`Begin`, `BeginWithToken`) and `Store` are separate actions, and rosters, restarts
and provisioning happen between. Names are compared in two ways, JavaScript's
lower-casing and SQLite's; `Fold` and `Lower` are constants, and the proofs hold
for any pair of which the table's is the finer. The rate limit is the choice to refuse.

In `WeeklyTrials` `week` and `signup` are the game, `page` what an open page has
captured (of which week, at which capacity), `catalog`, `regs`, `life` and
`combat` the latest rows of the API's tables, `making` the life assignment each
maker (formal, test, script) has under way, `report` the image and the manifest on
disk, `look` and `check` the two commands that read in several awaits. A page
left open over the week's beginning stamps what it uploads with the new week:
`late` marks the rows it made. The two files of the report are put on disk one after
the other; the bot's own writers do so without an await, the script at any time.
`torn` says that two writers overlapped, or one stopped half-way, and that none has begun
alone since; a look keeps whose images came while it read (`met`) and whether its manifest
was read from files that were not torn (`sure`). The optimizer is any assignment within the
capacities; `LifeAssignment` is the algorithm.

### ReplyDelivery, BotCommands

`pc` and `pos` say where each delivery stands, `mem` and `file` are the two
copies of the quota store. Taking from the quota and handing the message to
OneBot happen without an await in between, so `SendGroup` is one action: a kill between
the two leaves what a kill right behind them leaves, a count that includes a message nobody
need have received. The answer, the failure (a ten-second abort) and the next piece are others. Writing
the file may fail. A crash loses all acknowledged deliveries and whatever
the file had not got; `forgot` records it.

`BotCommands` is what a message goes through before: `Parse*` is the parser over
sequences of words, `Allowed` and `OwnNumber` who may ask, then `job` is the
command's place in its sequence of requests. A request is answered, fails before
it is carried out (`Fails`, `ReadFails`), or loses its answer (`WriteFails`,
`PruneFails`). Rosters come in between (`SyncRoster`). `did` records what each
command changed, `steady` who was a bound member all the time since it began.

### ReportAssets

`dir` holds the three directories (each a manifest and an image per name), `pipeline`
the pipeline at its current file, `reader` the commands, `sending` the uploads to
the API. A plan is a number, an image the plan it shows. `target`, chosen once, is
the directory the pipeline renders into: the bot's own when the bot starts it, or
another that is copied afterwards. Only a run that is `public`, neither dry nor kept from the
API, stores its plan. `broken` and `disturbed`
record which directories are half written and which commands met one.

### LifeAssignment, AuraAssignment

Both choose an input at the start and are deterministic from there, one step per
iteration of their loops; TLC runs them on every input of a set.
`LifeAssignment` has the formulas of a trial in miniature (success, work,
progress demanded, rooms climbed, points), with exact fractions where the code
has floating-point numbers. `AuraAssignment` has the recursion of `visit` as a
path of choices. Where the code fills and sorts lists of candidates, the model has
their set and takes the next one in the order of `compareCandidates`; the total of
levels is the number of points up to them, one for each aura and level, so that a
sum needs no recursion. The property compares the answer with *all* allocations.

### RosterPartition, CombatKits, RosterLab, WeeklyPipeline, KitSweep

A pool is a set of members, each of one role; where the code sorts a list and takes
from its front, the model says who is ahead of whom (`FirstFew`, `Foremost`, `InOrder`).
What a cut keeps depends on the number of members per role only, so `RosterPartition`
cuts *seats* - pairs of a role and a place in it: in proportion (`Proportional`), then the
pinned roles in full and others given up for them (`PinRole`, `GivenUpFirst`), as `Targets`.
`RosterLab` has the lab's phases: who can fight, one split per policy, caps, filling up
from what overflows, exchanges, aura carriers, screening with any scores, the finalists,
the file. A team (`capped`) keeps a row per role, because an index in it decides duties.
`CombatKits` gives a member of a side the set of skills he takes along. In
`WeeklyPipeline` `file` is the lab's file, `running` the copy each script has read
when it started; `Apply*` converts that copy and writes it whole, whatever the
file has become since. `KitSweep` is the search for the number to apply: every
count once, in any order, some of them thrice, the best one named; what the script
sorts is a set of rows, taken from in the order it sorts by.

### SimPool

One stack of idle slots, one queue of tasks, one pending task per slot, and for
each worker its two message queues. A worker's error and its answers come through
different ports, in any order. `status` is the promise of each task, `settledBy` the
task whose run settled it. A worker that fails while idle leaves a slot that looks idle:
the task given to it never settles; no comment denies it and the properties do
not claim it.

### PluginState, PluginSync

`PluginState` is `state` of the userscript as a function of what it is given: a
*view* names a character or none, holds a loadout of some owner, skills, the
guild's name and lists. `Applied` is `applyCharacterData`; `Live`, `Cached` and the
packets are where views come from, including alts that the page's tree and
caches still hold. A loadout is its number of pieces, by which the code ranks it.
`PluginSync` adds the page's life: a character switch, changed gear or lists,
packets without a name, the watch, the retry; the upload as a call with the
guild's confirmation, its lists and its snapshot, each an await; the signature
and the timers; requests whose upload has given them up and that arrive later (`adrift`); and per kind of trial the document fetched, whom for, and whose
trials are highlighted. The member's exporter is the same code for another guild.

## 3. What each run checks

Parts that share no variable are explored in one run, one part per behaviour: a
variable of the `MC` module (`focus` or `part`), or the initial state, says which,
and the variables of the other parts keep one value. Nothing is lost by that, as
no property relates two parts; the states of a run are the sum of its parts', not
their product. Where parts do share state they are explored together, as far as the
constraints below allow; `sync` is the exception, see there.

No run but those of `CombatTestRun` checks for deadlock (`CHECK_DEADLOCK FALSE`),
because every one has parts that may stop: a fight ends, an assignment is found, a
pool closes, all deliveries settle. Ghost variables never enable or disable a step.

| run | instance | states | shows |
|---|---|---|---|
| `ctr_faults` | 2 runs; 1 bot crash, killed wrappers, failed or dropped messages | 5.35 M | `OneAtATime`, `StopIsFinal`, `SuccessIsTrue`, `FailureIsTrue`, `NoticesAreTrue` |
| `ctr_settles` | 1 run, the same faults, 2 crashes, fair | 304 k | `RunsEnd` |
| `trial` | a fighter and a healer against one enemy with thorns and parries, 2 levels, every effect on one side or the other; a heap of up to 5 events; 2 images, 2 plans, in place or copied, 1 command, 2 uploads | 4.64 M | `EveryoneGoesOn`, `ActsAreSound`, `ControlsEnd`, `FallenStayDown`, `LadderHolds`; `HeapOrdered`, `Refinement`; `ImagesAreOfThePlan`, `SuccessIsVisible` |
| `api` | 3 names (two differ in case), 2 players, 2 reporter lists, 2 snapshots in flight; 2 weeks that share a trial, 2 members, 3 makers; a trial of 8 instants for 2 members | 793 k | `RosterIsSound`, `PlayerRegisteredOnce`, `CaptureCarried`; `CheckIsTrue`, `ShownIsFormal`, `AssignmentsFit`; `EventsAreKept`, `NothingDueIsLeft`, `EveryoneHasATurn`, `TrialAddsUp` |
| `bot` | 2 messages, each pair of 16 texts of an administrator and 15 of a member, 4 names, 1 roster; deliveries of 3 and 2 messages to a group with a quota of 2, 1 private, 2 days, fair | 297 k | `RepliesAreTrue`, `CommandsKeepAuthority`; `QuotaIsKept`, `EveryEventSettles` |
| `assignments` | 2 250 inputs of 3 members and 2 skilling trials; 384 of 3 members and 3 auras; 432 labs of 9 members; 3 weeks of 10 members under 4 scripts; 4 sweeps with any results; 4 tasks on 2 workers; fair | 143 k | `AssignmentIsLegal`, `EndsWhereNoSwapHelps`; `AllocationIsBest`; `TeamsAreSound`; `TeamsStaySound`; `SweepNamesTheBest`; `AnswersAreOwn`, `EveryTaskSettles` |
| `sync` | 2 characters of one account, 2 uploads, 2 changes in the game, 1 request that arrives late, both kinds of highlights | 1.24 M | `GearIsOwn`, `UploadsKeepUp`, `HighlightIsFollowed` |

The runs `ctr_silent`, `trial_thorns`, `bot_prune`, `lab_pins` and
`sync_overlap` expect a violation; see the next section.

What the less obvious properties say:

* `NoticesAreTrue`: no chat is told twice or of another run, but for the faults named in
  the property, and a state marked as notified belongs to a run whose chat was told.
* `EveryoneGoesOn` joins `NobodyFrozen` (a living unit has an event that makes it act or
  frees it to), `FallsAreNoticed` and `QueueCarriesOn`; `ActsAreSound` joins
  `HeldInCheck` (no two acts at once, none against a control) and `CastIsPaid`;
  `FallenStayDown` joins `FallenAreCleared` and `DeadStayDead` (of each step).
* `ImagesAreOfThePlan`: a command whose reads no writer met gets exactly its plan's
  images; in place, none gets older ones.
* `CheckIsTrue`: if its sources were up to date and rested, the signup check names
  exactly those whose signup is not what this week's assignments say, however many weeks
  of rows the API still serves. `AssignmentsFit`: no
  more members than places, though capacities are carried from week to week.
* `ShownIsFormal`: the image under a life assignment's text shows that assignment or, if
  other writers came between the look's two reads, one that they put on disk meanwhile; never
  one that had been replaced before, and never a manifest's whose image is yet to come. It
  speaks of every interleaving of one writer at a time with the look, the finished ones
  before it included; left out is only a manifest read from files that were `torn`. That the
  image is always the text's own is false, see section 4.
* `EveryoneHasATurn`: between two events every member has one attack ahead, unless it
  lies past the end.
* `RepliesAreTrue`: a refusal changed nothing, "done" changed one row, no report calls a
  member unbound, or names a binding removed, who was a bound member all along.
* `TeamsStaySound`: under any order of the scripts, over each other and over a new run of
  the lab, all have four skills, healers heal, no aura carrier is insane, the stated
  duties and numbers are the teams', and covered debuffs stay covered - but for the side
  that was given the drain kits.
* `TeamsAreSound`: through cuts, overflow and exchanges nobody fights twice, a team keeps
  to its capacity, nobody stays at home while a team that may take him has room, every
  aura has a carrier of its own whom no drain kit befalls. `NoGapLeft`, its part on the
  exchanges of physical roles, claims nothing of two rows that are both longer than
  `MaxSwaps`: the lab gives up after that many exchanges, which then need not be enough.
* `UploadsKeepUp` has two parts, both of overlapping uploads too. `SkippedIsStored`: while
  nobody is at work the API holds what was signed, so that an upload skipped for its signature
  is not missing; unless the writes of two uploads mixed, one broke off half-way, or a
  request that had been given up arrived after all (`disturbed`). `ChangeIsPending`: a
  change that is not signed has a timer, or a call that carries it or will arm the timer.
  Exempt are an upload that failed or was given up (`missed`) and an upload that,
  overtaken by another, put its own signature over the other's (`replaced`), until the page
  speaks again; the second is what `sync_overlap` shows.
* `HighlightIsFollowed`: what is highlighted for a character who no longer plays is about
  to be replaced. The one exemption is in the code: a refresh that finds the guild not yet
  confirmed returns without setting another timer (`wi-guild-trial-sync.user.js:2607`), so
  the old highlights stay until the page's memory changes next.

**Bounds, and why they are enough.** *Two runs* are the fewest in which a start
meets the remains of another; three would only repeat the meeting, because a
start refuses an active predecessor and the file holds one. *One crash* with
two runs, *two crashes* with one: a crash inside a start, then one during the
recovery. *Five events* make a heap of three levels with an incomplete last one, so
that siftDown has nodes with two, one and no child and an event sinks twice;
three distinguishable events give a tie and both kinds of strict order. *Two
levels* have both ways a level can end: followed by another, or the last. *Two hit
points* tell a wounding hit from a killing one; *one unit of mana* runs out.
The players may be felled by an answer to their attack and the
enemy may not, so `FallenAreCleared` is checked in both its forms.
*Three names* with one pair that differs in case and one reporter: the pruning,
the clash and the exemption of reporters each have a subject. `GuardFrom`, ten
in the code, is three so that the guard against short rosters is met. *Two
uploads in flight* give every overlap the code has, since a handler looks at one
latest row. *Two weeks* that share one skilling trial: a row of the week before may be
taken for this one's; *two runs* and *two places* make an assignment too large for
a carried capacity. *Attacks every two and three instants*, regeneration every two,
a spawn after one, an end at eight: all kinds of events fall on one instant and on the
end. *A quota of two* with five messages: it is met in the middle of a
reply, and again from the other delivery. *Two messages*: a command looks at one other
party; the sixteen texts are every kind of command with a name of the sender's own, of
another, in another case, or unknown. *Three members* are the fewest of whom one is left
out of an exchange; *nine for teams of four*: both sides are cut, or one is and
the other filled. *Ten members* of a week have both sides short of water, archers who
carry auras, gear of now, of before and none; *three writes* let each script follow
another, and a third repair or spoil it. *Four tasks on two workers* leave a
queue of two behind a full pool. *Two images, two plans*: a render or a copy that
breaks off between images, after one that was complete or was not. *Two characters*: a
third would be one more alt in the same caches.

**Constraints.** `Few` (in `ctr_faults`) stops exploring a behaviour when a
start was cut by a crash or a torn file was read (`Orderly`), both of which void
the guarantees the invariants state and neither of which is ever undone, or when
more than two of the other four kinds of lapse have met in it; `ctr_settles` has
no constraint.
In `trial`, `FewEvents` has three kinds of events (two priorities at one instant, one at the next) and
at most two cancelled at a time; `ImagesInTurn` takes the
images of a manifest in its order, lets an upload and a pipeline, which write different
directories, go on while the other rests, perhaps half way, and has `u1` be the first of
two interchangeable uploads; `OneAnswer` does not follow a command beyond its answer, which
changes nothing.
In `api`, `MembersApart` leaves out states in which snapshots and
bindings or registrations are both under way, which share no table, and snapshots
of more than one member, whose rows are independent; `WeeksApart` explores each command of
`WeeklyTrials` with the tables it reads; `OneCheck` goes from a check's answer to the next
check only, since the answer changes nothing.
In `sync`, two uploads overlap while the game changes once and all owners are known
(`overlaps`); they follow each other while it changes twice, or once when an owner is
unknown (`changes`); or they follow each other while it changes once and a request that one
gave up arrives later (`late`). Highlights, which read the same memory, are looked at by themselves, and
those of one kind with an upload up to where it asks the API, behind which it touches nothing
they use. The theorems of `PluginSyncProofs` have them all at once. None of them is a property of the code: they say what TLC looks at.

**Fairness.** It is put on actions whose occurrence the code or its host brings
about, weak wherever nothing else can disable them. `CombatTestRun`: a function
of the bot goes on once begun, so does a live wrapper, a pipeline ends (it has no
timeout of its own; that it ends is assumed, as the bot's own text does), and the
LaunchAgent restarts the bot: weak. The poller's tick, its send and its mark, and
the reaping of a wrapper wait for the bot's thread to be idle: strong, because an event loop
serves its timers and promises between commands, however many commands come, and
because a message that is tried at every tick gets through at last.
Nothing obliges an administrator to do anything or a crash to happen.
`ReplyDelivery`: the thread runs and
handlers answer or throw; a send is aborted after ten seconds, so `SendFails` is
fair though OneBot's answer is not. `SimPool`: a worker answers what it was sent and
posted messages and errors arrive. `LifeAssignment` is one synchronous function: it goes on
until it returns; that it does return is what `EndsWhereNoSwapHelps` shows. The other
modules have no fairness and no liveness property: `NothingDueIsLeft` and
`UploadsKeepUp` say what a state or step may not be, not what must happen.

## 4. Disagreements found

Five, each shown by a run; `PROJECT.json` quotes the lines.

1. **A run that ends without a message** (`ctr_silent`, `NoSilentFinish`,
   `combat-test-run.ts:377`). The poller reads a finished run, awaits the
   message, then marks as notified whatever state the file holds. A run started
   meanwhile is marked, and its result is never told.
2. **The dead attack on** (`trial_thorns`, `DeadHaveNoEvents`,
   `combatSimulator.js:737`). An attacker killed by its target's thorns gets a
   new auto attack queued after its events were cleared.
3. **A prune that removes a valid binding** (`bot_prune`, `PruneTakesLeaversOnly`,
   `api-client.ts:1401`). Members and bindings are read in two requests; a roster and a
   binding between them make a new member look like a leaver. As the API deletes the
   bindings of leavers with every roster (`server.mjs:1230`), a prune that finds anything
   has found such a binding.
4. **Pinned roles lose seats to later pins** (`lab_pins`, `PinnedRolesStay`,
   `weekly-combat-partition.mjs:78`). The donors of a pin include the roles pinned before.
5. **An overtaken upload signs what is gone** (`sync_overlap`, `SyncsByItself`,
   `wi-guild-trial-sync.user.js:2721`). The flag is raised behind the first await, so a click
   and a timer may upload at a time. The one that has stored the newer gear first and is
   answered last signs it, while the API holds the other's; the timer then finds nothing to
   do, and nothing uploads the gear until it changes again.

More weaknesses are exempted by name in the properties, so that the models have
the behaviour and the properties say what holds beside it:

* *A result overwritten* (`combat-test-run.ts:247`): a start between the end of a run and
  the poller's next tick replaces the only record of its result; `EveryRunSettles`
  counts such a run, `Superseded`, as settled.
* *A full capture lost* (`server.mjs:693`): `docs/COMBAT_SIM_WILLSHY_GAP_PLAN.md:321` says
  that omitted containers are carried forward, the code carries forward only when all
  three are omitted; `CaptureCarried` exempts members who stored a partial snapshot.
* *One plan's text with another's images*
  (`render-and-send-available-roster-report.mjs:243`): the pipeline that the bot starts
  renders into the directory the bot reads from, while the manifest still names the
  published plan; `UndisturbedIsExact` exempts commands that met a half written directory.
* *Older images in the API* (`server.mjs:1577`): of two uploads that overlap the one that
  ends last wins; `NeverOlder` speaks of the bot's directory.
* *A task that never settles* (`run-available-roster-composition-lab.mjs:1992`): after a
  worker failed while idle; `EveryTaskSettles` speaks of pools without failures.
* *A page that slept* (`weeklyTrialCatalogPayload`): what it captured last week is stamped
  with this one; `CheckIsTrue` and `AssignmentsFit` exempt what it uploaded (`late`).
* *A published run of another week*: `pickLifeAssignmentForWeek` prefers the run whose
  image is published to one of the week (`trial-signup-check.ts:388`), so after a reset
  the check compares with last week's until the next run; `CheckIsTrue` speaks of
  published runs of this week.
* *Two pins of one member* (`life-trial-optimizer.ts:321`): pins in two spellings give a
  member two seats; `AssignmentIsLegal` exempts such a member (`PinnedTwice`).
* *Another run's image* (`life-assignment-report.ts:238`): the image is renamed into place
  before the manifest is written, and a look reads the manifest, then the image. With a script
  between its two files the manifest still names the stored run, the bot's check that the
  image is not stale (`api-client.ts:1141`) passes, and the image is the script's;
  `ShownIsFormal` allows the images put on disk during the look (`met`). Two writers that
  overlap, or one that dies half-way, leave an image beside another run's manifest until the
  next writes both; it speaks of looks that are `sure`.
* *Covered debuffs taken away* (`combat-ability-templates.mjs:325`): the script that gives the
  chameleon's healers their kits spares those with `natureCoverageAbility`, a field that the
  lab's file never carries, so the stand-ins for fire and water lose their smoke or frost;
  `TeamsStaySound` exempts the side (`drained`).
* *Mixed uploads* (`wi-guild-trial-sync.user.js:2721`): the lists of one upload and the
  snapshot of another, or a request that arrives after its upload gave it up (2016);
  `SkippedIsStored` exempts what is `disturbed`.
* *A torn state file* (`combat-test-run.ts:122`): whoever reads it while another process
  writes takes it for none; the properties of test runs hold while none has (`Orderly`).

Observations on the way, which no property states:

* Weekly tables: a combat assignment carries no week; the current catalogue is the latest
  by number, whatever its week; a missing capacity is taken from any week
  (`server.mjs:1073`); an aura assignment is served whatever its week.
* Lab: the proportional cut can drop the coverage seats that
  `docs/WEEKLY_COMBAT_SCREENING.md:144` asks for; the greedy choice of carriers may throw
  "No unique carrier" where another order would find one; `NATURE_OVERFLOW_ST_DPS` is
  unused and `limitMembersWithoutSpecial` changes nothing.
* Optimizer: after the exchanges nobody is placed again; the greedy choice follows levels
  and shares where points are equal (`isPositiveGain`), so one more member can cost points.
* Auras: among equal allocations a text, not the rule at `aura-assignment.ts:298`, decides.
* Scripts: they do not check the documented order, and a second `--apply` of the nature
  script converts again but records its own number only; a file read before another's
  write is written over it (no update is merged); the insanity sweep ranks by averages
  of the lab's runs and applies by fresh ones; when every finalist wipes, the winner wipes.
* Commands: a member may bind a name that another account has bound before; a named aura is
  compared with case, a bound name without; the bot's requests have no timeout.

## 5. What is proved

Every theorem is checked by TLAPS to the last leaf, for any value of the constants
under the assumptions at the end of this section. The temporal step of each is the same:
an invariant holds initially, each step keeps it, it implies the property. Every
inductive invariant was given to TLC before it was proved.

* **`CombatTestRunProofs`**, for any set of runs, any faults, any number of crashes:
  `OneAtATime`, `StopIsFinal`, `SuccessIsTrue`, `FailureIsTrue`, `NoticesAreTrue`.
  The program has no lock; what keeps a second wrapper from being
  spawned is that the file, *and every copy of it that a process still holds*, says
  "running" with the pid of the wrapper at work. So the inductive invariant is
  `TypeInv /\ (Orderly => Sound)`, where `Sound` joins `Alone` (only the run of the file, or
  of the start under way, has a live wrapper), `FileInv`, `ViewInv`, `OutInv` (file, what
  was read and what is about to be written agree with wrapper and pipeline) and `StopInv`.
  On top of it, each under the lapses that its property excuses: `FailedInv` (a copy that
  says "running" is of a run whose wrapper is still there to end it, or was never spawned), `OnceInv` (no copy
  that could be announced again outlives the poller's mark) and `NotedInv` (the file holds
  the run whose message is under way until it is marked).
  Of the report, for any plans, images, readers, uploads and broken-off runs:
  `ImagesAreOfThePlan`, `SuccessIsVisible`. The invariant is about directories nobody is
  writing and nobody left half written (`WholeUnlessBroken`), how far a pipeline or an upload has come
  (`Rendered`, `Uploaded`), what a command that met no writer has read (`Exact`), and, in
  place, that images are never older than the manifest (`Ahead`, `Newer`).
* **`QueueProofs`**. Of the heap: `HeapOrdered` and the refinement of `PriorityQueue`.
  During siftUp and siftDown the heap is ordered except at one index, whose
  children are still ordered against its parent; that exception is the strengthening.
  Of the pool: `AnswersAreOwn` (`OwnAnswer`, `OneTaskPerWorker`), for any tasks and any
  finite set of workers. Answers carry an id that the pool never compares, so the invariant
  is the bookkeeping: what is inside a worker is the task its slot remembers, a slot is on
  the stack once and with nothing in it, a waiting task is in one place. It is stated
  of values rather than variables, because `pump` works on what its callers have just changed.
* **`EventLoopProofs`**. Of the loop, for any processor, which may cancel and throw:
  `EventsAreKept` (no event lost, doubled or late), `NothingPassed`, `TimeNeverGoesBack`,
  `NothingDueIsLeft`. `RunnerUsesTheLoop` shows that the trial runner is a
  processor of that loop, so all of this holds of trials. Of the trial, for any party,
  intervals, levels and damage: `EveryoneHasATurn`, `TrialAddsUp`.
  Their invariant `RunnerInv` says that what is
  around - queued, called for but not yet scheduled, or in the processor's hand - is there
  once (`Once`), that a member without an attack around has none due or slew the last boss
  (`Turns`), and that boss, spawn and kills follow each other (`Bosses`). `DamageInv` adds that
  the damage dealt is the hit points of the slain and what the boss at hand has lost. The sum
  over members is stated as a number of points, one element for each, so that `PointsGrow`
  can say what a hit adds to it without induction.
* **`TrialCombatProofs`**, for any parties, skills, levels and points, with thorns, parries
  and draining hits: `EveryoneGoesOn`, `ActsAreSound`, `ControlsEnd`, `FallenStayDown` (of
  steps), `LadderStands`, and `EngineClimbsTheLadder` (the refinement of `TrialLadder`).
  The inductive invariant is `UnitsInv` (per unit: hit points,
  mana, controls and queued events fit together), `RungInv` (level, encounters, spawned
  enemies and the clock's events fit together) and `FallsAreNoticed`. One lemma says that
  every event's units are `Stepped` from the units before it; the actions only cite that.
  `FallenAreCleared` and `ControlsEnd` are proved together on top of it: any queued event
  but an auto attack finds its unit alive, and a unit's control has its expiry queued
  unless the unit is dead, which no event undoes.
* **`GuildRosterProofs`**. Of the roster, for any names, players, reporter lists and
  foldings: `RosterIsSound`, `PlayerRegisteredOnce`, `ClashesAreAdded`, `TokenKept`. The
  invariant adds `ReporterListed`: the last roster's reporter is among its rows, which is
  why pruning cannot remove it. Of snapshots: `SnapshotsKeepRosters` (the
  API with its snapshot routes implements the API of rosters, so the theorems carry over)
  and `CaptureCarried`, for any members, payloads and overlap of uploads. Of the weekly
  tables, for any members, trials, weeks, runs and makers: `CheckIsTrue`, `ShownIsFormal`,
  `AssignmentsFit`. `WeeklyInv` follows the rooms of a trial from game to page to catalogue
  to assignment: no place is ever closed again, so nobody has seen more of them than there
  are, however late he stores what he saw. For the check it says that as long as its
  sources rest, what it has read is what it would read now. Of the report's files (`FilesOK`)
  it says that, unless they are torn, the image is that of the one writer between the two or
  else the manifest's own, and of a look (`LookOK`) that the image it is about to read is
  its text's or one it has met. That needs writers one by one: two in between at a time
  are what `torn` is for, and the next to begin alone restores it.
* **`BotProofs`**. Of commands, for any senders, names and foldings and any overlap:
  `RepliesAreTrue`, `CommandsKeepAuthority`. The invariant says of each command what it has done
  (`Honest`), what it knows of those who have been bound members ever since it began to
  look (`Faithful`), and why it may go on (`Entitled`). Of
  deliveries, for any groups, limit, replies and days: `QuotaIsKept` (of steps:
  `WithinQuota` and `CountIsTrue` after each, `RefusedOnlyWhenSpent` of it), `NeverAhead`. `WithinQuota` is
  not inductive: it needs that the count of the day is what was sent, and that in turn that
  the file is never ahead of the memory, which a restart reads.
* **`PluginSyncProofs`**, for any characters of an account, any lists, any number of
  overlapping uploads and any failures, with highlights at the same time: `GearIsOwn`,
  `UploadsKeepUp`, `HighlightIsFollowed`. What the page remembers is one character's unless
  something strayed in (`StateOK`), so is what an upload carries, what is stored and what
  is still on its way (`CallsOwn`, `StoredOwn`, `AdriftOwn`), however many requests drift. What
  an upload has written is there as long as nobody else has written (`UnmixedStand`), and so
  what was signed stands until somebody at work writes (`SignedStands`), whatever order they end
  in. For the changes: an upload that no other has overtaken is behind the flag, and what the
  plugin knows is what it carries or the timer is set (`UpToDate`). The flag is raised
  behind an await, so several calls may be behind it at a time, and the first to end lowers it
  for all; that is why having been overtaken is part of a call's state and not read off the flag.

* **`AssignmentProofs`**, for any members, skills, kits, trials, reserves and pins:
  `AssignmentIsLegal`. Its parts are no more inductive than the code's variables suggest:
  the exchanges find a member's trial by looking for it, so they keep rosters legal only
  because whoever may move has exactly one seat. `SeatsAreKnown` says who has more - a
  member whom two pins name, who is pinned and therefore never moved - and `PinsStay` that
  pins are all that is placed while they are placed, in the trial they name.
  `AllocationIsBest`, for any auras, members, roles and levels: no allocation is better
  than the one the pruned search returns. `SearchInv` says it of a part of them at every
  call and return: those that leave the path for a choice that has been tried before
  (`Passed`), and on the way back also those that follow it. A cut branch needs that
  what it may hold is part of what the bound counts (`BoundHolds`, by sets of points), and
  that `isBetter` is a strict order on allocations, the tie of names included.
  `SweepNamesTheBest`, for any counts and results: `BoldFinals` and `OtherFinals` keep, for
  each row of the short runs, that it waits, has had its full runs, or is behind one that
  has ended the sweep (or that beats it).
  `TeamsStaySound`, for any members, packages and numbers applied, and any order of
  scripts on copies of any age: `KitIsSound` is what each of them keeps of a row, whoever
  has changed it before - an aura stays an aura, hammers keep their kit, who heals brings
  the heal, archers and nature mages stay among the duties their script counts again -
  and `BossIsSound` what follows for a side. The invariant says the same of the file and
  of every copy under way, since a copy is written back whole.
  `TeamsAreSound`, for any guild, week, policies, levels and scores, and any capacity,
  reserve, gap and number of exchanges. Its invariant `RosterInv` says of the usable members that
  they are ready (`AbleMembers`), of the teams at hand that their rows are sound and disjoint,
  fit and leave nobody out who could be placed (`TeamsFit`). That a full role ends without a gap needs a measure:
  after n exchanges of one role, n of the target's row are above everybody of the other row and n
  of the other's below everybody of it (`SwapsAre` with `AboveAll`, `BelowAll`), so that
  `MaxSwaps` exchanges use up any row that is no longer (`EnoughSwaps`). The exchange for
  the mystic aura moves casters, which are of no physical role, so it opens no gap again.
  `CarriersAre` says of the auras given so far that their carriers are of the team and
  different. What the operators do is stated once each: `ProportionalIs` (the largest
  remainders fill a cut up to the capacity exactly, with seats that exist), `PinRoleIs` and
  `TargetsAre` (pinning keeps that number), `CapIs`, `FillIs` (whoever the fill order
  admits stays out of a full team only), `ApplyTeamCapsIs`, `ExchangeIs`, `RankedIs`. Rounded
  shares are compared with exact ones by counting pairs of a seat and a number, so that no
  sum over roles is needed.

**Assumptions**, besides types, finiteness and nulls that are no values:
`GuildRoster`: two names with one fold in the table have one fold in
JavaScript. `WeeklyTrials`: the first week is there, weeks and trials are numbered from
one, a week's trials are trials. `GuildTrialRunner`: nobody is in a party twice, attacks and
regeneration have positive intervals, every instant of a trial is one at which events may be
scheduled. `TrialCombat`: each side has a unit and each unit an ability effect.
`BotCommands`: every message has a sender. `LifeAssignment`:
the API lists a member once, pins name the week's trials, every trial has a place.
`AuraAssignment`: finitely many auras, at least one, and members, numbered; whole levels.
`RosterPartition`: roles are listed once and all have a place in the order of
`localeCompare`, reserve and number of exchanges are naturals, a team has a place and a gap
is at least one level (with a gap of zero equal members would change places for ever).
`RosterLab`: levels and scores are numbers, guardian is one of the auras, every policy's id has a rank,
at least one split is validated.
`KitSweep`: finitely many counts, and the nature script alone has the safe mode.
`WeeklyPipeline`: roles are the nine of `roleOrder`, packages prefer what the lists in the
lab have (a preferred skill that is in the kit already would leave three). `ReportAssets`: no image is called `manifest`;
where anybody uploads, the API's directory is neither the bot's nor the
pipeline's. The last one is a fact of deployment: the pipeline itself never uploads
(`MWI_REPORT_PUBLISH_ASSETS=0`), but `scripts/apply-test-report-dir.ps1` may point the bot
and the API at one directory, and with an upload into that TLC finds both properties violated.

## 6. What is only model-checked, and what is not modelled

Only model-checked: every liveness property (`RunsEnd`, `EveryEventSettles`,
`EveryTaskSettles`, `EndsWhereNoSwapHelps`), since liveness under fairness and `ENABLED`
are out of the prover's reach. Every invariant and every property of steps that a passing run
checks is also the statement of a theorem.
What a recursive definition computes for every input would need induction over data, which
is out of the prover's reach; no module uses `RECURSIVE`.

Not modelled, by choice: texts, layout and screenshots; field-by-field
validation and conversion of payloads, decompression of the game's caches; the arithmetic of
damage, scaling, rules and statistics, random numbers; the choice of a build for a member;
the public gallery and the copies on GitHub and Gitee; vendored sources, tools and
experiments of one person. In the engine: times and amounts, buffs,
consumables (a trial gives its players none), promotion (no trial monster has
it), and the secondary procs listed at the head of `TrialCombat`. Of the API: jobs, which
are born blocked and may only be cancelled; versions, rows replaced by their key; the
rate limit, which is the choice to refuse an upload. The web page and its worker: a
form and one simulation, which share nothing with the rest. Of the bot: the bottleneck report, the
fuzzy match of group names, width and spaces of commands. Of the labs: other labs and the
tuning rounds of the composition lab; the packages of the hedgehog and the chameleon
are modelled with two supports.

## 7. Plan

Done, in the order of what goes wrong most expensively: combat test run; event
queue, loop and trial runner; trial engine; rosters, snapshots and weekly tables; replies,
quota and commands; pool; report; life assignment and auras; lab, kits and scripts;
userscript. Next:

1. The web page's simulation and the answers of a superseded request.
2. The whole chain from a guild's snapshots to the plan in a chat as one module of
   promises, refined by the modules here.

## 8. Running the checks

    tlc -workers 2 -config CombatTestRun_faults.cfg MCCombatTestRun
    tlapm GuildRosterProofs.tla

Every run finishes within five minutes on two workers. `Api.cfg` belongs to `MCApi`,
`Assignments*.cfg` to `MCAssignments`, `Bot*.cfg` to `MCBot`, `CombatTestRun_*.cfg` to
`MCCombatTestRun`, `PluginSync*.cfg` to `MCPluginSync` and `TrialCombat*.cfg` to
`MCTrialCombat`. `tlapm` needs about a quarter of an hour for all
proof modules together, half of it for `AssignmentProofs`.
