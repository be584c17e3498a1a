--------------------------- MODULE CombatTestRun ---------------------------
(***************************************************************************)
(* The "combat test run" of the QQ bot: one JSON state file shared by the  *)
(* bot process (commands and the notification poller, one thread) and the  *)
(* detached job wrapper it spawns, which runs the assignment pipeline.     *)
(*                                                                         *)
(*   apps/qq-bot/src/combat-test-run.ts   start, stop, reconcile, poller   *)
(*   scripts/run-qq-combat-test-job.mjs   the job wrapper                  *)
(*   apps/qq-bot/server.mjs               the poller's notification        *)
(*                                                                         *)
(* The bot's functions are synchronous, so no two of them interleave; but  *)
(* every file access and every look at a process is one step here, because *)
(* the wrapper and the pipeline are other processes.  writeFileSync is two *)
(* steps: it truncates the file, then fills it.                            *)
(***************************************************************************)
EXTENDS Naturals, FiniteSets

CONSTANTS
    Run,        \* identities of runs; also the pid of the wrapper of a run
    NoRun,      \* no run, no pid
    Faults,     \* which faults of the environment happen
    MaxCrashes  \* bound: how often the bot process may crash

ASSUME RunAssumption == NoRun \notin Run
ASSUME FaultsAssumption == Faults \subseteq {"crash", "death", "send"}
ASSUME MaxCrashesAssumption == MaxCrashes \in Nat

VARIABLES
    file,      \* what reading the state file returns (Blank: null)
    bot,       \* the bot's thread: where it is in which function
    poller,    \* the poller's tick, which outlives the function at its await
    job,       \* per run, the detached wrapper process
    pipe,      \* per run, the pipeline process the wrapper waits for
    recent,    \* the runs whose startedAt is less than 15 s ago
    children,  \* the wrappers whose parent is the present bot process
    crashes,   \* how often the bot has crashed
    \* The variables below only record what has happened:
    used,      \* the runs started so far
    stopped,   \* the runs an administrator was told are stopped
    told,      \* per run, the results its chat has been told
    again,     \* the runs whose chat has been told more than once
    lapses     \* what has gone wrong around the program so far

world == <<recent, children, crashes>>
system == <<file, bot, poller, job, pipe, world>>
record == <<used, stopped, told, again, lapses>>
vars == <<system, record>>

-----------------------------------------------------------------------------
(* The state file                                                          *)

\* A missing, truncated or garbled file: readCombatTestRunState returns null.
Blank == [run |-> NoRun, pid |-> NoRun, notified |-> FALSE, status |-> "blank"]

Written == [run: Run, pid: Run \cup {NoRun}, notified: BOOLEAN,
            status: {"running", "succeeded", "failed"}]
State == Written \cup {Blank}

\* (Definitions named ...Mutant are plausible mistakes, here a state built from the
\* previous, announced one; no action uses them.)
FreshMutant(r) == [run |-> r, pid |-> NoRun, notified |-> TRUE, status |-> "running"]

\* The first state of run r: startedAt and the chat to notify identify r.
Fresh(r) == [run |-> r, pid |-> NoRun, notified |-> FALSE, status |-> "running"]

Failed(s) == [s EXCEPT !.status = "failed"]
Stopped(s) == [s EXCEPT !.status = "failed", !.notified = TRUE]
Notified(s) == [s EXCEPT !.notified = TRUE]
Finished(s, ok) == [s EXCEPT !.status = IF ok THEN "succeeded" ELSE "failed"]

\* process.kill(pid, 0) succeeds.
Alive(p) == p \in Run /\ job[p].pc \notin {"none", "gone"}

\* Mutant: a state without a pid counts as active however old it is.
ActiveMutant(s) == s.status = "running" /\ (Alive(s.pid) \/ s.pid = NoRun)

\* Mutant: a run is active by its age, without a look at its process.
ActiveByAgeMutant(s) == s.status = "running" /\ s.run \in recent

Active(s) ==
    /\ s.status = "running"
    /\ Alive(s.pid) \/ (s.pid = NoRun /\ s.run \in recent)

\* Mutant: a success alone is announced.
PendingSuccessMutant(s) == s.status = "succeeded" /\ ~s.notified

\* peekPendingCombatTestRunNotification returns s.
Pending(s) == s.status \in {"succeeded", "failed"} /\ ~s.notified

\* The pipeline of run r has not ended.
Working(r) == pipe[r] \in {"running", "published"}

\* What is in the file after filling it with s: if another process has filled
\* it since our truncation, the two texts overlap and may not parse.
Filled(s) == IF file = Blank THEN {s} ELSE {s, Blank}

\* A read has found no state although one was written before.
TornRead == IF file = Blank /\ used # {} THEN {"tornRead"} ELSE {}

-----------------------------------------------------------------------------
(* The bot's thread                                                        *)

Ops == {"start", "stop", "progress", "peek"}

At(pc) == [pc |-> pc, op |-> "progress", view |-> Blank, out |-> Blank,
           next |-> "idle"]
Idle == At("idle")
Down == At("down")

Quiet == [phase |-> "quiet", pending |-> Blank]

\* Begin writing s, to continue at `next` with s as the view.
Write(s, next) ==
    bot' = [pc |-> "truncate", op |-> bot.op, view |-> Blank, out |-> s,
            next |-> next]

BotReturns == bot' = Idle
OnlyBot == UNCHANGED <<file, poller, job, pipe, world, record>>

\* A command arrives, or the poller ticks: reconcile reads the file.
BotRead(op) ==
    /\ bot.pc = "idle"
    /\ op = "peek" => poller.phase = "quiet"
    /\ op = "start" => used # Run    \* bound: no more starts than Run has members
    /\ bot' = [Idle EXCEPT !.pc = "check", !.op = op, !.view = file]
    /\ lapses' = lapses \cup TornRead
    /\ UNCHANGED <<file, poller, job, pipe, world, used, stopped, told, again>>

\* reconcile: a running state without a process is rewritten as crashed.
BotCheck ==
    /\ bot.pc = "check"
    /\ IF bot.view.status = "running" /\ ~Active(bot.view)
       THEN Write(Failed(bot.view), "decide")
       ELSE bot' = [bot EXCEPT !.pc = "decide"]
    /\ OnlyBot

BotTruncate ==
    /\ bot.pc = "truncate"
    /\ file' = Blank
    /\ bot' = [bot EXCEPT !.pc = "fill"]
    /\ UNCHANGED <<poller, job, pipe, world, record>>

BotFill ==
    /\ bot.pc = "fill"
    /\ file' \in Filled(bot.out)
    /\ bot' = IF bot.next = "idle" THEN Idle
              ELSE [bot EXCEPT !.pc = bot.next, !.view = bot.out, !.out = Blank,
                               !.next = "idle"]
    /\ UNCHANGED <<poller, job, pipe, world, record>>

\* peekPendingCombatTestRunNotification, then the call of onNotify.
Peek ==
    /\ bot.pc = "decide" /\ bot.op = "peek"
    /\ poller' = IF Pending(bot.view)
                 THEN [phase |-> "sending", pending |-> bot.view] ELSE Quiet
    /\ BotReturns
    /\ UNCHANGED <<file, job, pipe, world, record>>

\* Progress, and a start or a stop that is refused: a reply and no effect.
BotReplies ==
    /\ bot.pc = "decide"
    /\ \/ bot.op = "progress"
       \/ bot.op = "start" /\ Active(bot.view)
       \/ bot.op = "stop" /\ ~Active(bot.view)
    /\ BotReturns
    /\ OnlyBot

\* startCombatTestRun first writes the state of a new run, without a pid.
StartAccepted(r) ==
    /\ bot.pc = "decide" /\ bot.op = "start" /\ ~Active(bot.view)
    /\ r \in Run \ used
    /\ Write(Fresh(r), "spawn")
    /\ recent' = recent \cup {r}
    /\ used' = used \cup {r}
    /\ lapses' = lapses \cup (IF poller.phase = "quiet" THEN {} ELSE {"overtaken"})
    /\ UNCHANGED <<file, poller, job, pipe, children, crashes, stopped, told, again>>

\* The wrapper is spawned; its pid is added to the state the bot wrote before,
\* not to what the file holds by then.
Spawn ==
    /\ bot.pc = "spawn"
    /\ LET r == bot.view.run IN
         /\ job' = [job EXCEPT ![r].pc = "boot"]
         /\ children' = children \cup {r}
         /\ Write([bot.view EXCEPT !.pid = r], "idle")
    /\ UNCHANGED <<file, poller, pipe, recent, crashes, record>>

\* spawn throws or returns a child without a pid.
SpawnFails ==
    /\ bot.pc = "spawn"
    /\ Write(Failed(bot.view), "idle")
    /\ OnlyBot

\* The log cannot be opened: start throws and leaves the state running, without a pid.
OpenThrows ==
    /\ bot.pc = "spawn"
    /\ BotReturns
    /\ OnlyBot

\* stopCombatTestRun of an active run.
StopFound ==
    /\ bot.pc = "decide" /\ bot.op = "stop" /\ Active(bot.view)
    /\ bot' = [bot EXCEPT !.pc = "kill"]
    /\ OnlyBot

\* A wrapper with nothing left to do but to end.
Exiting == [pc |-> "exit", out |-> Blank]

\* Mutant: the wrapper is killed and not its process group.
PipeKilledMutant(p) == pipe
PipeKilled(p) == IF Working(p) THEN [pipe EXCEPT ![p] = "failed"] ELSE pipe

\* SIGTERM to the process group, wrapper and pipeline; without a pid both
\* kills throw and the error is ignored.  Either way the run is written down
\* as terminated and as notified.
StopKill ==
    /\ bot.pc = "kill"
    /\ LET p == bot.view.pid IN
         IF p = NoRun THEN UNCHANGED <<job, pipe>>
         ELSE /\ job' = IF Alive(p) THEN [job EXCEPT ![p] = Exiting] ELSE job
              /\ pipe' = PipeKilled(p)
    /\ stopped' = stopped \cup {bot.view.run}
    /\ Write(Stopped(bot.view), "idle")
    /\ UNCHANGED <<file, poller, world, used, told, again, lapses>>

-----------------------------------------------------------------------------
(* The poller's notification                                               *)

\* The chat of run r is told `result`.
Tell(r, result) ==
    /\ told' = [told EXCEPT ![r] = @ \cup {result}]
    /\ again' = IF told[r] = {} THEN again ELSE again \cup {r}

\* onNotify resolves: the message was sent, or the group's daily quota was used
\* up and it was dropped.
NotifySent(result) ==
    /\ poller.phase = "sending"
    /\ result \in {poller.pending.status, "dropped"}
    /\ poller' = [poller EXCEPT !.phase = "sent"]
    /\ Tell(poller.pending.run, result)
    /\ UNCHANGED <<file, bot, job, pipe, world, used, stopped, lapses>>

\* onNotify rejects: the next tick tries again.  The message may have arrived
\* all the same (a lost answer, a later piece that failed).
NotifyThrows(arrived) ==
    /\ "send" \in Faults
    /\ poller.phase = "sending"
    /\ poller' = Quiet
    /\ IF arrived THEN Tell(poller.pending.run, poller.pending.status)
       ELSE UNCHANGED <<told, again>>
    /\ lapses' = lapses \cup (IF arrived THEN {"unacknowledged"} ELSE {})
    /\ UNCHANGED <<file, bot, job, pipe, world, used, stopped>>

\* markCombatTestRunNotified, when the await returns: it marks whatever state
\* the file holds now.
MarkNotified ==
    /\ bot.pc = "idle"
    /\ poller.phase = "sent"
    /\ poller' = Quiet
    /\ IF file = Blank \/ file.notified THEN BotReturns
       ELSE Write(Notified(file), "idle")
    /\ lapses' = lapses \cup TornRead
    /\ UNCHANGED <<file, job, pipe, world, used, stopped, told, again>>

-----------------------------------------------------------------------------
(* The job wrapper of run r                                                *)

\* It reads the state, to add its own pid, or goes on without one.
JobBoot(r) ==
    /\ job[r].pc = "boot"
    /\ job' = [job EXCEPT ![r] =
                 IF file = Blank THEN [pc |-> "launch", out |-> Blank]
                 ELSE [pc |-> "truncatePid", out |-> [file EXCEPT !.pid = r]]]
    /\ lapses' = lapses \cup TornRead
    /\ UNCHANGED <<file, bot, poller, pipe, world, used, stopped, told, again>>

JobTruncate(r) ==
    /\ job[r].pc \in {"truncatePid", "truncateEnd"}
    /\ file' = Blank
    /\ job' = [job EXCEPT ![r].pc =
                 IF @ = "truncatePid" THEN "fillPid" ELSE "fillEnd"]
    /\ UNCHANGED <<bot, poller, pipe, world, record>>

JobFill(r) ==
    /\ job[r].pc \in {"fillPid", "fillEnd"}
    /\ file' \in Filled(job[r].out)
    /\ job' = [job EXCEPT ![r] =
                 [pc |-> IF job[r].pc = "fillPid" THEN "launch" ELSE "exit",
                  out |-> Blank]]
    /\ UNCHANGED <<bot, poller, pipe, world, record>>

\* spawnSync starts the pipeline and blocks until it exits.
JobLaunch(r) ==
    /\ job[r].pc = "launch"
    /\ job' = [job EXCEPT ![r].pc = "wait"]
    /\ pipe' = [pipe EXCEPT ![r] = "running"]
    /\ UNCHANGED <<file, bot, poller, world, record>>

\* markCombatTestRunFinished reads the state there is now and writes the
\* result on it, whichever run's state that is; with no state it writes nothing.
\* A job this hasty is overwritten by the bot's second write in start.
JobMark(r) ==
    /\ job[r].pc = "wait"
    /\ pipe[r] \in {"ok", "failed"}
    /\ job' = [job EXCEPT ![r] =
                 IF file = Blank THEN Exiting
                 ELSE [pc |-> "truncateEnd", out |-> Finished(file, pipe[r] = "ok")]]
    /\ lapses' = lapses \cup TornRead \cup
         (IF bot.op = "start" /\ bot.out.run = r THEN {"hastyJob"} ELSE {})
    /\ UNCHANGED <<file, bot, poller, pipe, world, used, stopped, told, again>>

\* The wrapper's pid is gone once its parent has waited for it: the bot does so
\* in its event loop, never within a command; the system does for an orphan.
JobExit(r) ==
    /\ job[r].pc = "exit"
    /\ r \in children => bot.pc = "idle"
    /\ job' = [job EXCEPT ![r].pc = "gone"]
    /\ UNCHANGED <<file, bot, poller, pipe, world, record>>

\* The wrapper alone is killed from outside: its pipeline goes on.
JobDies(r) ==
    /\ "death" \in Faults
    /\ Alive(r) /\ job[r].pc # "exit"
    /\ job' = [job EXCEPT ![r] = Exiting]
    /\ lapses' = lapses \cup {"killed"}
    /\ UNCHANGED <<file, bot, poller, pipe, world, used, stopped, told, again>>

-----------------------------------------------------------------------------
(* The pipeline, time and crashes                                          *)

\* The pipeline publishes to the API in one of its steps ...
PipePublish(r) ==
    /\ pipe[r] = "running"
    /\ pipe' = [pipe EXCEPT ![r] = "published"]
    /\ UNCHANGED <<file, bot, poller, job, world, record>>

\* ... and may still fail in a later one.
PipeExit(r, ok) ==
    /\ Working(r)
    /\ ok => pipe[r] = "published"
    /\ pipe' = [pipe EXCEPT ![r] = IF ok THEN "ok" ELSE "failed"]
    /\ UNCHANGED <<file, bot, poller, job, world, record>>

\* 15 s have passed since the start of r.
Age(r) ==
    /\ r \in recent
    /\ recent' = recent \ {r}
    /\ UNCHANGED <<file, bot, poller, job, pipe, children, crashes, record>>

\* The bot dies wherever it is; the wrappers are detached and live on.
BotCrash ==
    /\ "crash" \in Faults
    /\ bot.pc # "down"
    /\ crashes < MaxCrashes
    /\ crashes' = crashes + 1
    /\ bot' = Down
    /\ poller' = Quiet
    /\ children' = {}
    /\ lapses' = lapses \cup (IF bot.op = "start" THEN {"startCut"} ELSE {})
    /\ UNCHANGED <<file, job, pipe, recent, used, stopped, told, again>>

BotRestart ==
    /\ bot.pc = "down"
    /\ bot' = Idle
    /\ OnlyBot

-----------------------------------------------------------------------------
Init ==
    /\ file = Blank
    /\ bot = Idle
    /\ poller = Quiet
    /\ job = [r \in Run |-> [pc |-> "none", out |-> Blank]]
    /\ pipe = [r \in Run |-> "none"]
    /\ recent = {} /\ children = {}
    /\ crashes = 0
    /\ used = {} /\ stopped = {}
    /\ told = [r \in Run |-> {}]
    /\ again = {} /\ lapses = {}

\* What the bot's thread does once it has begun.
BotStep ==
    \/ BotCheck \/ BotTruncate \/ BotFill
    \/ BotReplies \/ Peek \/ (\E r \in Run : StartAccepted(r)) \/ Spawn \/ SpawnFails
    \/ OpenThrows
    \/ StopFound \/ StopKill

Sent == \E result \in {"succeeded", "failed", "dropped"} : NotifySent(result)

JobStep(r) ==
    \/ JobBoot(r) \/ JobTruncate(r) \/ JobFill(r)
    \/ JobLaunch(r) \/ JobMark(r) \/ JobExit(r)

PipeStep(r) == PipePublish(r) \/ \E ok \in BOOLEAN : PipeExit(r, ok)

Next ==
    \/ \E op \in {"start", "stop", "progress", "peek"} : BotRead(op)
    \/ BotStep
    \/ Sent
    \/ \E arrived \in BOOLEAN : NotifyThrows(arrived)
    \/ MarkNotified
    \/ \E r \in Run :
         JobStep(r) \/ JobDies(r) \/ PipeStep(r) \/ Age(r)
    \/ BotCrash \/ BotRestart

Spec == Init /\ [][Next]_vars

(* A function of the bot that has begun runs to its end, a bot that is down is
   restarted by its LaunchAgent, processes take their steps, a pipeline ends and
   time passes.  The timers and promises of the bot are served between
   commands, however many commands come, and a message that is tried again and
   again gets through at last: hence SF. *)
Fairness ==
    /\ WF_vars(BotStep) /\ WF_vars(BotRestart)
    /\ SF_vars(BotRead("peek")) /\ SF_vars(MarkNotified)
    /\ SF_vars(Sent)
    /\ \A r \in Run :
         /\ WF_vars(JobBoot(r) \/ JobTruncate(r) \/ JobFill(r) \/ JobLaunch(r)
                    \/ JobMark(r))
         /\ SF_vars(JobExit(r))
         /\ WF_vars(\E ok \in BOOLEAN : PipeExit(r, ok))
         /\ WF_vars(Age(r))

FairSpec == Spec /\ Fairness

-----------------------------------------------------------------------------
(* Properties                                                              *)

Lapses == {"startCut", "tornRead", "overtaken", "hastyJob", "killed", "unacknowledged"}
\* The bot was not cut off inside start, and no read fell between another process
\* truncating and filling the file.
Orderly == lapses \cap {"startCut", "tornRead"} = {}

\* Every variable stays in its range.
TypeOK ==
    /\ file \in State
    /\ bot \in [pc: {"down", "idle", "check", "decide", "spawn", "kill",
                     "truncate", "fill"},
                op: Ops, view: State, out: State, next: {"idle", "decide", "spawn"}]
    /\ poller \in [phase: {"quiet", "sending", "sent"}, pending: State]
    /\ job \in [Run -> [pc: {"none", "boot", "truncatePid", "fillPid", "launch",
                             "wait", "truncateEnd", "fillEnd", "exit", "gone"},
                        out: State]]
    /\ pipe \in [Run -> {"none", "running", "published", "ok", "failed"}]
    /\ recent \subseteq Run /\ children \subseteq Run
    /\ crashes \in 0..MaxCrashes
    /\ used \subseteq Run /\ stopped \subseteq Run
    /\ told \in [Run -> SUBSET {"succeeded", "failed", "dropped"}]
    /\ again \subseteq Run /\ lapses \subseteq Lapses

\* The wrapper of r, or the wrapper or the pipeline, has something left to do.
Busy(r) == job[r].pc \in {"boot", "truncatePid", "fillPid", "launch", "wait",
                          "truncateEnd", "fillEnd"}
Unfinished(r) == Busy(r) \/ Working(r)

\* Two wrappers are never at work at the same time, whatever crashes or is killed;
\* nor two simulations, unless a wrapper was killed and left its pipeline behind.
OneAtATime ==
    Orderly =>
        \A r, s \in Run :
            (IF "killed" \in lapses THEN Busy(r) /\ Busy(s)
             ELSE Unfinished(r) /\ Unfinished(s)) => r = s

\* Once an administrator is told that a run is terminated, nothing of it is
\* left that could still publish.
StopIsFinal == Orderly => \A r \in stopped : ~Unfinished(r)

\* A chat is told that its run succeeded only if that run's pipeline did.
SuccessIsTrue ==
    Orderly => \A r \in Run : "succeeded" \in told[r] => pipe[r] = "ok"

\* A chat is told that its run failed only if its pipeline did not succeed,
\* unless the wrapper that should have said so was killed or too hasty, or ended,
\* orphaned by a crash of the bot, while reconcile held the state it read before.
FailureIsTrue ==
    Orderly /\ crashes = 0 /\ lapses \cap {"hastyJob", "killed"} = {} =>
        \A r \in Run : "failed" \in told[r] => pipe[r] # "ok"

\* A chat hears of its run once, unless a message that arrived was reported as
\* failed or the bot crashed before it marked the run.
ToldOnce == Orderly /\ crashes = 0 /\ "unacknowledged" \notin lapses => again = {}

\* A state marked as notified belongs to a run whose chat was told, or that
\* was terminated, unless another run was started while the message was sent.
NotifiedIsTold ==
    Orderly /\ "overtaken" \notin lapses /\ file.notified =>
        told[file.run] # {} \/ file.run \in stopped

\* What the bot tells a chat and what it notes of it agree.
NoticesAreTrue == ToldOnce /\ NotifiedIsTold

\* The state file never locks the command for ever: once no more runs are
\* started, it stops saying "running", whatever died in between.
LockIsReleased == <>[](file.status # "running")

\* Another run's state has taken the place of the state of r.
Superseded(r) == file.run \notin {r, NoRun}

Excused == ~Orderly \/ "overtaken" \in lapses

\* Every run's chat is told its result, or the run is terminated or superseded,
\* unless another run was started while a message was being sent.
EveryRunSettles ==
    \A r \in Run :
        r \in used ~> \/ told[r] # {} \/ r \in stopped \/ Superseded(r)
                      \/ Excused

\* A run neither blocks the command for ever nor ends in silence.
RunsEnd == LockIsReleased /\ EveryRunSettles

-----------------------------------------------------------------------------
(* What the bot says when it starts a run ("the result is sent to this     *)
(* conversation when it is finished") does not hold:                       *)

\* A run that has ended and is marked as notified was told to its chat, or was
\* terminated.
NoSilentFinish ==
    Orderly /\ file.status \in {"succeeded", "failed"} /\ file.notified =>
        told[file.run] # {} \/ file.run \in stopped
=============================================================================
