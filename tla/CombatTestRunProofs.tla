------------------------ MODULE CombatTestRunProofs ------------------------
(***************************************************************************)
(* Proofs about test runs and the reports they publish: CombatTestRun, for *)
(* any number of runs, any set of faults and any number of crashes, and    *)
(* ReportAssets, for any images, directories, commands and uploads.        *)
(*                                                                         *)
(* The program keeps no lock: what keeps a second wrapper from being       *)
(* spawned is that the state file, and every copy of it that a process     *)
(* holds between a read and the write that follows, names the run whose    *)
(* wrapper is at work and says "running" with that wrapper's pid.  That is *)
(* the inductive invariant; it holds as long as a behaviour is orderly.    *)
(*                                                                         *)
(* What the chats are told rests on three more invariants, each inductive  *)
(* on top of that one while the lapses its property excuses do not occur:  *)
(* they say of every copy of the state what a bare look at the file cannot.*)
(***************************************************************************)
EXTENDS CombatTestRun, ReportAssets, TLAPS

\* The bot is between accepting a start of r and spawning its wrapper.
Starting(r) ==
    \/ bot.pc \in {"truncate", "fill"} /\ bot.next = "spawn" /\ bot.out.run = r
    \/ bot.pc = "spawn" /\ bot.view.run = r

\* The bot is in start, where a running state may still lack its pid.
InStart == bot.op = "start" /\ bot.pc \in {"spawn", "truncate", "fill"}

\* Copy s of the state is of a run there is, and does not claim a success in vain.
Honest(s) ==
    /\ s.run \in used \cup {NoRun}
    /\ s.status = "succeeded" => s.run \in Run /\ pipe[s.run] = "ok"

\* If a copy says "running", it holds the pid of the wrapper, or none where start threw
\* before there was one.
Tracked(s) ==
    s.status = "running" =>
        s.run \in Run /\ (s.pid = s.run \/ (s.pid = NoRun /\ job[s.run].pc = "none"))

\* If a wrapper is at work, the copy is the state of its run.
Current(s) == \A r \in Run : Busy(r) => s.run = r /\ s.status = "running"

NobodyBusy == \A r \in Run : ~Busy(r)

Alone == \A r, s \in Run : Busy(r) /\ Busy(s) => r = s

FileInv ==
    /\ Honest(file)
    /\ file = Blank \/ Current(file)
    /\ ~InStart => Tracked(file)

ViewInv ==
    /\ Honest(bot.view)
    /\ bot.pc \in {"check", "decide", "kill"} => Tracked(bot.view) /\ Current(bot.view)
    /\ bot.pc = "kill" => bot.view.status = "running"

OutInv ==
    /\ Honest(bot.out)
    /\ bot.pc \in {"truncate", "fill"} =>
         /\ bot.next # "idle" => NobodyBusy
         /\ bot.next = "idle" => Current(bot.out)
         /\ bot.next = "decide" => bot.out.status = "failed"
         /\ bot.next = "spawn" => bot.out.status = "running" /\ bot.op = "start"
         /\ bot.next = "idle" => Tracked(bot.out)

StartInv ==
    /\ \A r \in Run : Starting(r) => job[r].pc = "none" /\ r \in used /\ r \notin stopped
    /\ bot.pc = "spawn" =>
         /\ bot.op = "start" /\ NobodyBusy
         /\ bot.view.run \in Run /\ bot.view.status = "running"
         /\ \/ file = Blank
            \/ file.run = bot.view.run /\ file.status = "running" /\ file.pid = NoRun
    /\ bot.next = "spawn" => bot.out.run \in Run /\ bot.out.pid = NoRun

JobInv ==
    \A r \in Run :
        /\ job[r].pc \in {"truncatePid", "fillPid"} =>
             job[r].out.run = r /\ job[r].out.pid = r /\ job[r].out.status = "running"
        /\ job[r].pc \in {"truncateEnd", "fillEnd"} =>
             /\ job[r].out.run = r /\ job[r].out.status \in {"succeeded", "failed"}
             /\ job[r].out.status = "succeeded" => pipe[r] = "ok"
        /\ job[r].pc \in {"none", "boot", "truncatePid", "fillPid", "launch"} =>
             pipe[r] = "none"
        /\ job[r].pc # "none" => r \in used
        /\ "killed" \notin lapses /\ Working(r) => job[r].pc = "wait"

StopInv == \A r \in stopped : r \in used /\ ~Unfinished(r)

ToldInv ==
    /\ Honest(poller.pending)
    /\ \A r \in Run : "succeeded" \in told[r] => pipe[r] = "ok"

Sound ==
    /\ Alone /\ FileInv /\ ViewInv /\ OutInv /\ StartInv /\ JobInv /\ StopInv
    /\ ToldInv

-----------------------------------------------------------------------------
(* Type correctness                                                        *)

\* A copy that some step is about to use is the state of a run.
InUse ==
    /\ bot.pc \in {"spawn", "kill"} => bot.view \in Written
    /\ bot.next = "spawn" => bot.out \in Written
    /\ poller.phase # "quiet" =>
         poller.pending \in Written /\ poller.pending.status # "running"

TypeInv == TypeOK /\ InUse

LEMMA StatesHaveType ==
    /\ Blank \in State /\ Written \subseteq State
    /\ \A r \in Run : Fresh(r) \in Written
    /\ \A s \in State : s # Blank => s \in Written
    /\ \A s \in State : s.status # "blank" => s \in Written
    /\ \A s \in Written :
         /\ Failed(s) \in Written /\ Stopped(s) \in Written /\ Notified(s) \in Written
         /\ \A ok \in BOOLEAN : Finished(s, ok) \in Written
         /\ \A r \in Run : [s EXCEPT !.pid = r] \in Written
<1>1. Blank \in State /\ Written \subseteq State /\ \A r \in Run : Fresh(r) \in Written
  BY DEF State, Written, Fresh
<1>2. \A s \in State : s # Blank \/ s.status # "blank" => s \in Written
  BY DEF State, Blank
<1>3. ASSUME NEW s \in Written
      PROVE  /\ Failed(s) \in Written /\ Stopped(s) \in Written /\ Notified(s) \in Written
             /\ \A ok \in BOOLEAN : Finished(s, ok) \in Written
             /\ \A r \in Run : [s EXCEPT !.pid = r] \in Written
  BY DEF Written, Failed, Stopped, Notified, Finished
<1> QED
  BY <1>1, <1>2, <1>3

LEMMA TypeInit == Init => TypeInv
<1> SUFFICES ASSUME Init PROVE TypeInv
  OBVIOUS
<1>1. Blank \in State
  BY StatesHaveType
<1> QED
  BY <1>1, MaxCrashesAssumption
  DEF Init, TypeInv, InUse, TypeOK, Idle, At, Quiet, Ops, Lapses

\* Every variable stays in its range (TypeInv), whatever the program does.
LEMMA TypeNext == TypeInv /\ [Next]_vars => TypeInv'
<1> SUFFICES ASSUME TypeInv, [Next]_vars PROVE TypeInv'
  OBVIOUS
<1> USE DEF TypeInv, InUse, TypeOK, Lapses, TornRead, world, record
<1>0. /\ Blank \in State
      /\ Idle \in [pc: {"idle"}, op: Ops, view: State, out: State, next: {"idle"}]
  BY StatesHaveType DEF Idle, At, Ops
<1>1. ASSUME NEW op \in {"start", "stop", "progress", "peek"}, BotRead(op) PROVE TypeInv'
  BY <1>1, <1>0 DEF BotRead, Ops, Idle, At
<1>2. CASE BotCheck
  BY <1>2, StatesHaveType DEF BotCheck, Write, OnlyBot
<1>3. CASE BotTruncate
  BY <1>3, <1>0 DEF BotTruncate
<1>4. CASE BotFill
  BY <1>4, <1>0 DEF BotFill, Filled
<1>5. CASE BotReplies \/ OpenThrows
  BY <1>5, <1>0 DEF BotReplies, OpenThrows, BotReturns, OnlyBot
<1>6. CASE Peek
  BY <1>6, <1>0, StatesHaveType DEF Peek, Pending, BotReturns, Quiet
<1>7. ASSUME NEW r \in Run, StartAccepted(r) PROVE TypeInv'
  BY <1>7, StatesHaveType DEF StartAccepted, Write
<1>8. CASE Spawn
  <2>1. bot.view \in Written /\ bot.view.run \in Run
    BY <1>8 DEF Spawn, Written
  <2>2. [bot.view EXCEPT !.pid = bot.view.run] \in Written
    BY <2>1, StatesHaveType
  <2> QED
    BY <1>8, <2>1, <2>2, StatesHaveType DEF Spawn, Write
<1>9. CASE SpawnFails
  BY <1>9, StatesHaveType DEF SpawnFails, Write, OnlyBot
<1>10. CASE StopFound
  BY <1>10, StatesHaveType DEF StopFound, OnlyBot, Active
<1>11. CASE StopKill
  <2>1. bot.view \in Written /\ bot.view.run \in Run /\ Stopped(bot.view) \in Written
    BY <1>11, StatesHaveType DEF StopKill, Written
  <2>2. job' \in [Run -> [pc: {"none", "boot", "truncatePid", "fillPid", "launch",
                             "wait", "truncateEnd", "fillEnd", "exit", "gone"},
                          out: State]]
    BY <1>11, StatesHaveType DEF StopKill, Exiting
  <2>3. pipe' \in [Run -> {"none", "running", "published", "ok", "failed"}]
    BY <1>11 DEF StopKill, PipeKilled
  <2> QED
    BY <1>11, <2>1, <2>2, <2>3, StatesHaveType DEF StopKill, Write
<1>12. CASE Sent
  <2>1. poller.pending \in Written /\ poller.pending.run \in Run
    BY <1>12 DEF Sent, NotifySent, Written
  <2> QED
    BY <1>12, <2>1 DEF Sent, NotifySent, Tell
<1>13. ASSUME NEW arrived \in BOOLEAN, NotifyThrows(arrived) PROVE TypeInv'
  <2>1. /\ poller.pending \in Written /\ poller.pending.run \in Run
        /\ poller.pending.status \in {"succeeded", "failed"}
    BY <1>13 DEF NotifyThrows, Written
  <2>2. told' \in [Run -> SUBSET {"succeeded", "failed", "dropped"}] /\ again' \subseteq Run
    BY <1>13, <2>1 DEF NotifyThrows, Tell
  <2> QED
    BY <1>13, <1>0, <2>2 DEF NotifyThrows, Quiet
<1>14. CASE MarkNotified
  BY <1>14, StatesHaveType, <1>0 DEF MarkNotified, Write, BotReturns, Quiet
<1>15. ASSUME NEW r \in Run, JobBoot(r) PROVE TypeInv'
  BY <1>15, StatesHaveType DEF JobBoot
<1>16. ASSUME NEW r \in Run, JobTruncate(r) PROVE TypeInv'
  BY <1>16, StatesHaveType DEF JobTruncate
<1>17. ASSUME NEW r \in Run, JobFill(r) PROVE TypeInv'
  BY <1>17, StatesHaveType DEF JobFill, Filled
<1>18. ASSUME NEW r \in Run, JobLaunch(r) PROVE TypeInv'
  BY <1>18 DEF JobLaunch
<1>19. ASSUME NEW r \in Run, JobMark(r) PROVE TypeInv'
  BY <1>19, StatesHaveType DEF JobMark, Exiting
<1>20. ASSUME NEW r \in Run, JobExit(r) PROVE TypeInv'
  BY <1>20 DEF JobExit
<1>21. ASSUME NEW r \in Run, JobDies(r) PROVE TypeInv'
  BY <1>21, StatesHaveType DEF JobDies, Exiting
<1>22. ASSUME NEW r \in Run, PipeStep(r) PROVE TypeInv'
  BY <1>22 DEF PipeStep, PipePublish, PipeExit, Working
<1>23. ASSUME NEW r \in Run, Age(r) PROVE TypeInv'
  BY <1>23 DEF Age
<1>24. CASE BotCrash
  BY <1>24, StatesHaveType, MaxCrashesAssumption DEF BotCrash, Down, At, Quiet, Ops
<1>25. CASE BotRestart
  BY <1>25, <1>0 DEF BotRestart, OnlyBot
<1>26. CASE UNCHANGED vars
  BY <1>26 DEF vars, system
<1> QED
  BY <1>1, <1>2, <1>3, <1>4, <1>5, <1>6, <1>7, <1>8, <1>9, <1>10, <1>11, <1>12, <1>13, <1>14, <1>15, <1>16, <1>17, <1>18, <1>19, <1>20, <1>21, <1>22, <1>23, <1>24, <1>25, <1>26
  DEF Next, BotStep, JobStep, PipeStep

\* The type invariant holds in every reachable state.
THEOREM TypeCorrect == Spec => []TypeOK
<1>1. Spec => []TypeInv
  BY TypeInit, TypeNext, PTL DEF Spec
<1> QED
  BY <1>1, PTL DEF TypeInv

-----------------------------------------------------------------------------
(* The inductive invariant                                                 *)

\* In an orderly behaviour a read that finds no state finds nobody at work.
LEMMA BlankMeansNobody ==
    JobInv /\ lapses' = lapses \cup TornRead /\ Orderly' /\ file = Blank => NobodyBusy
<1> SUFFICES ASSUME JobInv, lapses' = lapses \cup TornRead, Orderly', file = Blank
             PROVE  NobodyBusy
  OBVIOUS
<1>1. "tornRead" \notin lapses'
  BY DEF Orderly
<1>2. used = {}
  BY <1>1 DEF TornRead
<1> QED
  BY <1>2 DEF JobInv, NobodyBusy, Busy

\* StopKill: the view names the only wrapper there can be, with its pid, so the
\* signal reaches it and its pipeline, and afterwards nobody is at work.
LEMMA StopKillSound ==
    TypeInv /\ Sound /\ StopKill => Sound'
<1> SUFFICES ASSUME TypeInv, Sound, StopKill PROVE Sound'
  OBVIOUS
<1> USE RunAssumption
<1>0. /\ job \in [Run -> [pc: {"none", "boot", "truncatePid", "fillPid", "launch",
                             "wait", "truncateEnd", "fillEnd", "exit", "gone"},
                        out: State]]
      /\ pipe \in [Run -> {"none", "running", "published", "ok", "failed"}]
  BY DEF TypeInv, TypeOK
<1>1. PICK p \in Run :
        /\ bot.view.run = p /\ p # NoRun /\ p \in used
        /\ bot.view.pid = p \/ (bot.view.pid = NoRun /\ job[p].pc = "none" /\ pipe[p] = "none")
        /\ Current(bot.view) /\ Honest(bot.view) /\ bot.view \in Written
  BY DEF TypeInv, InUse, StopKill, Sound, ViewInv, JobInv, Tracked, Honest
<1>2. /\ job' = IF Alive(p) THEN [job EXCEPT ![p] = Exiting] ELSE job
      /\ pipe' = IF Working(p) THEN [pipe EXCEPT ![p] = "failed"] ELSE pipe
      /\ stopped' = stopped \cup {p} /\ Write(Stopped(bot.view), "idle")
      /\ UNCHANGED <<file, poller, used, told, lapses>>
  BY <1>1 DEF StopKill, PipeKilled, Alive, Working
<1>3. \A r \in Run : job'[r] = job[r] \/ (r = p /\ job'[r] = Exiting /\ job[r].pc # "none")
  BY <1>0, <1>1, <1>2 DEF Alive
<1>4. \A r \in Run : pipe'[r] = pipe[r] \/ (r = p /\ pipe'[r] = "failed" /\ Working(r))
  BY <1>0, <1>1, <1>2
<1>5. ~Working(p)'
  BY <1>0, <1>1, <1>2 DEF Working
<1>6. \A r \in Run : ~Busy(r)'
  <2>1. ~Busy(p)'
    BY <1>0, <1>1, <1>2 DEF Busy, Alive, Exiting
  <2>2. ASSUME NEW r \in Run, r # p PROVE ~Busy(r)'
    BY <1>0, <1>1, <1>2, <1>3, <2>2 DEF Busy, Exiting, Current
  <2> QED
    BY <2>1, <2>2
<1>7. \A r \in Run : pipe[r] = "ok" => pipe'[r] = "ok"
  BY <1>4 DEF Working
<1>8. FileInv'
  BY <1>1, <1>2, <1>3, <1>6, <1>7
  DEF Sound, FileInv, Honest, Current, Tracked, InStart, Write, StopKill
<1>9. ViewInv' /\ OutInv'
  <2>1. bot'.out.run = p /\ bot'.out.status = "failed" /\ bot'.view = Blank
    BY <1>1, <1>2 DEF Write, Stopped, Written
  <2>2. bot'.pc = "truncate" /\ bot'.next = "idle"
    BY <1>2 DEF Write
  <2> QED
    BY <1>1, <1>2, <1>6, <2>1, <2>2
    DEF ViewInv, OutInv, Blank, Honest, Current, Tracked
<1>10. JobInv'
  <2>1. \A r \in Run : Working(r)' => Working(r) /\ job'[r] = job[r]
    BY <1>3, <1>4, <1>5 DEF Working
  <2> QED
    BY <1>2, <1>3, <1>4, <1>7, <2>1 DEF Sound, JobInv, Working, Exiting
<1>11. StopInv'
  BY <1>1, <1>2, <1>4, <1>5, <1>6 DEF Sound, StopInv, Unfinished, Working, TypeInv, TypeOK
<1>12. ToldInv' /\ StartInv' /\ Alone'
  BY <1>2, <1>6, <1>7 DEF Sound, ToldInv, Honest, StartInv, Starting, Write, Alone
<1> QED
  BY <1>8, <1>9, <1>10, <1>11, <1>12 DEF Sound

LEMMA SoundNext ==
    TypeInv /\ TypeInv' /\ Sound /\ Orderly' /\ [Next]_vars => Sound'
<1> SUFFICES ASSUME TypeInv, TypeInv', Sound, Orderly', [Next]_vars
             PROVE  Sound'
  OBVIOUS
<1> USE RunAssumption DEF TypeInv, InUse, TypeOK, Orderly, TornRead, world, record, 
     Sound, Alone, FileInv, ViewInv, OutInv, StartInv, JobInv, StopInv, ToldInv,
     Honest, Tracked, Current, NobodyBusy, InStart, Starting, Busy, Unfinished, Working, Alive, Blank, State, Written
<1>1. ASSUME NEW op \in {"start", "stop", "progress", "peek"}, BotRead(op) PROVE Sound'
  <2>1. file = Blank => NobodyBusy
    BY <1>1, BlankMeansNobody DEF BotRead
  <2>2. FileInv' /\ ViewInv'
    BY <1>1, <2>1 DEF BotRead, Idle, At
  <2>3. OutInv' /\ StartInv'
    BY <1>1 DEF BotRead, Idle, At
  <2> QED
    BY <1>1, <2>2, <2>3 DEF BotRead
<1>2. CASE BotCheck
  BY <1>2 DEF BotCheck, Write, OnlyBot, Failed, Active
<1>3. CASE BotTruncate
  BY <1>3 DEF BotTruncate
<1>4. CASE BotFill
  BY <1>4 DEF BotFill, Filled, Idle, At
<1>5. CASE BotReplies \/ OpenThrows
  BY <1>5 DEF BotReplies, OpenThrows, BotReturns, OnlyBot, Idle, At
<1>6. CASE Peek
  BY <1>6 DEF Peek, BotReturns, Quiet, Idle, At
<1>7. ASSUME NEW r \in Run, StartAccepted(r) PROVE Sound'
  BY <1>7 DEF StartAccepted, Write, Fresh, Active
<1>8. CASE Spawn
  BY <1>8 DEF Spawn, Write
<1>9. CASE SpawnFails
  BY <1>9 DEF SpawnFails, Write, OnlyBot, Failed
<1>10. CASE StopFound
  BY <1>10 DEF StopFound, OnlyBot, Active
<1>11. CASE StopKill
  BY <1>11, StopKillSound
<1>12. CASE Sent
  BY <1>12 DEF Sent, NotifySent, Tell
<1>13. ASSUME NEW arrived \in BOOLEAN, NotifyThrows(arrived) PROVE Sound'
  BY <1>13 DEF NotifyThrows, Tell, Quiet, Pending
<1>14. CASE MarkNotified
  BY <1>14 DEF MarkNotified, Write, BotReturns, Quiet, Notified, Idle, At
<1>15. ASSUME NEW r \in Run, JobBoot(r) PROVE Sound'
  BY <1>15 DEF JobBoot
<1>16. ASSUME NEW r \in Run, JobTruncate(r) PROVE Sound'
  BY <1>16 DEF JobTruncate
<1>17. ASSUME NEW r \in Run, JobFill(r) PROVE Sound'
  BY <1>17 DEF JobFill, Filled
<1>18. ASSUME NEW r \in Run, JobLaunch(r) PROVE Sound'
  BY <1>18 DEF JobLaunch
<1>19. ASSUME NEW r \in Run, JobMark(r) PROVE Sound'
  BY <1>19 DEF JobMark, Exiting, Finished
<1>20. ASSUME NEW r \in Run, JobExit(r) PROVE Sound'
  BY <1>20 DEF JobExit
<1>21. ASSUME NEW r \in Run, JobDies(r) PROVE Sound'
  BY <1>21 DEF JobDies, Exiting
<1>22. ASSUME NEW r \in Run, PipeStep(r) PROVE Sound'
  BY <1>22 DEF PipeStep, PipePublish, PipeExit, Working
<1>23. ASSUME NEW r \in Run, Age(r) PROVE Sound'
  BY <1>23 DEF Age
<1>24. CASE BotCrash
  <2>1. bot.op # "start"
    BY <1>24 DEF BotCrash
  <2> QED
    BY <1>24, <2>1 DEF BotCrash, Down, At, Quiet
<1>25. CASE BotRestart
  BY <1>25 DEF BotRestart, OnlyBot, Idle, At
<1>26. CASE UNCHANGED vars
  BY <1>26 DEF vars, system
<1> HIDE DEF TypeInv, InUse, TypeOK, Orderly, world, record, Sound, Working
<1> QED
  BY <1>1, <1>2, <1>3, <1>4, <1>5, <1>6, <1>7, <1>8, <1>9, <1>10, <1>11, <1>12, <1>13, <1>14, <1>15, <1>16, <1>17, <1>18, <1>19, <1>20, <1>21, <1>22, <1>23, <1>24, <1>25, <1>26
  DEF Next, BotStep, JobStep


\* The initial state is sound: nothing has been written and nobody is at work.
LEMMA SoundInit == Init => Sound
  BY RunAssumption
  DEF Init, Idle, At, Quiet, Blank, Sound, Alone, FileInv, ViewInv, OutInv, StartInv,
      JobInv, StopInv, ToldInv, Honest, Tracked, Current, InStart, Starting, Busy, Working

\* Once a behaviour is not orderly it stays so.
LEMMA LapsesStay == [Next]_vars /\ Orderly' => Orderly
<1> SUFFICES ASSUME [Next]_vars, Orderly' PROVE Orderly
  OBVIOUS
<1>1. lapses \subseteq lapses'
  BY DEF Next, BotStep, JobStep, PipeStep, vars, system, world, record, OnlyBot, TornRead,
         BotRead, BotCheck, BotTruncate, BotFill, BotReplies, Peek, StartAccepted, Spawn,
         SpawnFails, OpenThrows, StopFound, StopKill, Sent, NotifySent, NotifyThrows, MarkNotified,
         JobBoot, JobTruncate, JobFill, JobLaunch, JobMark, JobExit, JobDies,
         PipePublish, PipeExit, Age, BotCrash, BotRestart
<1> QED
  BY <1>1 DEF Orderly

Inv == TypeInv /\ (Orderly => Sound)

\* The inductive invariant holds in every reachable state.
LEMMA Invariant == Spec => []Inv
<1>1. Init => Inv
  BY TypeInit, SoundInit DEF Inv
<1>2. Inv /\ [Next]_vars => Inv'
  BY TypeNext, SoundNext, LapsesStay DEF Inv
<1> QED
  BY <1>1, <1>2, PTL DEF Spec

-----------------------------------------------------------------------------
(* What it implies                                                         *)

\* A run an administrator was told is terminated is over for good.
THEOREM StopIsFinalHolds == Spec => []StopIsFinal
<1>1. Inv => StopIsFinal
  BY DEF Inv, Sound, StopInv, StopIsFinal
<1> QED
  BY <1>1, Invariant, PTL

\* A chat is told of a success only when there was one.
THEOREM SuccessIsTrueHolds == Spec => []SuccessIsTrue
<1>1. Inv => SuccessIsTrue
  BY DEF Inv, Sound, ToldInv, SuccessIsTrue
<1> QED
  BY <1>1, Invariant, PTL

\* However many runs are started, two wrappers are never at work at once; nor
\* two pipelines, as long as no wrapper is killed.
THEOREM OneAtATimeHolds == Spec => []OneAtATime
<1>1. Inv => OneAtATime
  <2> SUFFICES ASSUME Inv, Orderly, NEW r \in Run, NEW s \in Run,
                      IF "killed" \in lapses THEN Busy(r) /\ Busy(s)
                      ELSE Unfinished(r) /\ Unfinished(s)
               PROVE  r = s
    BY DEF OneAtATime
  <2>1. Busy(r) /\ Busy(s)
    BY DEF Inv, Sound, JobInv, Unfinished, Busy
  <2> QED
    BY <2>1 DEF Inv, Sound, Alone
<1> QED
  BY <1>1, Invariant, PTL

-----------------------------------------------------------------------------
(* What the chats are told                                                 *)

FileBeingWritten == bot.pc \in {"truncate", "fill"}
Deciding == bot.pc \in {"check", "decide", "kill"}

\* The run was started and its wrapper has nothing left to write.
Over(r) == r \in used /\ ~Busy(r) /\ ~Starting(r)

\* No success of r is to be expected any more.
Lost(r) == pipe[r] = "failed" \/ (Over(r) /\ job[r].pc = "none" /\ pipe[r] = "none")

\* Copy s is of r and would be announced, or be found crashed.
Unmarked(s, r) == s.run = r /\ ~s.notified
Open(s, r) == Unmarked(s, r) /\ s.status = "running"
TrulyFailed(s) == s.status = "failed" /\ ~s.notified => Lost(s.run)

\* FailureIsTrue: while no wrapper is killed, orphaned or too hasty, a copy that
\* says "running" is of a run whose wrapper is still there to end it, or was never
\* spawned: reconcile declares crashed only what can no longer succeed.
FailedInv ==
    /\ \A r \in Run : job[r].pc # "none" => r \in children
    /\ TrulyFailed(file) /\ TrulyFailed(bot.view) /\ TrulyFailed(bot.out)
    /\ poller.phase # "quiet" => ~poller.pending.notified /\ TrulyFailed(poller.pending)
    /\ \A r \in Run :
         /\ job[r].pc \in {"truncateEnd", "fillEnd"} => TrulyFailed(job[r].out)
         /\ "failed" \in told[r] => Lost(r)
         /\ Open(file, r) =>
              \/ Busy(r) \/ job[r].pc = "none"
              \/ FileBeingWritten /\ bot.out.run = r /\ bot.out.status = "failed"
         /\ Deciding /\ Open(bot.view, r) => job[r].pc # "gone"
         /\ FileBeingWritten /\ Open(bot.out, r) =>
              /\ bot.op = "start"
              /\ bot.next # "spawn" =>
                   job[r].pc \in {"boot", "truncatePid", "fillPid", "launch", "wait"}

Steady == Orderly /\ crashes = 0 /\ lapses \cap {"hastyJob", "killed"} = {}

\* ToldOnce: a run whose chat was told stays over, and no copy that could be
\* announced again outlives the poller's mark.
Telling(r) == poller.phase = "sent" /\ poller.pending.run = r

OnceInv ==
    /\ again = {}
    /\ bot.op = "peek" /\ bot.pc \notin {"idle", "down"} => poller.phase = "quiet"
    /\ poller.phase # "quiet" => Over(poller.pending.run)
    /\ poller.phase = "sending" => told[poller.pending.run] = {}
    /\ \A r \in Run : told[r] # {} =>
         /\ Over(r)
         /\ Unmarked(file, r) =>
              Telling(r) \/ (FileBeingWritten /\ bot.out = Notified(file) /\ bot.next = "idle")
         /\ Deciding /\ Unmarked(bot.view, r) => Telling(r)
         /\ FileBeingWritten /\ Unmarked(bot.out, r) => Telling(r)

Attentive == Orderly /\ crashes = 0 /\ "unacknowledged" \notin lapses

\* NotifiedIsTold: while no start overtakes a message, the file holds the run
\* whose message is under way until the poller has marked it.
Noted(s) == s.notified => told[s.run] # {} \/ s.run \in stopped

NotedInv ==
    /\ Noted(file) /\ Noted(bot.view) /\ Noted(bot.out)
    /\ \A r \in Run :
         job[r].pc \in {"truncatePid", "fillPid", "truncateEnd", "fillEnd"} => Noted(job[r].out)
    /\ Deciding => file = Blank \/ file.run = bot.view.run
    /\ FileBeingWritten /\ bot.next = "decide" => file = Blank \/ file.run = bot.out.run
    /\ poller.phase = "sent" => told[poller.pending.run] # {}
    /\ poller.phase # "quiet" =>
         /\ NobodyBusy
         /\ file = Blank \/ file.run = poller.pending.run
         /\ bot.pc # "spawn"
         /\ Deciding => bot.view.run = poller.pending.run
         /\ FileBeingWritten => bot.next # "spawn" /\ bot.out.run = poller.pending.run

Unhurried == Orderly /\ "overtaken" \notin lapses

\* Nothing that has gone wrong is forgotten.
LEMMA LapsesGrow ==
    TypeInv /\ [Next]_vars => lapses \subseteq lapses' /\ (crashes' = 0 => crashes = 0)
BY MaxCrashesAssumption
DEF TypeInv, TypeOK, Next, BotStep, JobStep, PipeStep, vars, system, world, record, OnlyBot, TornRead,
    BotRead, BotCheck, BotTruncate, BotFill, BotReplies, Peek, StartAccepted, Spawn,
    SpawnFails, OpenThrows, StopFound, StopKill, Sent, NotifySent, NotifyThrows, MarkNotified,
    JobBoot, JobTruncate, JobFill, JobLaunch, JobMark, JobExit, JobDies,
    PipePublish, PipeExit, Age, BotCrash, BotRestart

\* Spawn: the view is the state just written, of a run that has no wrapper yet.
LEMMA SpawnFacts ==
    ASSUME TypeInv, Sound, Spawn
    PROVE  /\ bot.pc = "spawn" /\ bot.op = "start" /\ Starting(bot.view.run)
           /\ bot.view \in Written /\ bot.view.run \in Run /\ bot.view.status = "running"
           /\ job[bot.view.run].pc = "none" /\ pipe[bot.view.run] = "none"
           /\ file = Blank \/ (file.run = bot.view.run /\ file.status = "running")
           /\ job' = [job EXCEPT ![bot.view.run].pc = "boot"]
           /\ children' = children \cup {bot.view.run}
           /\ bot'.pc = "truncate" /\ bot'.op = "start" /\ bot'.next = "idle"
           /\ bot'.view = Blank /\ bot'.out.run = bot.view.run
           /\ bot'.out.status = bot.view.status /\ bot'.out.notified = bot.view.notified
           /\ UNCHANGED <<file, poller, pipe, told, used, stopped, again>>
<1>1. bot.pc = "spawn" /\ bot.view \in Written /\ Starting(bot.view.run)
  BY DEF Spawn, TypeInv, InUse, Starting
<1>2. bot.view.run \in Run
  BY <1>1 DEF Written
<1>3. /\ bot.op = "start" /\ bot.view.status = "running"
      /\ job[bot.view.run].pc = "none"
      /\ file = Blank \/ (file.run = bot.view.run /\ file.status = "running")
  BY <1>1, <1>2 DEF Sound, StartInv
<1>4. pipe[bot.view.run] = "none"
  BY <1>2, <1>3 DEF Sound, JobInv
<1>5. /\ job' = [job EXCEPT ![bot.view.run].pc = "boot"]
      /\ children' = children \cup {bot.view.run}
      /\ bot' = [pc |-> "truncate", op |-> bot.op, view |-> Blank,
                 out |-> [bot.view EXCEPT !.pid = bot.view.run], next |-> "idle"]
      /\ UNCHANGED <<file, poller, pipe, told, used, stopped, again>>
  BY DEF Spawn, Write, record
<1> QED
  BY <1>1, <1>2, <1>3, <1>4, <1>5 DEF Written

\* A stop: the wrapper, if it is still there, ends; nothing else begins or ends.
LEMMA StopFacts ==
    ASSUME TypeInv, Sound, StopKill
    PROVE  /\ bot.pc = "kill" /\ bot.view \in Written /\ bot.view.run \in Run
           /\ \A p \in Run : Busy(p) => p = bot.view.run
           /\ \A p \in Run : job'[p] = job[p] \/ (job'[p] = Exiting /\ job[p].pc # "none")
           /\ \A p \in Run : pipe'[p] = pipe[p] \/ (Working(p) /\ pipe'[p] = "failed")
           /\ bot'.pc = "truncate" /\ bot'.next = "idle" /\ bot'.view = Blank
           /\ bot'.op = bot.op /\ bot'.out.run = bot.view.run
           /\ bot'.out.status = "failed" /\ bot'.out.notified
           /\ stopped' = stopped \cup {bot.view.run}
           /\ UNCHANGED <<file, poller, told, used, again, children>>
<1>1. bot.pc = "kill" /\ bot.view \in Written
  BY DEF StopKill, TypeInv, InUse
<1>2. bot.view.run \in Run
  BY <1>1 DEF Written
<1>3. /\ \/ bot.view.pid = bot.view.run
         \/ /\ bot.view.pid = NoRun
            /\ job[bot.view.run].pc = "none" /\ pipe[bot.view.run] = "none"
      /\ Current(bot.view)
  BY <1>1, <1>2 DEF Sound, ViewInv, JobInv, Tracked
<1>4. /\ job' = IF Alive(bot.view.run) THEN [job EXCEPT ![bot.view.run] = Exiting] ELSE job
      /\ pipe' = IF Working(bot.view.run) THEN [pipe EXCEPT ![bot.view.run] = "failed"] ELSE pipe
      /\ bot' = [pc |-> "truncate", op |-> bot.op, view |-> Blank,
                 out |-> Stopped(bot.view), next |-> "idle"]
      /\ stopped' = stopped \cup {bot.view.run}
      /\ UNCHANGED <<file, poller, told, used, again, children>>
  BY <1>2, <1>3, RunAssumption DEF StopKill, PipeKilled, Alive, Working, Write, world
<1>5. \A p \in Run : job'[p] = job[p] \/ (job'[p] = Exiting /\ job[p].pc # "none")
  BY <1>2, <1>4 DEF Alive, TypeInv, TypeOK
<1>6. \A p \in Run : pipe'[p] = pipe[p] \/ (Working(p) /\ pipe'[p] = "failed")
  BY <1>2, <1>4 DEF TypeInv, TypeOK
<1> QED
  BY <1>1, <1>2, <1>3, <1>4, <1>5, <1>6 DEF Current, Stopped, Written

\* A wrapper's step that ends nothing.
LEMMA JobMovesFailed ==
    ASSUME TypeInv, Sound, FailedInv, NEW r \in Run,
           JobTruncate(r) \/ JobLaunch(r) \/ JobExit(r)
    PROVE  FailedInv'
<1>1. /\ \A p \in Run : p # r => job'[p] = job[p]
      /\ job'[r].out = job[r].out
      /\ \/ job[r].pc = "truncatePid" /\ job'[r].pc = "fillPid"
         \/ job[r].pc = "truncateEnd" /\ job'[r].pc = "fillEnd"
         \/ job[r].pc = "launch" /\ job'[r].pc = "wait"
         \/ job[r].pc = "exit" /\ job'[r].pc = "gone" /\ (r \in children => bot.pc = "idle")
  BY DEF JobTruncate, JobLaunch, JobExit, TypeInv, TypeOK
<1>2. /\ UNCHANGED <<bot, poller, children, used, told>>
      /\ file' \in {file, Blank}
  BY DEF JobTruncate, JobLaunch, JobExit, world, record
<1>3. \A p \in Run : pipe'[p] = pipe[p] \/ (p = r /\ job[r].pc = "launch")
  BY DEF JobTruncate, JobLaunch, JobExit, TypeInv, TypeOK
<1>4. \A p \in Run : (Busy(p)' <=> Busy(p)) /\ (Starting(p)' <=> Starting(p))
  BY <1>1, <1>2 DEF Busy, Starting
<1>5. \A p \in Run : Lost(p) => Lost(p)'
  BY <1>1, <1>2, <1>3, <1>4 DEF Lost, Over, Sound, JobInv
<1>6. /\ file.run \in Run \/ file.status = "blank"
      /\ bot.view.run \in Run \/ bot.view.status = "blank"
      /\ bot.out.run \in Run \/ bot.out.status = "blank"
      /\ poller.pending.run \in Run \/ poller.pending.status = "blank"
      /\ \A p \in Run : job[p].out.run \in Run \/ job[p].out.status = "blank"
  BY DEF TypeInv, TypeOK, State, Written, Blank
<1>7. /\ TrulyFailed(file)' /\ TrulyFailed(bot.view)' /\ TrulyFailed(bot.out)'
      /\ poller'.phase # "quiet" => ~poller'.pending.notified /\ TrulyFailed(poller.pending)'
  BY <1>2, <1>5, <1>6 DEF FailedInv, TrulyFailed, Blank
<1>8. \A p \in Run : /\ job'[p].pc # "none" => p \in children'
                     /\ job'[p].pc \in {"truncateEnd", "fillEnd"} => TrulyFailed(job[p].out)'
                     /\ "failed" \in told'[p] => Lost(p)'
  BY <1>1, <1>2, <1>5, <1>6 DEF FailedInv, TrulyFailed
<1>9. \A p \in Run : Open(file, p)' =>
          \/ Busy(p)' \/ job'[p].pc = "none"
          \/ FileBeingWritten' /\ bot'.out.run = p /\ bot'.out.status = "failed"
  BY <1>1, <1>2, <1>4 DEF FailedInv, Open, Unmarked, FileBeingWritten, Blank
<1>10. \A p \in Run : Deciding' /\ Open(bot.view, p)' => job'[p].pc # "gone"
  BY <1>1, <1>2 DEF FailedInv, Open, Unmarked, Deciding
<1>11. \A p \in Run : FileBeingWritten' /\ Open(bot.out, p)' =>
          /\ bot'.op = "start"
          /\ bot'.next # "spawn" =>
               job'[p].pc \in {"boot", "truncatePid", "fillPid", "launch", "wait"}
  BY <1>1, <1>2 DEF FailedInv, Open, Unmarked, FileBeingWritten
<1> QED
  BY <1>7, <1>8, <1>9, <1>10, <1>11 DEF FailedInv

\* A step that leaves a behaviour steady keeps FailedInv.
LEMMA FailedNext ==
    TypeInv /\ TypeInv' /\ Sound /\ Sound' /\ FailedInv /\ Steady' /\ [Next]_vars => FailedInv'
<1> SUFFICES ASSUME TypeInv, TypeInv', Sound, Sound', FailedInv, Steady', [Next]_vars
             PROVE  FailedInv'
  OBVIOUS
<1> USE RunAssumption DEF TypeInv, InUse, TypeOK, Orderly, TornRead, world, record,
     Sound, Alone, FileInv, ViewInv, OutInv, StartInv, JobInv, StopInv, ToldInv,
     Honest, Tracked, Current, NobodyBusy, InStart, Starting, Busy, Unfinished, Working, Alive, Blank, State, Written,
     FileBeingWritten, Deciding, Over, Unmarked,
     FailedInv, Steady, Lost, Open, TrulyFailed
<1>1. ASSUME NEW op \in {"start", "stop", "progress", "peek"}, BotRead(op) PROVE FailedInv'
  BY <1>1 DEF BotRead, Idle, At
<1>2. CASE BotCheck
  BY <1>2 DEF BotCheck, Write, OnlyBot, Failed, Active
<1>3. CASE BotTruncate
  BY <1>3 DEF BotTruncate
<1>4. CASE BotFill
  BY <1>4 DEF BotFill, Filled, Idle, At
<1>5. CASE BotReplies \/ OpenThrows
  BY <1>5 DEF BotReplies, OpenThrows, BotReturns, OnlyBot, Idle, At
<1>6. CASE Peek
  BY <1>6 DEF Peek, BotReturns, Quiet, Idle, At, Pending
<1>7. ASSUME NEW r \in Run, StartAccepted(r) PROVE FailedInv'
  BY <1>7 DEF StartAccepted, Write, Fresh, Active
<1>8. CASE Spawn
  <2> HIDE DEF TypeInv, InUse, TypeOK, Orderly, Sound, Alone, FileInv, ViewInv, OutInv, StartInv, JobInv,
       StopInv, ToldInv, Honest, Tracked, Current, NobodyBusy, Busy, Starting, Unfinished, Working, Blank,
       State, Written, FailedInv, Lost, TrulyFailed, Over, Open, Deciding, FileBeingWritten, world, record
  <2> DEFINE q == bot.view.run
  <2>1. \A p \in Run : job'[p].pc = (IF p = q THEN "boot" ELSE job[p].pc) /\ job'[p].out = job[p].out
    BY <1>8, SpawnFacts DEF TypeInv, TypeOK
  <2>2. \A p \in Run : Lost(p) => Lost(p)'
    BY <1>8, <2>1, SpawnFacts DEF Lost, Over, Starting, Busy
  <2>3. /\ file.run \in Run \/ file.status = "blank"
        /\ poller.pending.run \in Run \/ poller.pending.status = "blank"
        /\ \A p \in Run : job[p].out.run \in Run \/ job[p].out.status = "blank"
    BY DEF TypeInv, TypeOK, State, Written, Blank
  <2> QED
    BY <1>8, <2>1, <2>2, <2>3, SpawnFacts
    DEF FailedInv, TrulyFailed, Open, Unmarked, Deciding, FileBeingWritten, Blank, Busy
<1>9. CASE SpawnFails
  BY <1>9 DEF SpawnFails, Write, OnlyBot, Failed
<1>10. CASE StopFound
  BY <1>10 DEF StopFound, OnlyBot, Active
<1>11. CASE StopKill
  <2> HIDE DEF TypeInv, InUse, TypeOK, Orderly, Sound, Alone, FileInv, ViewInv, OutInv, StartInv, JobInv,
       StopInv, ToldInv, Honest, Tracked, Current, NobodyBusy, Busy, Starting, Unfinished, Working, Blank,
       State, Written, FailedInv, Lost, TrulyFailed, Over, Open, Deciding, FileBeingWritten, world, record
  <2>1. \A p \in Run : Lost(p) => Lost(p)'
    BY <1>11, StopFacts DEF Lost, Over, Starting, Busy, Exiting, Working
  <2>2. /\ file.run \in Run \/ file.status = "blank"
        /\ poller.pending.run \in Run \/ poller.pending.status = "blank"
        /\ \A p \in Run : job[p].out.run \in Run \/ job[p].out.status = "blank"
    BY DEF TypeInv, TypeOK, State, Written, Blank
  <2>3. \A p \in Run : Open(file, p) => p = bot.view.run \/ job[p].pc = "none"
    BY <1>11, StopFacts DEF FailedInv, Starting, FileBeingWritten
  <2> QED
    BY <1>11, <2>1, <2>2, <2>3, StopFacts
    DEF FailedInv, TrulyFailed, Open, Unmarked, Deciding, FileBeingWritten, Blank, Exiting
<1>12. CASE Sent
  BY <1>12 DEF Sent, NotifySent, Tell
<1>13. ASSUME NEW arrived \in BOOLEAN, NotifyThrows(arrived) PROVE FailedInv'
  BY <1>13 DEF NotifyThrows, Tell, Quiet, Pending
<1>14. CASE MarkNotified
  BY <1>14 DEF MarkNotified, Write, BotReturns, Quiet, Notified, Idle, At
<1>15. ASSUME NEW r \in Run, JobBoot(r) PROVE FailedInv'
  BY <1>15 DEF JobBoot
<1>16. ASSUME NEW r \in Run, JobTruncate(r) PROVE FailedInv'
  <2> HIDE DEF TypeInv, InUse, TypeOK, Orderly, Sound, Alone, FileInv, ViewInv, OutInv, StartInv, JobInv,
       StopInv, ToldInv, Honest, Tracked, Current, NobodyBusy, Busy, Starting, Unfinished, Working, Blank,
       State, Written, FailedInv, Lost, TrulyFailed, Over, Open, Deciding, FileBeingWritten, world, record
  <2> QED
    BY <1>16, JobMovesFailed
<1>17. ASSUME NEW r \in Run, JobFill(r) PROVE FailedInv'
  BY <1>17 DEF JobFill, Filled
<1>18. ASSUME NEW r \in Run, JobLaunch(r) PROVE FailedInv'
  <2> HIDE DEF TypeInv, InUse, TypeOK, Orderly, Sound, Alone, FileInv, ViewInv, OutInv, StartInv, JobInv,
       StopInv, ToldInv, Honest, Tracked, Current, NobodyBusy, Busy, Starting, Unfinished, Working, Blank,
       State, Written, FailedInv, Lost, TrulyFailed, Over, Open, Deciding, FileBeingWritten, world, record
  <2> QED
    BY <1>18, JobMovesFailed
<1>19. ASSUME NEW r \in Run, JobMark(r) PROVE FailedInv'
  <2>1. /\ job[r].pc = "wait" /\ Busy(r) /\ pipe[r] \in {"ok", "failed"}
        /\ file = Blank \/ (file.run = r /\ file.status = "running")
    BY <1>19 DEF JobMark
  <2>2. ~(bot.op = "start" /\ bot.out.run = r)
    <3>1. "hastyJob" \notin lapses'
      BY DEF Steady
    <3> QED
      BY <1>19, <3>1 DEF JobMark
  <2>3. UNCHANGED <<file, bot, poller, pipe, told, used, children>>
    BY <1>19 DEF JobMark
  <2>4. job' = [job EXCEPT ![r] =
                  IF file = Blank THEN Exiting
                  ELSE [pc |-> "truncateEnd", out |-> Finished(file, pipe[r] = "ok")]]
    BY <1>19 DEF JobMark
  <2> HIDE DEF TypeInv, InUse, TypeOK, Orderly, Sound, Alone, FileInv, ViewInv, OutInv, StartInv, JobInv,
       StopInv, ToldInv, Honest, Tracked, Current, NobodyBusy, Busy, Starting, Unfinished, Working, Blank,
       State, Written, FailedInv, Lost, TrulyFailed, Over, Open, Deciding, FileBeingWritten, world, record
  <2>5. \A p \in Run : p # r => job'[p] = job[p]
    BY <2>4 DEF TypeInv, TypeOK
  <2>6. \/ file = Blank /\ job'[r].pc = "exit"
        \/ /\ job'[r].pc = "truncateEnd" /\ job'[r].out.run = r
           /\ job'[r].out.status = "failed" => pipe[r] = "failed"
    BY <2>1, <2>3, <2>4 DEF TypeInv, TypeOK, Exiting, Finished, Written, State
  <2>7. \A p \in Run : Lost(p) => Lost(p)'
    BY <2>1, <2>3, <2>5 DEF Lost, Over, Starting, Busy
  <2>8. /\ file.run \in Run \/ file.status = "blank"
        /\ bot.view.run \in Run \/ bot.view.status = "blank"
        /\ bot.out.run \in Run \/ bot.out.status = "blank"
        /\ poller.pending.run \in Run \/ poller.pending.status = "blank"
        /\ \A p \in Run : job[p].out.run \in Run \/ job[p].out.status = "blank"
    BY DEF TypeInv, TypeOK, State, Written, Blank
  <2>9. \A p \in Run : Busy(p) => Busy(p)' \/ file = Blank
    BY <2>1, <2>3, <2>5, <2>6 DEF Busy
  <2>10. \A p \in Run : Starting(p)' <=> Starting(p)
    BY <2>1, <2>3 DEF Starting
  <2>11. Lost(r)' \/ pipe[r] = "ok"
    BY <2>1, <2>3 DEF Lost
  <2>12. \A p \in Run : job'[p].pc # "none" => p \in children'
    BY <2>1, <2>3, <2>5, <2>6 DEF FailedInv
  <2>13. \A p \in Run : job'[p].pc \in {"truncateEnd", "fillEnd"} => TrulyFailed(job[p].out)'
    BY <2>1, <2>3, <2>5, <2>6, <2>7, <2>8, <2>11 DEF FailedInv, TrulyFailed
  <2>14. \A p \in Run : Open(file, p)' =>
              \/ Busy(p)' \/ job'[p].pc = "none"
              \/ FileBeingWritten' /\ bot'.out.run = p /\ bot'.out.status = "failed"
    BY <2>1, <2>3, <2>9, <2>10 DEF FailedInv, Open, Unmarked, FileBeingWritten, Blank
  <2>15. \A p \in Run : Deciding' /\ Open(bot.view, p)' => job'[p].pc # "gone"
    BY <2>1, <2>3, <2>5, <2>6 DEF FailedInv, Open, Unmarked, Deciding
  <2>16. \A p \in Run : FileBeingWritten' /\ Open(bot.out, p)' =>
              /\ bot'.op = "start"
              /\ bot'.next # "spawn" =>
                   job'[p].pc \in {"boot", "truncatePid", "fillPid", "launch", "wait"}
    BY <2>1, <2>3, <2>5, <2>2 DEF FailedInv, Open, Unmarked, FileBeingWritten
  <2> QED
    BY <2>1, <2>3, <2>7, <2>8, <2>12, <2>13, <2>14, <2>15, <2>16 DEF FailedInv, TrulyFailed
<1>20. ASSUME NEW r \in Run, JobExit(r) PROVE FailedInv'
  <2> HIDE DEF TypeInv, InUse, TypeOK, Orderly, Sound, Alone, FileInv, ViewInv, OutInv, StartInv, JobInv,
       StopInv, ToldInv, Honest, Tracked, Current, NobodyBusy, Busy, Starting, Unfinished, Working, Blank,
       State, Written, FailedInv, Lost, TrulyFailed, Over, Open, Deciding, FileBeingWritten, world, record
  <2> QED
    BY <1>20, JobMovesFailed
<1>21. ASSUME NEW r \in Run, JobDies(r) PROVE FailedInv'
  <2>1. "killed" \in lapses'
    BY <1>21 DEF JobDies
  <2> QED
    BY <2>1 DEF Steady
<1>22. ASSUME NEW r \in Run, PipeStep(r) PROVE FailedInv'
  BY <1>22 DEF PipeStep, PipePublish, PipeExit
<1>23. ASSUME NEW r \in Run, Age(r) PROVE FailedInv'
  BY <1>23 DEF Age
<1>24. CASE BotCrash
  BY <1>24 DEF BotCrash, Down, At, Quiet
<1>25. CASE BotRestart
  BY <1>25 DEF BotRestart, OnlyBot, Idle, At
<1>26. CASE UNCHANGED vars
  BY <1>26 DEF vars, system
<1> HIDE DEF TypeInv, InUse, TypeOK, Orderly, world, record, Sound, Working, FailedInv, Steady
<1> QED
  BY <1>1, <1>2, <1>3, <1>4, <1>5, <1>6, <1>7, <1>8, <1>9, <1>10, <1>11, <1>12, <1>13, <1>14, <1>15, <1>16, <1>17, <1>18, <1>19, <1>20, <1>21, <1>22, <1>23, <1>24, <1>25, <1>26
  DEF Next, BotStep, JobStep

\* A step that leaves a behaviour attentive keeps OnceInv.
LEMMA OnceNext ==
    TypeInv /\ TypeInv' /\ Sound /\ Sound' /\ OnceInv /\ Attentive' /\ [Next]_vars => OnceInv'
<1> SUFFICES ASSUME TypeInv, TypeInv', Sound, Sound', OnceInv, Attentive', [Next]_vars
             PROVE  OnceInv'
  OBVIOUS
<1> USE RunAssumption DEF TypeInv, InUse, TypeOK, Orderly, TornRead, world, record,
     Sound, Alone, FileInv, ViewInv, OutInv, StartInv, JobInv, StopInv, ToldInv,
     Honest, Tracked, Current, NobodyBusy, InStart, Starting, Busy, Unfinished, Working, Alive, Blank, State, Written,
     FileBeingWritten, Deciding, Over, Unmarked,
     OnceInv, Attentive, Telling, Notified
<1>1. ASSUME NEW op \in {"start", "stop", "progress", "peek"}, BotRead(op) PROVE OnceInv'
  BY <1>1 DEF BotRead, Idle, At
<1>2. CASE BotCheck
  BY <1>2 DEF BotCheck, Write, OnlyBot, Failed, Active
<1>3. CASE BotTruncate
  BY <1>3 DEF BotTruncate
<1>4. CASE BotFill
  BY <1>4 DEF BotFill, Filled, Idle, At
<1>5. CASE BotReplies \/ OpenThrows
  BY <1>5 DEF BotReplies, OpenThrows, BotReturns, OnlyBot, Idle, At
<1>6. CASE Peek
  BY <1>6 DEF Peek, BotReturns, Quiet, Idle, At, Pending
<1>7. ASSUME NEW r \in Run, StartAccepted(r) PROVE OnceInv'
  BY <1>7 DEF StartAccepted, Write, Fresh, Active
<1>8. CASE Spawn
  <2> HIDE DEF TypeInv, InUse, TypeOK, Orderly, Sound, Alone, FileInv, ViewInv, OutInv, StartInv, JobInv,
       StopInv, ToldInv, Honest, Tracked, Current, NobodyBusy, Busy, Starting, Unfinished, Working, Blank,
       State, Written, OnceInv, Telling, Over, Deciding, FileBeingWritten, world, record
  <2>1. \A p \in Run : Over(p) => p # bot.view.run
    BY <1>8, SpawnFacts DEF Over
  <2>2. \A p \in Run : p # bot.view.run => job'[p] = job[p]
    BY <1>8, SpawnFacts DEF TypeInv, TypeOK
  <2>3. \A p \in Run : Over(p) => Over(p)'
    BY <1>8, <2>1, <2>2, SpawnFacts DEF Over, Starting, Busy
  <2>4. poller.phase # "quiet" => poller.pending.run \in Run
    BY DEF TypeInv, InUse, Written
  <2> QED
    BY <1>8, <2>1, <2>3, <2>4, SpawnFacts DEF OnceInv, Telling, Unmarked, Deciding, FileBeingWritten, Blank
<1>9. CASE SpawnFails
  BY <1>9 DEF SpawnFails, Write, OnlyBot, Failed
<1>10. CASE StopFound
  BY <1>10 DEF StopFound, OnlyBot, Active
<1>11. CASE StopKill
  <2> HIDE DEF TypeInv, InUse, TypeOK, Orderly, Sound, Alone, FileInv, ViewInv, OutInv, StartInv, JobInv,
       StopInv, ToldInv, Honest, Tracked, Current, NobodyBusy, Busy, Starting, Unfinished, Working, Blank,
       State, Written, OnceInv, Telling, Over, Deciding, FileBeingWritten, world, record
  <2>1. \A p \in Run : Over(p) => Over(p)'
    BY <1>11, StopFacts DEF Over, Starting, Busy, Exiting
  <2>2. poller.phase # "quiet" => poller.pending.run \in Run
    BY DEF TypeInv, InUse, Written
  <2> QED
    BY <1>11, <2>1, <2>2, StopFacts DEF OnceInv, Telling, Unmarked, Deciding, FileBeingWritten, Blank
<1>12. CASE Sent
  BY <1>12 DEF Sent, NotifySent, Tell
<1>13. ASSUME NEW arrived \in BOOLEAN, NotifyThrows(arrived) PROVE OnceInv'
  BY <1>13 DEF NotifyThrows, Tell, Quiet, Pending
<1>14. CASE MarkNotified
  BY <1>14 DEF MarkNotified, Write, BotReturns, Quiet, Notified, Idle, At
<1>15. ASSUME NEW r \in Run, JobBoot(r) PROVE OnceInv'
  BY <1>15 DEF JobBoot
<1>16. ASSUME NEW r \in Run, JobTruncate(r) PROVE OnceInv'
  BY <1>16 DEF JobTruncate
<1>17. ASSUME NEW r \in Run, JobFill(r) PROVE OnceInv'
  BY <1>17 DEF JobFill, Filled
<1>18. ASSUME NEW r \in Run, JobLaunch(r) PROVE OnceInv'
  BY <1>18 DEF JobLaunch
<1>19. ASSUME NEW r \in Run, JobMark(r) PROVE OnceInv'
  BY <1>19 DEF JobMark, Exiting, Finished
<1>20. ASSUME NEW r \in Run, JobExit(r) PROVE OnceInv'
  BY <1>20 DEF JobExit
<1>21. ASSUME NEW r \in Run, JobDies(r) PROVE OnceInv'
  BY <1>21 DEF JobDies, Exiting
<1>22. ASSUME NEW r \in Run, PipeStep(r) PROVE OnceInv'
  BY <1>22 DEF PipeStep, PipePublish, PipeExit
<1>23. ASSUME NEW r \in Run, Age(r) PROVE OnceInv'
  BY <1>23 DEF Age
<1>24. CASE BotCrash
  BY <1>24 DEF BotCrash, Down, At, Quiet
<1>25. CASE BotRestart
  BY <1>25 DEF BotRestart, OnlyBot, Idle, At
<1>26. CASE UNCHANGED vars
  BY <1>26 DEF vars, system
<1> HIDE DEF TypeInv, InUse, TypeOK, Orderly, world, record, Sound, Working, OnceInv, Attentive
<1> QED
  BY <1>1, <1>2, <1>3, <1>4, <1>5, <1>6, <1>7, <1>8, <1>9, <1>10, <1>11, <1>12, <1>13, <1>14, <1>15, <1>16, <1>17, <1>18, <1>19, <1>20, <1>21, <1>22, <1>23, <1>24, <1>25, <1>26
  DEF Next, BotStep, JobStep

\* A step that leaves a behaviour unhurried keeps NotedInv.
LEMMA NotedNext ==
    TypeInv /\ TypeInv' /\ Sound /\ Sound' /\ NotedInv /\ Unhurried' /\ [Next]_vars => NotedInv'
<1> SUFFICES ASSUME TypeInv, TypeInv', Sound, Sound', NotedInv, Unhurried', [Next]_vars
             PROVE  NotedInv'
  OBVIOUS
<1> USE RunAssumption DEF TypeInv, InUse, TypeOK, Orderly, TornRead, world, record,
     Sound, Alone, FileInv, ViewInv, OutInv, StartInv, JobInv, StopInv, ToldInv,
     Honest, Tracked, Current, NobodyBusy, InStart, Starting, Busy, Unfinished, Working, Alive, Blank, State, Written,
     FileBeingWritten, Deciding, Over, Unmarked,
     NotedInv, Unhurried, Noted
<1>1. ASSUME NEW op \in {"start", "stop", "progress", "peek"}, BotRead(op) PROVE NotedInv'
  <2>1. /\ bot.pc = "idle" /\ bot'.pc = "check" /\ bot'.view = file /\ bot'.out = Blank
        /\ bot'.next = "idle"
        /\ UNCHANGED <<file, poller, job, told, stopped>>
    BY <1>1 DEF BotRead, Idle, At
  <2>2. poller.phase # "quiet" => file # Blank
    <3> SUFFICES ASSUME poller.phase # "quiet", file = Blank PROVE FALSE
      OBVIOUS
    <3>1. "tornRead" \notin lapses'
      BY DEF Unhurried, Orderly
    <3>2. used = {}
      BY <1>1, <3>1 DEF BotRead
    <3>3. poller.pending.run \in used
      BY <3>2
    <3> QED
      BY <3>2, <3>3
  <2> HIDE DEF TypeInv, InUse, TypeOK, Orderly, Sound, Alone, FileInv, ViewInv, OutInv, StartInv, JobInv,
       StopInv, ToldInv, Honest, Tracked, Current, NobodyBusy, Busy, Starting, Unfinished, Working, Blank,
       State, Written, NotedInv, Noted, Deciding, FileBeingWritten, world, record
  <2>3. NobodyBusy' <=> NobodyBusy
    BY <2>1 DEF NobodyBusy, Busy
  <2> QED
    BY <2>1, <2>2, <2>3 DEF NotedInv, Noted, Deciding, FileBeingWritten, Blank
<1>2. CASE BotCheck
  BY <1>2 DEF BotCheck, Write, OnlyBot, Failed, Active
<1>3. CASE BotTruncate
  BY <1>3 DEF BotTruncate
<1>4. CASE BotFill
  BY <1>4 DEF BotFill, Filled, Idle, At
<1>5. CASE BotReplies \/ OpenThrows
  BY <1>5 DEF BotReplies, OpenThrows, BotReturns, OnlyBot, Idle, At
<1>6. CASE Peek
  BY <1>6 DEF Peek, BotReturns, Quiet, Idle, At, Pending
<1>7. ASSUME NEW r \in Run, StartAccepted(r) PROVE NotedInv'
  BY <1>7 DEF StartAccepted, Write, Fresh, Active
<1>8. CASE Spawn
  <2> HIDE DEF TypeInv, InUse, TypeOK, Orderly, Sound, Alone, FileInv, ViewInv, OutInv, StartInv, JobInv,
       StopInv, ToldInv, Honest, Tracked, Current, NobodyBusy, Busy, Starting, Unfinished, Working, Blank,
       State, Written, NotedInv, Noted, Deciding, FileBeingWritten, world, record
  <2>1. \A p \in Run : job'[p].pc # "boot" => job'[p] = job[p]
    BY <1>8, SpawnFacts DEF TypeInv, TypeOK
  <2>2. poller.phase = "quiet" /\ poller'.phase = "quiet"
    BY <1>8, SpawnFacts DEF NotedInv
  <2>3. Noted(file)' /\ Noted(bot.view)' /\ Noted(bot.out)'
    BY <1>8, SpawnFacts DEF NotedInv, Noted, Blank
  <2>4. \A p \in Run : job'[p].pc \in {"truncatePid", "fillPid", "truncateEnd", "fillEnd"} =>
                         Noted(job[p].out)'
    BY <1>8, <2>1, SpawnFacts DEF NotedInv, Noted
  <2>5. ~Deciding' /\ ~(FileBeingWritten /\ bot.next = "decide")'
    BY <1>8, SpawnFacts DEF Deciding, FileBeingWritten
  <2> QED
    BY <2>2, <2>3, <2>4, <2>5 DEF NotedInv
<1>9. CASE SpawnFails
  BY <1>9 DEF SpawnFails, Write, OnlyBot, Failed
<1>10. CASE StopFound
  BY <1>10 DEF StopFound, OnlyBot, Active
<1>11. CASE StopKill
  <2> HIDE DEF TypeInv, InUse, TypeOK, Orderly, Sound, Alone, FileInv, ViewInv, OutInv, StartInv, JobInv,
       StopInv, ToldInv, Honest, Tracked, Current, NobodyBusy, Busy, Starting, Unfinished, Working, Blank,
       State, Written, NotedInv, Noted, Deciding, FileBeingWritten, world, record
  <2>1. NobodyBusy => NobodyBusy'
    BY <1>11, StopFacts DEF NobodyBusy, Busy, Exiting
  <2>2. \A p \in Run : job'[p].pc \in {"truncatePid", "fillPid", "truncateEnd", "fillEnd"} =>
                         job'[p] = job[p]
    BY <1>11, StopFacts DEF Exiting
  <2> QED
    BY <1>11, <2>1, <2>2, StopFacts DEF NotedInv, Noted, Deciding, FileBeingWritten, Blank
<1>12. CASE Sent
  <2>1. poller.phase = "sending" /\ poller.pending.run \in Run
    BY <1>12 DEF Sent, NotifySent
  <2> HIDE DEF TypeInv, InUse, TypeOK, Orderly, Sound, Alone, FileInv, ViewInv, OutInv, StartInv, JobInv,
       StopInv, ToldInv, Honest, Tracked, Current, NobodyBusy, Busy, Starting, Unfinished, Working, Blank,
       State, Written, NotedInv, Noted, Deciding, FileBeingWritten, world, record
  <2>2. /\ poller'.phase = "sent" /\ poller'.pending = poller.pending
        /\ told'[poller.pending.run] # {}
        /\ \A p \in Run : told[p] # {} => told'[p] # {}
        /\ UNCHANGED <<file, bot, job, stopped>>
    <3>1. PICK result : NotifySent(result)
      BY <1>12 DEF Sent
    <3>2. told' = [told EXCEPT ![poller.pending.run] = told[poller.pending.run] \cup {result}]
      BY <3>1 DEF NotifySent, Tell
    <3>3. told \in [Run -> SUBSET {"succeeded", "failed", "dropped"}]
      BY DEF TypeInv, TypeOK
    <3>4. told'[poller.pending.run] # {} /\ \A p \in Run : told[p] # {} => told'[p] # {}
      BY <2>1, <3>2, <3>3
    <3> QED
      BY <2>1, <3>1, <3>4 DEF NotifySent
  <2>3. NobodyBusy' <=> NobodyBusy
    BY <2>2 DEF NobodyBusy, Busy
  <2>4. \A s \in State : Noted(s) => Noted(s)'
    BY <2>2 DEF Noted, State, Written, Blank
  <2>5. /\ file \in State /\ bot.view \in State /\ bot.out \in State
        /\ \A p \in Run : job[p].out \in State
    BY DEF TypeInv, TypeOK
  <2>6. /\ Noted(file)' /\ Noted(bot.view)' /\ Noted(bot.out)'
        /\ \A p \in Run : job[p].pc \in {"truncatePid", "fillPid", "truncateEnd", "fillEnd"} =>
                            Noted(job[p].out)'
    BY <2>2, <2>4, <2>5 DEF NotedInv, Noted
  <2> QED
    BY <2>1, <2>2, <2>3, <2>6 DEF NotedInv, Deciding, FileBeingWritten
<1>13. ASSUME NEW arrived \in BOOLEAN, NotifyThrows(arrived) PROVE NotedInv'
  BY <1>13 DEF NotifyThrows, Tell, Quiet, Pending
<1>14. CASE MarkNotified
  BY <1>14 DEF MarkNotified, Write, BotReturns, Quiet, Notified, Idle, At
<1>15. ASSUME NEW r \in Run, JobBoot(r) PROVE NotedInv'
  BY <1>15 DEF JobBoot
<1>16. ASSUME NEW r \in Run, JobTruncate(r) PROVE NotedInv'
  BY <1>16 DEF JobTruncate
<1>17. ASSUME NEW r \in Run, JobFill(r) PROVE NotedInv'
  BY <1>17 DEF JobFill, Filled
<1>18. ASSUME NEW r \in Run, JobLaunch(r) PROVE NotedInv'
  BY <1>18 DEF JobLaunch
<1>19. ASSUME NEW r \in Run, JobMark(r) PROVE NotedInv'
  BY <1>19 DEF JobMark, Exiting, Finished
<1>20. ASSUME NEW r \in Run, JobExit(r) PROVE NotedInv'
  BY <1>20 DEF JobExit
<1>21. ASSUME NEW r \in Run, JobDies(r) PROVE NotedInv'
  BY <1>21 DEF JobDies, Exiting
<1>22. ASSUME NEW r \in Run, PipeStep(r) PROVE NotedInv'
  BY <1>22 DEF PipeStep, PipePublish, PipeExit
<1>23. ASSUME NEW r \in Run, Age(r) PROVE NotedInv'
  BY <1>23 DEF Age
<1>24. CASE BotCrash
  BY <1>24 DEF BotCrash, Down, At, Quiet
<1>25. CASE BotRestart
  BY <1>25 DEF BotRestart, OnlyBot, Idle, At
<1>26. CASE UNCHANGED vars
  BY <1>26 DEF vars, system
<1> HIDE DEF TypeInv, InUse, TypeOK, Orderly, world, record, Sound, Working, NotedInv, Unhurried
<1> QED
  BY <1>1, <1>2, <1>3, <1>4, <1>5, <1>6, <1>7, <1>8, <1>9, <1>10, <1>11, <1>12, <1>13, <1>14, <1>15, <1>16, <1>17, <1>18, <1>19, <1>20, <1>21, <1>22, <1>23, <1>24, <1>25, <1>26
  DEF Next, BotStep, JobStep

\* Nobody has been told anything and there is no copy of any state.
LEMMA ChatInit == Init => FailedInv /\ OnceInv /\ NotedInv
BY RunAssumption
DEF Init, FailedInv, OnceInv, NotedInv, TrulyFailed, Open, Unmarked, Noted, Idle, At, Quiet,
    Blank, FileBeingWritten, Deciding, Busy

ChatInv ==
    /\ Inv
    /\ Steady => FailedInv
    /\ Attentive => OnceInv
    /\ Unhurried => NotedInv

\* The three invariants hold in every reachable state, each while its lapses
\* do not occur.
LEMMA ChatInvHolds == Spec => []ChatInv
<1>1. Init => ChatInv
  BY TypeInit, SoundInit, ChatInit DEF ChatInv, Inv
<1>2. ChatInv /\ Inv' /\ [Next]_vars => ChatInv'
  <2> SUFFICES ASSUME ChatInv, Inv', [Next]_vars PROVE ChatInv'
    OBVIOUS
  <2>1. lapses \subseteq lapses' /\ (crashes' = 0 => crashes = 0)
    BY LapsesGrow DEF ChatInv, Inv
  <2>2. (Steady' => Steady) /\ (Attentive' => Attentive) /\ (Unhurried' => Unhurried)
    BY <2>1 DEF Steady, Attentive, Unhurried, Orderly
  <2>3. Steady' \/ Attentive' \/ Unhurried' => Sound /\ Sound'
    BY <2>2 DEF ChatInv, Inv, Steady, Attentive, Unhurried
  <2>4. TypeInv /\ TypeInv'
    BY DEF ChatInv, Inv
  <2>5. Steady' => FailedInv'
    BY <2>2, <2>3, <2>4, FailedNext DEF ChatInv
  <2>6. Attentive' => OnceInv'
    BY <2>2, <2>3, <2>4, OnceNext DEF ChatInv
  <2>7. Unhurried' => NotedInv'
    BY <2>2, <2>3, <2>4, NotedNext DEF ChatInv
  <2> QED
    BY <2>5, <2>6, <2>7 DEF ChatInv
<1> QED
  BY <1>1, <1>2, Invariant, PTL DEF Spec

\* A chat is told of a failure only when there was one, while no wrapper is
\* killed, orphaned by a crash or quicker than the start that spawned it.
THEOREM FailureIsTrueHolds == Spec => []FailureIsTrue
<1>1. ChatInv => FailureIsTrue
  BY DEF ChatInv, FailedInv, Steady, Lost, FailureIsTrue
<1> QED
  BY <1>1, ChatInvHolds, PTL

\* Each chat is told once, and what is marked as told was told, though the
\* poller marks whatever the file holds when its message is out.
THEOREM NoticesAreTrueHolds == Spec => []NoticesAreTrue
<1>1. ChatInv => ToldOnce
  BY DEF ChatInv, OnceInv, Attentive, ToldOnce
<1>2. ChatInv => NotifiedIsTold
  BY DEF ChatInv, NotedInv, Unhurried, Noted, NotifiedIsTold
<1> QED
  BY <1>1, <1>2, ChatInvHolds, PTL DEF NoticesAreTrue

-----------------------------------------------------------------------------
(***************************************************************************)
(* The report: ImagesAreOfThePlan and SuccessIsVisible.                    *)
(*                                                                         *)
(* Nothing locks a directory, so the argument is about who writes where    *)
(* (the pipeline its output and then the bot's copy, uploads the API's),   *)
(* about a directory nobody is writing and nobody left half written, which *)
(* is of one plan, and about what a command has read of such a directory.  *)
(***************************************************************************)
\* A directory that is not being written is of the plan its manifest names.
WholeUnlessBroken == \A d \in Dirs \ broken : Whole(d, dir[d].manifest)

\* What the pipeline has made of the lab's plan so far.
Rendered ==
  /\ pipeline.step = "render" =>
       \A i \in Images \ pipeline.left : dir[target].image[i] = lab
  /\ pipeline.step \in {"put", "copy"} => Whole(target, lab)
  /\ pipeline.step = "copy" =>
       /\ Copied /\ (pipeline.public => published = lab)
       /\ \A i \in Images \ pipeline.left : dir[BotDir].image[i] = lab
       /\ "manifest" \notin pipeline.left => dir[BotDir].manifest = lab
  /\ SuccessIsVisible

\* An upload that meets no other has its images in the directory, and really
\* meets no other.
Uploaded ==
  \A u \in Sendings :
    sending[u].step = "write" /\ sending[u].alone =>
      /\ \A i \in Images \ sending[u].left : dir[ApiDir].image[i] = sending[u].plan
      /\ \A v \in Sendings \ {u} : sending[v].step # "write"

\* A command no writer met: nothing is broken, the manifest it compared is
\* the one that is there, and what it has read is of that plan.
ExactFor(r) ==
  /\ reader[r].step \in Reading => broken = {}
  /\ reader[r].step = "images" =>
       /\ dir[BotDir].manifest = reader[r].want
       /\ \A i \in Images \ reader[r].left : reader[r].got[i] = reader[r].want
  /\ reader[r].step = "serve" =>
       /\ dir[ApiDir].manifest = reader[r].claimed
       /\ \A i \in Images \ reader[r].left : reader[r].got[i] = reader[r].claimed
  /\ Replied(r) => \A i \in Images : reader[r].got[i] = reader[r].want
Exact == \A r \in Readers : ~disturbed[r] => ExactFor(r)

\* In the pipeline's directory no image is older than the manifest, and none
\* is newer than the lab's plan.
Ahead ==
  \A i \in Images :
    dir[target].manifest <= dir[target].image[i] /\ dir[target].image[i] <= lab

\* What a command has read there is not older than the plan it asked for.
NewerFor(r) ==
  /\ reader[r].step = "images" =>
       /\ reader[r].want <= dir[BotDir].manifest
       /\ \A i \in Images \ reader[r].left : reader[r].want <= reader[r].got[i]
  /\ reader[r].step = "serve" => reader[r].claimed # NoPlan
  /\ Replied(r) /\ reader[r].claimed = NoPlan =>
       \A i \in Images : reader[r].want <= reader[r].got[i]
Newer == ~Copied => \A r \in Readers : NewerFor(r)

ReportInv ==
  ReportTypeOK /\ WholeUnlessBroken /\ Rendered /\ Uploaded /\ Exact /\ Ahead /\ Newer
-----------------------------------------------------------------------------
\* Plans are numbers, so that they can be compared.
LEMMA PlansAreNat == Plans \cup {NoPlan} = 0 .. MaxPlan /\ 0 .. MaxPlan \subseteq Nat
BY PlanAssumption DEF Plans, NoPlan

\* A directory is whole as soon as its parts agree.
LEMMA WholeIf ==
  ASSUME NEW d, NEW p, dir[d] \in Dir, dir[d].manifest = p,
         \A i \in Images : dir[d].image[i] = p
  PROVE  Whole(d, p)
<1>1. dir[d].image = [i \in Images |-> p]
  BY DEF Dir
<1> QED
  BY <1>1 DEF Whole, Dir

LEMMA WholeThen ==
  ASSUME NEW d, NEW p, Whole(d, p)
  PROVE  dir[d].manifest = p /\ \A i \in Images : dir[d].image[i] = p
BY DEF Whole

LEMMA DirsAreThere ==
  /\ BotDir \in Dirs /\ ApiDir \in Dirs
  /\ \A d \in OutDirs : d \in Dirs
BY DEF Dirs

\* An upload and the pipeline never write the same directory.
LEMMA UploadsApart ==
  ASSUME NEW u \in Sendings, target \in OutDirs
  PROVE  ApiDir # target /\ ApiDir # BotDir
BY DirsAssumption

LEMMA ReportInitInv == ReportInit => ReportInv
<1> SUFFICES ASSUME ReportInit PROVE ReportInv
  OBVIOUS
<1>1. NoPlan \in 0 .. MaxPlan /\ Nothing \in [Images -> 0 .. MaxPlan]
  BY PlanAssumption DEF NoPlan, Nothing
<1>2. ReportTypeOK
  <2>1. dir \in [Dirs -> Dir]
    BY <1>1, PlansAreNat DEF ReportInit, Dir
  <2> QED
    BY <2>1, <1>1 DEF ReportInit, Ended, ReportTypeOK, NoPlan, Reading
<1>3. \A d \in Dirs : Whole(d, NoPlan) /\ dir[d].manifest = NoPlan
  BY DEF ReportInit, Whole, Nothing
<1>4. WholeUnlessBroken
  BY <1>3 DEF WholeUnlessBroken
<1>5. Rendered
  BY DEF ReportInit, Ended, Rendered, SuccessIsVisible
<1>6. Uploaded
  BY DEF ReportInit, Uploaded
<1>7. Exact
  BY DEF ReportInit, Exact, ExactFor, Reading, Replied
<1>8. Ahead
  BY <1>3, WholeThen, DirsAreThere DEF ReportInit, Ahead, NoPlan
<1>9. Newer
  BY DEF ReportInit, Newer, NewerFor, Replied
<1> QED
  BY <1>2, <1>4, <1>5, <1>6, <1>7, <1>8, <1>9 DEF ReportInv
-----------------------------------------------------------------------------
(* Types.                                                                  *)

LEMMA WritersType ==
  ASSUME ReportTypeOK, NEW d \in Dirs, Touch(d) \/ Repair(d)
  PROVE  broken' \subseteq Dirs /\ disturbed' \in [Readers -> BOOLEAN]
BY DEF ReportTypeOK, Touch, Repair

LEMMA ManifestType ==
  ASSUME ReportTypeOK, NEW d \in Dirs, NEW p \in 0 .. MaxPlan,
         dir' = [dir EXCEPT ![d].manifest = p]
  PROVE  dir' \in [Dirs -> Dir]
BY PlansAreNat DEF ReportTypeOK, Dir

LEMMA ImageType ==
  ASSUME ReportTypeOK, NEW d \in Dirs, NEW p \in 0 .. MaxPlan, NEW i \in Images,
         dir' = [dir EXCEPT ![d].image[i] = p]
  PROVE  dir' \in [Dirs -> Dir]
<1>1. dir \in [Dirs -> Dir] /\ p \in Plans \cup {NoPlan}
  BY PlansAreNat DEF ReportTypeOK
<1>2. [dir[d] EXCEPT !.image[i] = p] \in Dir
  BY <1>1 DEF Dir
<1> QED
  BY <1>1, <1>2

LEMMA DirParts ==
  ASSUME ReportTypeOK, NEW d \in Dirs
  PROVE  /\ dir[d] \in Dir
         /\ dir[d].manifest \in 0 .. MaxPlan
         /\ \A i \in Images : dir[d].image[i] \in 0 .. MaxPlan
BY PlansAreNat DEF ReportTypeOK, Dir

LEMMA PipelineTypes ==
  ASSUME ReportTypeOK, Pipeline
  PROVE  ReportTypeOK'
<1>0. target \in Dirs /\ BotDir \in Dirs
  BY DirsAreThere DEF ReportTypeOK
<1>1. CASE StartRun
  BY <1>1, PlansAreNat DEF StartRun, ReportTypeOK
<1>2. CASE WriteManifest
  <2>1. dir' \in [Dirs -> Dir]
    BY <1>2, <1>0, ManifestType DEF WriteManifest, ReportTypeOK
  <2>2. broken' \subseteq Dirs /\ disturbed' \in [Readers -> BOOLEAN]
    BY <1>2, <1>0, WritersType DEF WriteManifest
  <2> QED
    BY <1>2, <2>1, <2>2 DEF WriteManifest, ReportTypeOK
<1>3. CASE PutAssignment
  BY <1>3 DEF PutAssignment, Stored, Ended, ReportTypeOK
<1>4. CASE Abort
  BY <1>4 DEF Abort, Ended, ReportTypeOK
<1>5. CASE \E i \in Images : RenderImage(i)
  <2> PICK i \in Images : RenderImage(i)
    BY <1>5
  <2>1. dir' \in [Dirs -> Dir]
    BY <1>0, ImageType DEF RenderImage, ReportTypeOK
  <2>2. broken' \subseteq Dirs /\ disturbed' \in [Readers -> BOOLEAN]
    BY <1>0, WritersType DEF RenderImage
  <2> QED
    BY <2>1, <2>2 DEF RenderImage, ReportTypeOK
<1>6. CASE \E f \in Images \cup {"manifest"} : CopyFile(f)
  <2> PICK f \in Images \cup {"manifest"} : CopyFile(f)
    BY <1>6
  <2>1. dir' \in [Dirs -> Dir]
    <3>1. CASE f = "manifest"
      <4>1. dir' = [dir EXCEPT ![BotDir].manifest = dir[target].manifest]
        BY <3>1 DEF CopyFile
      <4> QED
        BY <4>1, <1>0, DirParts, ManifestType
    <3>2. CASE f # "manifest"
      <4>1. f \in Images /\ dir' = [dir EXCEPT ![BotDir].image[f] = dir[target].image[f]]
        BY <3>2 DEF CopyFile
      <4> QED
        BY <4>1, <1>0, DirParts, ImageType
    <3> QED
      BY <3>1, <3>2
  <2>2. broken' \subseteq Dirs /\ disturbed' \in [Readers -> BOOLEAN]
    BY <1>0, WritersType DEF CopyFile
  <2>3. pipeline' \in [step : {"idle", "render", "put", "copy"},
                      left : SUBSET (Images \cup {"manifest"}),
                      public : BOOLEAN, ok : BOOLEAN]
    <3>1. CASE pipeline.left = {f}
      <4>1. pipeline' = Ended(pipeline.public) /\ pipeline.public \in BOOLEAN
        BY <3>1 DEF CopyFile, ReportTypeOK
      <4> QED
        BY <4>1 DEF Ended
    <3>2. CASE pipeline.left # {f}
      BY <3>2 DEF CopyFile, ReportTypeOK
    <3> QED
      BY <3>1, <3>2
  <2> QED
    BY <2>1, <2>2, <2>3 DEF CopyFile, ReportTypeOK
<1> QED
  BY <1>1, <1>2, <1>3, <1>4, <1>5, <1>6 DEF Pipeline

\* A command moves on: the fields that change keep their sets.
CommandSteps == Reading \cup {"idle", "replied", "refused"}
CommandState ==
  [step : CommandSteps, want : 0 .. MaxPlan, left : SUBSET Images,
   got : [Images -> 0 .. MaxPlan], claimed : 0 .. MaxPlan]

LEMMA CommandMoves ==
  ASSUME reader \in [Readers -> CommandState], NEW r \in Readers,
         NEW s \in CommandSteps, NEW p \in 0 .. MaxPlan, NEW left \in SUBSET Images
  PROVE  /\ [reader EXCEPT ![r].step = s] \in [Readers -> CommandState]
         /\ [reader EXCEPT ![r].step = s, ![r].want = p] \in [Readers -> CommandState]
         /\ [reader EXCEPT ![r].step = s, ![r].left = left] \in [Readers -> CommandState]
         /\ [reader EXCEPT ![r].step = s, ![r].left = left, ![r].claimed = p]
              \in [Readers -> CommandState]
<1>1. [reader EXCEPT ![r].step = s] \in [Readers -> CommandState]
  BY DEF CommandState
<1>2. [reader EXCEPT ![r].step = s, ![r].want = p] \in [Readers -> CommandState]
  BY DEF CommandState
<1>3. [reader EXCEPT ![r].step = s, ![r].left = left] \in [Readers -> CommandState]
  BY DEF CommandState
<1>4. [reader EXCEPT ![r].step = s, ![r].left = left, ![r].claimed = p]
        \in [Readers -> CommandState]
  BY DEF CommandState
<1> QED
  BY <1>1, <1>2, <1>3, <1>4

LEMMA CommandReads ==
  ASSUME reader \in [Readers -> CommandState], NEW r \in Readers,
         NEW p \in 0 .. MaxPlan, NEW i \in Images
  PROVE  [reader EXCEPT ![r].left = @ \ {i}, ![r].got[i] = p] \in [Readers -> CommandState]
BY DEF CommandState

LEMMA CommandTypes ==
  ASSUME ReportTypeOK, NEW r \in Readers, Command(r)
  PROVE  ReportTypeOK'
<1>0. /\ reader \in [Readers -> CommandState]
      /\ published \in 0 .. MaxPlan
      /\ \A d \in {BotDir, ApiDir} : dir[d].manifest \in 0 .. MaxPlan
      /\ \A d \in {BotDir, ApiDir}, i \in Images : dir[d].image[i] \in 0 .. MaxPlan
  BY DirParts, DirsAreThere DEF CommandState, CommandSteps, ReportTypeOK
<1>1. {"idle", "manifest", "images", "ask", "serve", "replied", "refused"} \subseteq CommandSteps
  BY DEF CommandSteps, Reading
<1>2. reader' \in [Readers -> CommandState]
  <2>1. CASE AskPlan(r)
    <3>1. \/ reader' = [reader EXCEPT ![r].step = "refused"]
          \/ reader' = [reader EXCEPT ![r].step = "manifest", ![r].want = published]
      BY <2>1 DEF AskPlan, Ends
    <3>2. "refused" \in CommandSteps /\ "manifest" \in CommandSteps
      BY <1>1
    <3>3. [reader EXCEPT ![r].step = "refused"] \in [Readers -> CommandState]
      BY <3>2, <1>0, CommandMoves
    <3>4. [reader EXCEPT ![r].step = "manifest", ![r].want = published]
            \in [Readers -> CommandState]
      BY <3>2, <1>0, CommandMoves
    <3> QED
      BY <3>1, <3>3, <3>4
  <2>2. CASE ReadManifest(r)
    BY <2>2, <1>0, <1>1, CommandMoves DEF ReadManifest
  <2>3. CASE Reply(r)
    BY <2>3, <1>0, <1>1, CommandMoves DEF Reply, Ends
  <2>4. CASE ServeManifest(r)
    BY <2>4, <1>0, <1>1, CommandMoves DEF ServeManifest
  <2>5. CASE Received(r)
    BY <2>5, <1>0, <1>1, CommandMoves DEF Received, Ends
  <2>6. ASSUME NEW i \in Images, ReadImage(r, i) \/ ServeImage(r, i)
        PROVE  reader' \in [Readers -> CommandState]
    <3>1. PICK d \in {BotDir, ApiDir}, missing \in {"ask", "refused"} : Read(r, d, i, missing)
      BY <2>6 DEF ReadImage, ServeImage
    <3>2. CASE reader' = [reader EXCEPT ![r].step = missing, ![r].left = {}]
      BY <3>2, <1>0, <1>1, CommandMoves
    <3>3. CASE reader' = [reader EXCEPT ![r].left = @ \ {i}, ![r].got[i] = dir[d].image[i]]
      <4>1. dir[d].image[i] \in 0 .. MaxPlan
        BY <1>0
      <4> QED
        BY <4>1, <3>3, <1>0, CommandReads
    <3> QED
      BY <3>1, <3>2, <3>3 DEF Read
  <2> QED
    BY <2>1, <2>2, <2>3, <2>4, <2>5, <2>6 DEF Command
<1>3. disturbed' \in [Readers -> BOOLEAN]
      /\ UNCHANGED <<target, lab, published, dir, pipeline, sending, broken>>
  BY DEF Command, AskPlan, ReadManifest, Reply, ServeManifest, Received, ReadImage,
         ServeImage, Read, ReportTypeOK
<1> QED
  BY <1>2, <1>3 DEF ReportTypeOK, CommandState, CommandSteps

LEMMA UploadTypes ==
  ASSUME ReportTypeOK, NEW u \in Sendings, Upload(u)
  PROVE  ReportTypeOK'
<1>0. ApiDir \in Dirs
  BY DirsAreThere
<1>1. CASE PutAssets(u)
  <2> PICK p \in 1 .. lab :
       sending' = [v \in Sendings |->
         IF v = u
         THEN [step |-> "write", plan |-> p, left |-> Images, alone |-> ~Writing(u)]
         ELSE [sending[v] EXCEPT !.alone = @ /\ sending[v].step # "write"]]
    BY <1>1 DEF PutAssets
  <2>1. p \in 0 .. MaxPlan
    BY PlanAssumption DEF ReportTypeOK
  <2>2. Writing(u) \in BOOLEAN
    BY DEF Writing
  <2>3. \A v \in Sendings : sending'[v] \in
         [step : {"idle", "write", "done", "failed"}, plan : 0 .. MaxPlan,
          left : SUBSET Images, alone : BOOLEAN]
    BY <2>1, <2>2 DEF ReportTypeOK
  <2>4. sending' \in [Sendings -> [step : {"idle", "write", "done", "failed"},
                             plan : 0 .. MaxPlan, left : SUBSET Images, alone : BOOLEAN]]
    BY <2>3
  <2> QED
    BY <1>1, <2>4 DEF PutAssets, ReportTypeOK
<1>2. CASE \E i \in Images : PutImage(u, i)
  <2> PICK i \in Images : PutImage(u, i)
    BY <1>2
  <2>0. sending[u].plan \in 0 .. MaxPlan
    BY DEF ReportTypeOK
  <2>1. dir' \in [Dirs -> Dir]
    BY <1>0, <2>0, ImageType DEF PutImage
  <2>2. broken' \subseteq Dirs /\ disturbed' \in [Readers -> BOOLEAN]
    BY <1>0, WritersType DEF PutImage
  <2> QED
    BY <2>1, <2>2 DEF PutImage, ReportTypeOK
<1>3. CASE PutManifest(u)
  <2>0. sending[u].plan \in 0 .. MaxPlan
    BY DEF ReportTypeOK
  <2>1. dir' \in [Dirs -> Dir]
    BY <1>3, <1>0, <2>0, ManifestType DEF PutManifest
  <2>2. broken' \subseteq Dirs /\ disturbed' \in [Readers -> BOOLEAN]
    BY <1>3, <1>0, WritersType DEF PutManifest
  <2> QED
    BY <1>3, <2>1, <2>2 DEF PutManifest, ReportTypeOK
<1>4. CASE PutBreaks(u)
  BY <1>4 DEF PutBreaks, ReportTypeOK
<1> QED
  BY <1>1, <1>2, <1>3, <1>4 DEF Upload

LEMMA StepTypes == ReportTypeOK /\ ReportNext => ReportTypeOK'
BY PipelineTypes, CommandTypes, UploadTypes DEF ReportNext
-----------------------------------------------------------------------------
(* Who writes where.                                                       *)

\* What a step of the pipeline does to the directories: nothing, or a write
\* to its output or to the bot's copy.
LEMMA PipelineWrites ==
  ASSUME ReportTypeOK, Rendered, Pipeline
  PROVE  /\ UNCHANGED <<target, reader, sending>>
         /\ \/ UNCHANGED <<dir, broken, disturbed>>
            \/ /\ \A d \in Dirs \ {target} : dir'[d] = dir[d]
               /\ Touch(target) \/ Repair(target)
            \/ /\ Copied /\ \A d \in Dirs \ {BotDir} : dir'[d] = dir[d]
               /\ Touch(BotDir) \/ Repair(BotDir)
<1>1. CASE StartRun \/ PutAssignment \/ Abort
  BY <1>1 DEF StartRun, PutAssignment, Abort
<1>2. CASE WriteManifest
  BY <1>2 DEF WriteManifest, ReportTypeOK
<1>3. CASE \E i \in Images : RenderImage(i)
  BY <1>3 DEF RenderImage, ReportTypeOK
<1>4. CASE \E f \in Images \cup {"manifest"} : CopyFile(f)
  BY <1>4 DEF CopyFile, ReportTypeOK, Rendered
<1> QED
  BY <1>1, <1>2, <1>3, <1>4 DEF Pipeline

\* An upload writes to the API's directory, which is nobody else's.
LEMMA UploadWrites ==
  ASSUME ReportTypeOK, NEW u \in Sendings, Upload(u)
  PROVE  /\ UNCHANGED <<target, lab, published, pipeline, reader>>
         /\ dir'[target] = dir[target] /\ dir'[BotDir] = dir[BotDir]
         /\ \/ UNCHANGED <<dir, broken, disturbed>>
            \/ /\ \A d \in Dirs \ {ApiDir} : dir'[d] = dir[d]
               /\ Touch(ApiDir) \/ Repair(ApiDir)
<1>0. target \in Dirs \ {ApiDir} /\ BotDir \in Dirs \ {ApiDir}
  BY UploadsApart, DirsAreThere DEF ReportTypeOK
<1>1. CASE PutAssets(u) \/ PutBreaks(u)
  BY <1>1 DEF PutAssets, PutBreaks
<1>2. CASE PutManifest(u)
  BY <1>0, <1>2 DEF PutManifest, ReportTypeOK
<1>3. CASE \E i \in Images : PutImage(u, i)
  BY <1>0, <1>3 DEF PutImage, ReportTypeOK
<1> QED
  BY <1>1, <1>2, <1>3 DEF Upload

LEMMA CommandsOnlyRead ==
  ASSUME ReportTypeOK, NEW r \in Readers, Command(r)
  PROVE  /\ UNCHANGED <<target, lab, published, dir, pipeline, sending, broken>>
         /\ \A q \in Readers \ {r} : reader'[q] = reader[q] /\ disturbed'[q] = disturbed[q]
<1>1. UNCHANGED <<target, lab, published, dir, pipeline, sending, broken>>
  BY DEF Command, AskPlan, ReadManifest, Reply, ServeManifest, Received, ReadImage,
         ServeImage, Read
<1>2. \/ \E i \in Images : \E d \in {BotDir, ApiDir}, m \in {"ask", "refused"} : Read(r, d, i, m)
      \/ AskPlan(r) \/ ReadManifest(r) \/ Reply(r) \/ ServeManifest(r) \/ Received(r)
  BY DEF Command, ReadImage, ServeImage
<1>3. \A q \in Readers \ {r} : reader'[q] = reader[q]
  BY <1>2 DEF AskPlan, ReadManifest, Reply, ServeManifest, Received, Read, Ends, ReportTypeOK
<1>4. \A q \in Readers \ {r} : disturbed'[q] = disturbed[q]
  BY <1>2 DEF AskPlan, ReadManifest, Reply, ServeManifest, Received, Read, ReportTypeOK
<1> QED
  BY <1>1, <1>3, <1>4

\* A directory that is being written does not count, ...
LEMMA WriteGoesOn ==
  ASSUME WholeUnlessBroken, NEW d \in Dirs, \A e \in Dirs \ {d} : dir'[e] = dir[e],
         broken' = broken \cup {d}
  PROVE  WholeUnlessBroken'
BY DEF WholeUnlessBroken, Whole, Dirs

\* ... and one that is finished is of one plan.
LEMMA WriteEnds ==
  ASSUME WholeUnlessBroken, NEW d \in Dirs, \A e \in Dirs \ {d} : dir'[e] = dir[e],
         broken' = broken \ {d}, NEW p, Whole(d, p)'
  PROVE  WholeUnlessBroken'
<1>1. \A e \in Dirs \ broken' : e # d => Whole(e, dir[e].manifest) /\ dir'[e] = dir[e]
  BY DEF WholeUnlessBroken
<1>2. Whole(d, dir[d].manifest)'
  BY DEF Whole
<1> QED
  BY <1>1, <1>2 DEF WholeUnlessBroken, Whole, Dirs
-----------------------------------------------------------------------------
(* The pipeline's work.                                                    *)

\* The manifest is written when every image is there; the last file copied
\* completes the bot's copy.
LEMMA ManifestCompletes ==
  ASSUME ReportTypeOK, Rendered, WriteManifest
  PROVE  Whole(target, lab)'
<1>1. target \in Dirs /\ target' = target /\ lab' = lab
  BY DirsAreThere DEF ReportTypeOK, WriteManifest
<1>2. \A i \in Images : dir[target].image[i] = lab
  BY DEF WriteManifest, Rendered
<1>3. dir'[target] = [dir[target] EXCEPT !.manifest = lab]
  BY <1>1 DEF WriteManifest, ReportTypeOK
<1>4. dir[target] \in Dir
  BY <1>1, DirParts
<1>5. dir'[target].image = [i \in Images |-> lab]
  BY <1>2, <1>3, <1>4 DEF Dir
<1> QED
  BY <1>1, <1>3, <1>4, <1>5 DEF Whole, Dir

\* What has been copied so far.
LEMMA CopyGoesOn ==
  ASSUME ReportTypeOK, Rendered, NEW f \in Images \cup {"manifest"}, CopyFile(f)
  PROVE  /\ dir'[target] = dir[target] /\ Whole(target, lab)
         /\ \A i \in Images : i = f \/ i \notin pipeline.left => dir'[BotDir].image[i] = lab
         /\ f = "manifest" \/ "manifest" \notin pipeline.left => dir'[BotDir].manifest = lab
         /\ dir'[BotDir] \in Dir
<1>1. /\ Copied /\ Whole(target, lab)
      /\ \A i \in Images \ pipeline.left : dir[BotDir].image[i] = lab
      /\ "manifest" \notin pipeline.left => dir[BotDir].manifest = lab
  BY DEF CopyFile, Rendered
<1>2. target \in Dirs /\ BotDir \in Dirs /\ target # BotDir
  BY <1>1, DirsAreThere DEF ReportTypeOK, Copied
<1>3. dir'[BotDir] = IF f = "manifest"
                     THEN [dir[BotDir] EXCEPT !.manifest = dir[target].manifest]
                     ELSE [dir[BotDir] EXCEPT !.image[f] = dir[target].image[f]]
  BY <1>2 DEF CopyFile, ReportTypeOK
<1>4. dir[target].manifest = lab /\ \A i \in Images : dir[target].image[i] = lab
  BY <1>1, WholeThen
<1>5. dir'[target] = dir[target]
  BY <1>2 DEF CopyFile, ReportTypeOK
<1>6. dir[BotDir] \in Dir /\ lab \in Plans \cup {NoPlan}
  BY <1>2, DirParts, PlansAreNat DEF ReportTypeOK
<1>7. CASE f = "manifest"
  <2>1. "manifest" \notin Images
    BY PlanAssumption
  <2> QED
    BY <1>1, <1>3, <1>4, <1>5, <1>6, <1>7, <2>1 DEF Dir
<1>8. CASE f # "manifest"
  <2>1. f \in Images
    BY <1>8
  <2>2. dir'[BotDir] = [dir[BotDir] EXCEPT !.image[f] = lab]
    BY <1>3, <1>4, <1>8, <2>1
  <2>3. dir'[BotDir] \in Dir /\ dir'[BotDir].manifest = dir[BotDir].manifest
        /\ \A i \in Images : dir'[BotDir].image[i] = IF i = f THEN lab ELSE dir[BotDir].image[i]
    BY <1>6, <2>1, <2>2 DEF Dir
  <2> QED
    BY <1>1, <1>5, <1>8, <2>3
<1> QED
  BY <1>7, <1>8

LEMMA CopyCompletes ==
  ASSUME ReportTypeOK, Rendered, NEW f \in Images \cup {"manifest"}, CopyFile(f),
         pipeline.left = {f}
  PROVE  Whole(BotDir, lab)'
<1>1. \A i \in Images : dir'[BotDir].image[i] = lab
  BY CopyGoesOn
<1>2. dir'[BotDir].manifest = lab /\ dir'[BotDir] \in Dir
  BY CopyGoesOn
<1>3. dir'[BotDir].image = [i \in Images |-> lab]
  BY <1>1, <1>2 DEF Dir
<1>4. lab' = lab
  BY DEF CopyFile
<1> QED
  BY <1>2, <1>3, <1>4 DEF Whole, Dir

LEMMA PipelineSteady ==
  ASSUME ReportTypeOK, WholeUnlessBroken, Rendered, Pipeline
  PROVE  WholeUnlessBroken'
<1>0. target \in Dirs /\ BotDir \in Dirs
  BY DirsAreThere DEF ReportTypeOK
<1>1. CASE StartRun \/ PutAssignment \/ Abort
  BY <1>1 DEF StartRun, PutAssignment, Abort, WholeUnlessBroken, Whole, Dirs
<1>2. CASE WriteManifest
  <2>1. \A e \in Dirs \ {target} : dir'[e] = dir[e]
    BY <1>2 DEF WriteManifest, ReportTypeOK
  <2>2. broken' = broken \ {target} /\ target' = target
    BY <1>2 DEF WriteManifest, Repair
  <2>3. Whole(target, lab)'
    BY <1>2, ManifestCompletes
  <2>4. dir'[target] = [manifest |-> lab', image |-> [i \in Images |-> lab']]
    BY <2>2, <2>3 DEF Whole
  <2> QED
    BY <1>0, <2>1, <2>2, <2>4, WriteEnds DEF Whole
<1>3. ASSUME NEW i \in Images, RenderImage(i) PROVE WholeUnlessBroken'
  <2>1. \A e \in Dirs \ {target} : dir'[e] = dir[e]
    BY <1>3 DEF RenderImage, ReportTypeOK
  <2>2. broken' = broken \cup {target}
    BY <1>3 DEF RenderImage, Touch
  <2> QED
    BY <1>0, <2>1, <2>2, WriteGoesOn
<1>4. ASSUME NEW f \in Images \cup {"manifest"}, CopyFile(f) PROVE WholeUnlessBroken'
  <2>1. \A e \in Dirs \ {BotDir} : dir'[e] = dir[e]
    BY <1>4 DEF CopyFile, ReportTypeOK
  <2>2. CASE pipeline.left = {f}
    <3>1. broken' = broken \ {BotDir}
      BY <1>4, <2>2 DEF CopyFile, Repair
    <3>2. dir'[BotDir] = [manifest |-> lab', image |-> [i \in Images |-> lab']]
      BY <1>4, <2>2, CopyCompletes DEF Whole
    <3> QED
      BY <1>0, <2>1, <3>1, <3>2, WriteEnds DEF Whole
  <2>3. CASE pipeline.left # {f}
    <3>1. broken' = broken \cup {BotDir}
      BY <1>4, <2>3 DEF CopyFile, Touch
    <3> QED
      BY <1>0, <2>1, <3>1, WriteGoesOn
  <2> QED
    BY <2>2, <2>3
<1> QED
  BY <1>1, <1>2, <1>3, <1>4 DEF Pipeline

LEMMA PipelineRendered ==
  ASSUME ReportTypeOK, Rendered, Pipeline
  PROVE  Rendered'
<1>0. target \in Dirs /\ BotDir \in Dirs /\ pipeline.left \subseteq Images \cup {"manifest"}
  BY DirsAreThere DEF ReportTypeOK
<1>1. CASE StartRun
  BY <1>1 DEF StartRun, Rendered, SuccessIsVisible
<1>2. CASE WriteManifest
  <2>1. pipeline'.step = "put"
    BY <1>2 DEF WriteManifest, ReportTypeOK
  <2>2. Whole(target, lab)'
    BY <1>2, ManifestCompletes
  <2> QED
    BY <2>1, <2>2 DEF Rendered, SuccessIsVisible
<1>3. CASE PutAssignment
  <2>1. Whole(target, lab)
    BY <1>3 DEF PutAssignment, Rendered
  <2>2. Whole(target, lab)' /\ (Whole(BotDir, lab)' <=> Whole(BotDir, lab))
        /\ (Copied' <=> Copied) /\ (pipeline.public => published' = lab')
    BY <1>3, <2>1 DEF PutAssignment, Stored, Whole, Copied
  <2>3. CASE Copied
    <3>1. /\ pipeline'.step = "copy" /\ pipeline'.left = Images \cup {"manifest"}
          /\ pipeline'.public = pipeline.public
      BY <1>3, <2>3 DEF PutAssignment, ReportTypeOK
    <3> QED
      BY <2>2, <2>3, <3>1 DEF Rendered, SuccessIsVisible
  <2>4. CASE ~Copied
    <3>1. pipeline'.step = "idle" /\ pipeline'.ok = pipeline.public
      BY <1>3, <2>4 DEF PutAssignment, Ended
    <3>2. Whole(BotDir, lab)'
      BY <2>1, <2>2, <2>4 DEF Copied
    <3> QED
      BY <2>2, <3>1, <3>2 DEF Rendered, SuccessIsVisible
  <2> QED
    BY <2>3, <2>4
<1>4. CASE Abort
  BY <1>4 DEF Abort, Ended, Rendered, SuccessIsVisible
<1>5. ASSUME NEW i \in Images, RenderImage(i) PROVE Rendered'
  <2>1. pipeline'.step = "render" /\ pipeline'.left = pipeline.left \ {i}
    BY <1>5 DEF RenderImage, ReportTypeOK
  <2>2. \A j \in Images : dir'[target].image[j] = IF j = i THEN lab ELSE dir[target].image[j]
    BY <1>0, <1>5, DirParts DEF RenderImage, ReportTypeOK, Dir
  <2>3. \A j \in Images \ pipeline.left : dir[target].image[j] = lab
    BY <1>5 DEF RenderImage, Rendered
  <2>4. target' = target /\ lab' = lab
    BY <1>5 DEF RenderImage
  <2> QED
    BY <2>1, <2>2, <2>3, <2>4 DEF Rendered, SuccessIsVisible
<1>6. ASSUME NEW f \in Images \cup {"manifest"}, CopyFile(f) PROVE Rendered'
  <2>1. /\ UNCHANGED <<target, lab, published>>
        /\ Copied /\ (pipeline.public => published = lab)
    BY <1>6 DEF CopyFile, Rendered
  <2>2. CASE pipeline.left = {f}
    <3>1. pipeline' = Ended(pipeline.public)
      BY <1>6, <2>2 DEF CopyFile
    <3>2. Whole(BotDir, lab)'
      BY <1>6, <2>2, CopyCompletes
    <3> QED
      BY <2>1, <3>1, <3>2 DEF Rendered, SuccessIsVisible, Ended
  <2>3. CASE pipeline.left # {f}
    <3>1. /\ pipeline'.step = "copy" /\ pipeline'.left = pipeline.left \ {f}
          /\ pipeline'.public = pipeline.public
      BY <1>6, <2>3 DEF CopyFile, ReportTypeOK
    <3>2. Whole(target, lab)' /\ Copied'
      BY <1>6, <2>1, CopyGoesOn DEF Whole, Copied
    <3>3. \A i \in Images \ pipeline'.left : dir'[BotDir].image[i] = lab'
      BY <1>6, <2>1, <3>1, CopyGoesOn
    <3>4. "manifest" \notin pipeline'.left => dir'[BotDir].manifest = lab'
      BY <1>6, <2>1, <3>1, CopyGoesOn
    <3> QED
      BY <2>1, <3>1, <3>2, <3>3, <3>4 DEF Rendered, SuccessIsVisible
  <2> QED
    BY <2>2, <2>3
<1> QED
  BY <1>1, <1>2, <1>3, <1>4, <1>5, <1>6 DEF Pipeline
-----------------------------------------------------------------------------
(* Uploads.                                                                *)

\* The directory of the API is written by uploads alone.
LEMMA PipelineUploaded ==
  ASSUME ReportTypeOK, Rendered, Uploaded, Pipeline
  PROVE  Uploaded'
<1>1. CASE Sendings = {}
  BY <1>1 DEF Uploaded
<1>2. CASE Sendings # {}
  <2>1. ApiDir \in Dirs \ {target} /\ ApiDir \in Dirs \ {BotDir}
    BY <1>2, UploadsApart, DirsAreThere DEF ReportTypeOK
  <2>2. dir'[ApiDir] = dir[ApiDir] /\ sending' = sending
    BY <2>1, PipelineWrites
  <2> QED
    BY <2>2 DEF Uploaded
<1> QED
  BY <1>1, <1>2

\* An upload that starts beside others makes them all share the directory.
LEMMA StartUploaded ==
  ASSUME ReportTypeOK, Uploaded, NEW u \in Sendings, PutAssets(u)
  PROVE  Uploaded'
<1>0. PICK p \in 1 .. lab :
       sending' = [v \in Sendings |->
         IF v = u
         THEN [step |-> "write", plan |-> p, left |-> Images, alone |-> ~Writing(u)]
         ELSE [sending[v] EXCEPT !.alone = @ /\ sending[v].step # "write"]]
  BY DEF PutAssets
<1>1. dir' = dir
  BY DEF PutAssets
<1>2. /\ sending'[u].left = Images
      /\ sending'[u].alone => \A v \in Sendings \ {u} : sending[v].step # "write"
  BY <1>0 DEF Writing
<1>3. \A v \in Sendings \ {u} :
        /\ sending'[v].step = sending[v].step
        /\ sending'[v].alone => sending[v].step # "write"
  BY <1>0 DEF ReportTypeOK
<1> SUFFICES ASSUME NEW w \in Sendings, sending'[w].step = "write", sending'[w].alone
             PROVE  /\ \A i \in Images \ sending'[w].left :
                          dir'[ApiDir].image[i] = sending'[w].plan
                    /\ \A v \in Sendings \ {w} : sending'[v].step # "write"
  BY DEF Uploaded
<1>4. w = u
  BY <1>3
<1> QED
  BY <1>2, <1>3, <1>4

LEMMA UploadUploaded ==
  ASSUME ReportTypeOK, Uploaded, NEW u \in Sendings, Upload(u)
  PROVE  Uploaded'
<1>1. CASE PutAssets(u)
  BY <1>1, StartUploaded
<1>2. CASE PutManifest(u) \/ PutBreaks(u)
  <2>1. /\ sending'[u].step # "write"
        /\ \A v \in Sendings \ {u} : sending'[v] = sending[v]
    BY <1>2 DEF PutManifest, PutBreaks, ReportTypeOK
  <2>2. sending[u].step = "write"
    BY <1>2 DEF PutManifest, PutBreaks
  <2> SUFFICES ASSUME NEW w \in Sendings, sending'[w].step = "write", sending'[w].alone
               PROVE  FALSE
    BY DEF Uploaded
  <2> QED
    BY <2>1, <2>2 DEF Uploaded
<1>3. ASSUME NEW i \in Images, PutImage(u, i) PROVE Uploaded'
  <2>1. /\ sending'[u].step = "write" /\ sending'[u].plan = sending[u].plan
        /\ sending'[u].alone = sending[u].alone
        /\ sending'[u].left = sending[u].left \ {i}
        /\ \A v \in Sendings \ {u} : sending'[v] = sending[v]
    BY <1>3 DEF PutImage, ReportTypeOK
  <2>2. sending[u].step = "write"
    BY <1>3 DEF PutImage
  <2>3. \A j \in Images : dir'[ApiDir].image[j] =
          IF j = i THEN sending[u].plan ELSE dir[ApiDir].image[j]
    BY <1>3, DirsAreThere DEF PutImage, ReportTypeOK, Dir
  <2> SUFFICES ASSUME NEW w \in Sendings, sending'[w].step = "write", sending'[w].alone
               PROVE  /\ \A j \in Images \ sending'[w].left :
                            dir'[ApiDir].image[j] = sending'[w].plan
                      /\ \A v \in Sendings \ {w} : sending'[v].step # "write"
    BY DEF Uploaded
  <2>4. w = u
    BY <2>1, <2>2 DEF Uploaded
  <2>5. sending[u].alone
    BY <2>1, <2>4
  <2> QED
    BY <2>1, <2>2, <2>3, <2>4, <2>5 DEF Uploaded
<1> QED
  BY <1>1, <1>2, <1>3 DEF Upload

\* The manifest of an upload that met no other completes its directory.
LEMMA UploadSteady ==
  ASSUME ReportTypeOK, WholeUnlessBroken, Uploaded, NEW u \in Sendings, Upload(u)
  PROVE  WholeUnlessBroken'
<1>0. ApiDir \in Dirs
  BY DirsAreThere
<1>1. CASE PutAssets(u) \/ PutBreaks(u)
  BY <1>1 DEF PutAssets, PutBreaks, WholeUnlessBroken, Whole, Dirs
<1>2. ASSUME NEW i \in Images, PutImage(u, i) PROVE WholeUnlessBroken'
  <2>1. \A e \in Dirs \ {ApiDir} : dir'[e] = dir[e]
    BY <1>2 DEF PutImage, ReportTypeOK
  <2>2. broken' = broken \cup {ApiDir}
    BY <1>2 DEF PutImage, Touch
  <2> QED
    BY <1>0, <2>1, <2>2, WriteGoesOn
<1>3. CASE PutManifest(u)
  <2>1. \A e \in Dirs \ {ApiDir} : dir'[e] = dir[e]
    BY <1>3 DEF PutManifest, ReportTypeOK
  <2>2. CASE sending[u].alone
    <3>1. broken' = broken \ {ApiDir}
      BY <1>3, <2>2 DEF PutManifest, Repair
    <3>2. \A i \in Images : dir[ApiDir].image[i] = sending[u].plan
      BY <1>3, <2>2 DEF PutManifest, Uploaded
    <3>3. dir'[ApiDir] = [dir[ApiDir] EXCEPT !.manifest = sending[u].plan]
      BY <1>3, <1>0 DEF PutManifest, ReportTypeOK
    <3>4. dir[ApiDir] \in Dir
      BY <1>0, DirParts
    <3>5. dir[ApiDir].image = [i \in Images |-> sending[u].plan]
      BY <3>2, <3>4 DEF Dir
    <3>6. dir'[ApiDir] = [manifest |-> sending[u].plan,
                          image |-> [i \in Images |-> sending[u].plan]]
      BY <3>3, <3>4, <3>5 DEF Dir
    <3> DEFINE p == dir'[ApiDir].manifest
    <3>7. dir'[ApiDir] = [manifest |-> p, image |-> [i \in Images |-> p]]
      BY <3>6
    <3> QED
      BY <1>0, <2>1, <3>1, <3>7, WriteEnds DEF Whole
  <2>3. CASE ~sending[u].alone
    <3>1. broken' = broken \cup {ApiDir}
      BY <1>3, <2>3 DEF PutManifest, Touch
    <3> QED
      BY <1>0, <2>1, <3>1, WriteGoesOn
  <2> QED
    BY <2>2, <2>3
<1> QED
  BY <1>1, <1>2, <1>3 DEF Upload

\* What the pipeline has made is out of the uploads' reach.
LEMMA UploadRendered ==
  ASSUME ReportTypeOK, Rendered, NEW u \in Sendings, Upload(u)
  PROVE  Rendered'
<1>1. /\ UNCHANGED <<target, lab, published, pipeline>>
      /\ dir'[target] = dir[target] /\ dir'[BotDir] = dir[BotDir]
  BY UploadWrites
<1> QED
  BY <1>1 DEF Rendered, SuccessIsVisible, Whole, Copied

-----------------------------------------------------------------------------
(* What commands have read.                                                *)

\* A write disturbs every command that is reading.
LEMMA WritesDisturb ==
  ASSUME ReportTypeOK, Exact, UNCHANGED reader,
         \/ UNCHANGED <<dir, broken, disturbed>>
         \/ \E d \in Dirs : Touch(d) \/ Repair(d)
  PROVE  Exact'
<1>1. CASE UNCHANGED <<dir, broken, disturbed>>
  BY <1>1 DEF Exact, ExactFor, Replied
<1>2. CASE \E d \in Dirs : Touch(d) \/ Repair(d)
  <2>1. \A r \in Readers : ~disturbed'[r] => ~disturbed[r] /\ reader[r].step \notin Reading
    BY <1>2 DEF Touch, Repair
  <2>2. {"images", "serve"} \subseteq Reading
    BY DEF Reading
  <2> QED
    BY <2>1, <2>2 DEF Exact, ExactFor, Replied
<1> QED
  BY <1>1, <1>2

LEMMA PipelineExact ==
  ASSUME ReportTypeOK, Rendered, Exact, Pipeline
  PROVE  Exact'
<1>1. target \in Dirs /\ BotDir \in Dirs
  BY DirsAreThere DEF ReportTypeOK
<1> QED
  BY <1>1, PipelineWrites, WritesDisturb

LEMMA UploadExact ==
  ASSUME ReportTypeOK, Exact, NEW u \in Sendings, Upload(u)
  PROVE  Exact'
BY DirsAreThere, UploadWrites, WritesDisturb

\* One command moves: what it owes is its own.
LEMMA CommandFrame ==
  ASSUME ReportTypeOK, NEW r \in Readers, Command(r)
  PROVE  /\ Exact => \A q \in Readers \ {r} : ~disturbed'[q] => ExactFor(q)'
         /\ Newer => (~Copied => \A q \in Readers \ {r} : NewerFor(q)')
         /\ Copied' <=> Copied
<1>1. /\ UNCHANGED <<target, lab, published, dir, pipeline, sending, broken>>
      /\ \A q \in Readers \ {r} : reader'[q] = reader[q] /\ disturbed'[q] = disturbed[q]
  BY CommandsOnlyRead
<1>2. Copied' <=> Copied
  BY <1>1 DEF Copied
<1>3. \A q \in Readers \ {r} : ExactFor(q)' <=> ExactFor(q)
  BY <1>1 DEF ExactFor, Replied
<1>4. \A q \in Readers \ {r} : NewerFor(q)' <=> NewerFor(q)
  BY <1>1 DEF NewerFor, Replied
<1> QED
  BY <1>1, <1>2, <1>3, <1>4 DEF Exact, Newer

\* A directory that is not broken has the images of its manifest.
LEMMA QuietIsWhole ==
  ASSUME WholeUnlessBroken, broken = {}, NEW d \in Dirs, NEW i \in Images
  PROVE  dir[d].image[i] = dir[d].manifest
<1>1. Whole(d, dir[d].manifest)
  BY DEF WholeUnlessBroken
<1> QED
  BY <1>1, WholeThen

LEMMA ReaderParts ==
  ASSUME ReportTypeOK, NEW r \in Readers
  PROVE  /\ reader \in [Readers -> CommandState] /\ reader[r] \in CommandState
         /\ reader[r].got \in [Images -> 0 .. MaxPlan] /\ reader[r].left \subseteq Images
         /\ reader[r].want \in Nat /\ reader[r].claimed \in Nat
         /\ disturbed[r] \in BOOLEAN
BY PlansAreNat DEF ReportTypeOK, CommandState, CommandSteps

LEMMA ReadExact ==
  ASSUME ReportTypeOK, WholeUnlessBroken, NEW r \in Readers, NEW i \in Images,
         ReadImage(r, i) \/ ServeImage(r, i), ~disturbed[r], ExactFor(r)
  PROVE  ExactFor(r)'
<1>0. BotDir \in Dirs /\ ApiDir \in Dirs /\ reader \in [Readers -> CommandState]
  BY DirsAreThere, ReaderParts
<1>1. broken = {} /\ UNCHANGED <<dir, broken>>
  BY DEF ReadImage, ServeImage, Read, ExactFor, Reading
<1>2. CASE ReadImage(r, i)
  <2>1. dir[BotDir].image[i] = dir[BotDir].manifest /\ dir[BotDir].manifest = reader[r].want
    BY <1>0, <1>1, <1>2, QuietIsWhole DEF ReadImage, ExactFor
  <2>2. CASE dir[BotDir].image[i] = NoPlan
    <3>1. reader'[r].step = "ask"
      BY <1>0, <1>2, <2>2 DEF ReadImage, Read, CommandState
    <3> QED
      BY <1>1, <3>1 DEF ExactFor, Replied
  <2>3. CASE dir[BotDir].image[i] # NoPlan
    <3>1. /\ reader'[r].step = "images" /\ reader'[r].want = reader[r].want
          /\ reader'[r].left = reader[r].left \ {i}
      BY <1>0, <1>2, <2>3 DEF ReadImage, Read, CommandState
    <3>2. \A j \in Images :
            reader'[r].got[j] = IF j = i THEN reader[r].want ELSE reader[r].got[j]
      BY <1>0, <1>2, <2>1, <2>3 DEF ReadImage, Read, CommandState
    <3>3. \A j \in Images \ reader[r].left : reader[r].got[j] = reader[r].want
      BY <1>2 DEF ReadImage, ExactFor
    <3> QED
      BY <1>1, <2>1, <3>1, <3>2, <3>3 DEF ExactFor, Replied
  <2> QED
    BY <2>2, <2>3
<1>3. CASE ServeImage(r, i)
  <2>1. dir[ApiDir].image[i] = dir[ApiDir].manifest /\ dir[ApiDir].manifest = reader[r].claimed
    BY <1>0, <1>1, <1>3, QuietIsWhole DEF ServeImage, ExactFor
  <2>2. CASE dir[ApiDir].image[i] = NoPlan
    <3>1. reader'[r].step = "refused"
      BY <1>0, <1>3, <2>2 DEF ServeImage, Read, CommandState
    <3> QED
      BY <1>1, <3>1 DEF ExactFor, Replied
  <2>3. CASE dir[ApiDir].image[i] # NoPlan
    <3>1. /\ reader'[r].step = "serve" /\ reader'[r].claimed = reader[r].claimed
          /\ reader'[r].left = reader[r].left \ {i}
      BY <1>0, <1>3, <2>3 DEF ServeImage, Read, CommandState
    <3>2. \A j \in Images :
            reader'[r].got[j] = IF j = i THEN reader[r].claimed ELSE reader[r].got[j]
      BY <1>0, <1>3, <2>1, <2>3 DEF ServeImage, Read, CommandState
    <3>3. \A j \in Images \ reader[r].left : reader[r].got[j] = reader[r].claimed
      BY <1>3 DEF ServeImage, ExactFor
    <3> QED
      BY <1>1, <2>1, <3>1, <3>2, <3>3 DEF ExactFor, Replied
  <2> QED
    BY <2>2, <2>3
<1> QED
  BY <1>2, <1>3

LEMMA CommandExact ==
  ASSUME ReportTypeOK, WholeUnlessBroken, Exact, NEW r \in Readers, Command(r)
  PROVE  Exact'
<1>0. reader \in [Readers -> CommandState]
  BY ReaderParts
<1> SUFFICES ASSUME ~disturbed'[r] PROVE ExactFor(r)'
  BY CommandFrame DEF Exact
<1>1. CASE AskPlan(r)
  <2>1. CASE published = NoPlan
    <3>1. reader'[r].step = "refused"
      BY <1>0, <1>1, <2>1 DEF AskPlan, Ends, CommandState
    <3> QED
      BY <3>1 DEF ExactFor, Reading, Replied
  <2>2. CASE published # NoPlan
    <3>1. reader'[r].step = "manifest"
      BY <1>0, <1>1, <2>2 DEF AskPlan, CommandState
    <3>2. disturbed'[r] = (broken # {}) /\ broken' = broken
      BY <1>1, <2>2 DEF AskPlan, ReportTypeOK
    <3>3. broken' = {}
      BY <3>2
    <3> QED
      BY <3>1, <3>3 DEF ExactFor, Replied
  <2> QED
    BY <2>1, <2>2
<1>2. CASE ~AskPlan(r)
  <2>0. ~disturbed[r] /\ ExactFor(r) /\ UNCHANGED <<dir, broken>>
    <3>1. UNCHANGED <<dir, broken, disturbed>>
      BY <1>2 DEF Command, ReadManifest, Reply, ServeManifest, Received, ReadImage,
                  ServeImage, Read
    <3> QED
      BY <3>1 DEF Exact
  <2>1. CASE ReadManifest(r)
    <3>1. broken = {}
      BY <2>0, <2>1 DEF ReadManifest, ExactFor, Reading
    <3>2. CASE dir[BotDir].manifest = reader[r].want
      <4>1. reader'[r].step = "images" /\ reader'[r].left = Images
            /\ reader'[r].want = reader[r].want
        BY <1>0, <2>1, <3>2 DEF ReadManifest, CommandState
      <4> QED
        BY <2>0, <3>1, <3>2, <4>1 DEF ExactFor, Replied
    <3>3. CASE dir[BotDir].manifest # reader[r].want
      <4>1. reader'[r].step = "ask"
        BY <1>0, <2>1, <3>3 DEF ReadManifest, CommandState
      <4> QED
        BY <2>0, <3>1, <4>1 DEF ExactFor, Replied
    <3> QED
      BY <3>2, <3>3
  <2>2. CASE Reply(r)
    <3>1. /\ reader'[r].step = "replied" /\ reader'[r].want = reader[r].want
          /\ reader'[r].got = reader[r].got
      BY <1>0, <2>2 DEF Reply, Ends, CommandState
    <3>2. \A i \in Images : reader[r].got[i] = reader[r].want
      BY <2>0, <2>2 DEF Reply, ExactFor
    <3> QED
      BY <3>1, <3>2 DEF ExactFor, Reading, Replied
  <2>3. CASE ServeManifest(r)
    <3>1. broken = {}
      BY <2>0, <2>3 DEF ServeManifest, ExactFor, Reading
    <3>2. CASE dir[ApiDir].manifest = NoPlan
      <4>1. reader'[r].step = "refused"
        BY <1>0, <2>3, <3>2 DEF ServeManifest, CommandState
      <4> QED
        BY <4>1 DEF ExactFor, Reading, Replied
    <3>3. CASE dir[ApiDir].manifest # NoPlan
      <4>1. reader'[r].step = "serve" /\ reader'[r].left = Images
            /\ reader'[r].claimed = dir[ApiDir].manifest
        BY <1>0, <2>3, <3>3 DEF ServeManifest, CommandState
      <4> QED
        BY <2>0, <3>1, <4>1 DEF ExactFor, Replied
    <3> QED
      BY <3>2, <3>3
  <2>4. CASE Received(r)
    <3>1. \A i \in Images : reader[r].got[i] = reader[r].claimed
      BY <2>0, <2>4 DEF Received, ExactFor
    <3>2. CASE reader[r].claimed = reader[r].want
      <4>1. /\ reader'[r].step = "replied" /\ reader'[r].want = reader[r].want
            /\ reader'[r].got = reader[r].got
        BY <1>0, <2>4, <3>2 DEF Received, Ends, CommandState
      <4> QED
        BY <3>1, <3>2, <4>1 DEF ExactFor, Reading, Replied
    <3>3. CASE reader[r].claimed # reader[r].want
      <4>1. reader'[r].step = "refused"
        BY <1>0, <2>4, <3>3 DEF Received, Ends, CommandState
      <4> QED
        BY <4>1 DEF ExactFor, Reading, Replied
    <3> QED
      BY <3>2, <3>3
  <2>5. CASE \E i \in Images : ReadImage(r, i) \/ ServeImage(r, i)
    BY <2>0, <2>5, ReadExact
  <2> QED
    BY <1>2, <2>1, <2>2, <2>3, <2>4, <2>5 DEF Command
<1> QED
  BY <1>1, <1>2
-----------------------------------------------------------------------------
(* Never older.                                                            *)

LEMMA AheadManifest ==
  ASSUME ReportTypeOK, Ahead
  PROVE  /\ dir[target].manifest \in Nat /\ lab \in Nat /\ dir[target].manifest <= lab
         /\ \A i \in Images : dir[target].image[i] \in Nat
<1>1. target \in Dirs /\ lab \in Nat
  BY DirsAreThere, PlansAreNat DEF ReportTypeOK
<1>2. dir[target].manifest \in Nat /\ \A i \in Images : dir[target].image[i] \in Nat
  BY <1>1, DirParts, PlansAreNat
<1>3. PICK i \in Images : TRUE
  BY PlanAssumption
<1>4. dir[target].manifest <= dir[target].image[i] /\ dir[target].image[i] <= lab
  BY DEF Ahead
<1> QED
  BY <1>1, <1>2, <1>4

\* Nor does the pipeline ever take the manifest back.
LEMMA PipelineAhead ==
  ASSUME ReportTypeOK, Rendered, Ahead, Pipeline
  PROVE  Ahead' /\ (~Copied => dir[target].manifest <= dir'[target].manifest)
<1>0. /\ target \in Dirs /\ BotDir \in Dirs /\ lab \in Nat /\ target' = target
      /\ dir[target].manifest \in Nat /\ dir[target].manifest <= lab
      /\ \A i \in Images : dir[target].image[i] \in Nat
      /\ dir[target] \in Dir
  BY AheadManifest, DirsAreThere, DirParts, PipelineWrites DEF ReportTypeOK
<1>1. CASE StartRun
  <2>1. dir' = dir /\ lab' \in Nat /\ lab <= lab'
    BY <1>0, <1>1 DEF StartRun
  <2> QED
    BY <1>0, <2>1 DEF Ahead
<1>2. CASE WriteManifest
  <2>1. dir'[target] = [dir[target] EXCEPT !.manifest = lab] /\ lab' = lab
    BY <1>0, <1>2 DEF WriteManifest, ReportTypeOK
  <2>2. dir'[target].manifest = lab /\ dir'[target].image = dir[target].image
    BY <1>0, <2>1 DEF Dir
  <2>3. \A i \in Images : dir[target].image[i] = lab
    BY <1>2 DEF WriteManifest, Rendered
  <2> QED
    BY <1>0, <2>1, <2>2, <2>3 DEF Ahead
<1>3. CASE PutAssignment \/ Abort
  <2>1. dir' = dir /\ lab' = lab
    BY <1>3 DEF PutAssignment, Abort
  <2> QED
    BY <1>0, <2>1 DEF Ahead
<1>4. ASSUME NEW i \in Images, RenderImage(i)
      PROVE  Ahead' /\ dir'[target].manifest = dir[target].manifest
  <2>1. dir'[target] = [dir[target] EXCEPT !.image[i] = lab] /\ lab' = lab
    BY <1>0, <1>4 DEF RenderImage, ReportTypeOK
  <2>2. /\ dir'[target].manifest = dir[target].manifest
        /\ \A j \in Images : dir'[target].image[j] = IF j = i THEN lab ELSE dir[target].image[j]
    BY <1>0, <2>1 DEF Dir
  <2> QED
    BY <1>0, <2>1, <2>2 DEF Ahead
<1>5. ASSUME NEW f \in Images \cup {"manifest"}, CopyFile(f)
      PROVE  Ahead' /\ dir'[target] = dir[target]
  <2>1. dir'[target] = dir[target] /\ lab' = lab
    BY <1>5, CopyGoesOn DEF CopyFile
  <2> QED
    BY <1>0, <2>1 DEF Ahead
<1> QED
  BY <1>0, <1>1, <1>2, <1>3, <1>4, <1>5 DEF Pipeline

LEMMA PipelineNewer ==
  ASSUME ReportTypeOK, Rendered, Ahead, Newer, Pipeline
  PROVE  Newer'
<1>0. UNCHANGED <<target, reader>> /\ (Copied' <=> Copied)
  BY PipelineWrites DEF Copied
<1> SUFFICES ASSUME ~Copied, NEW r \in Readers, NewerFor(r) PROVE NewerFor(r)'
  BY <1>0 DEF Newer
<1>1. /\ target = BotDir /\ dir[BotDir].manifest <= dir'[BotDir].manifest
      /\ dir[BotDir].manifest \in Nat /\ dir'[BotDir].manifest \in Nat /\ reader[r].want \in Nat
  <2>1. target = BotDir /\ target \in Dirs
    BY DirsAreThere DEF Copied
  <2>2. dir'[target].manifest \in Nat
    <3>1. dir' \in [Dirs -> Dir]
      BY PipelineTypes DEF ReportTypeOK, Dirs, Dir
    <3> QED
      BY <2>1, <3>1, PlansAreNat DEF Dir
  <2>3. dir[target].manifest \in Nat /\ reader[r].want \in Nat
    BY AheadManifest, ReaderParts
  <2> QED
    BY <2>1, <2>2, <2>3, PipelineAhead
<1>2. reader[r].step = "images" => reader[r].want <= dir'[BotDir].manifest
  BY <1>1 DEF NewerFor
<1> QED
  BY <1>0, <1>2 DEF NewerFor, Replied

LEMMA UploadNewer ==
  ASSUME ReportTypeOK, Ahead, Newer, NEW u \in Sendings, Upload(u)
  PROVE  Ahead' /\ Newer'
<1>1. /\ UNCHANGED <<target, lab, reader>>
      /\ dir'[target] = dir[target] /\ dir'[BotDir] = dir[BotDir]
  BY UploadWrites
<1> QED
  BY <1>1 DEF Ahead, Newer, NewerFor, Replied, Copied

LEMMA ReadNewer ==
  ASSUME ReportTypeOK, Ahead, ~Copied, NEW r \in Readers, NEW i \in Images,
         ReadImage(r, i) \/ ServeImage(r, i), NewerFor(r)
  PROVE  NewerFor(r)'
<1>0. /\ reader \in [Readers -> CommandState] /\ dir' = dir /\ target = BotDir
      /\ dir[BotDir].manifest \in Nat /\ dir[BotDir].image[i] \in Nat
      /\ dir[BotDir].manifest <= dir[BotDir].image[i] /\ reader[r].want \in Nat
  BY ReaderParts, AheadManifest DEF Ahead, Copied, ReadImage, ServeImage, Read
<1>1. CASE ReadImage(r, i)
  <2>1. CASE dir[BotDir].image[i] = NoPlan
    <3>1. reader'[r].step = "ask"
      BY <1>0, <1>1, <2>1 DEF ReadImage, Read, CommandState
    <3> QED
      BY <3>1 DEF NewerFor, Replied
  <2>2. CASE dir[BotDir].image[i] # NoPlan
    <3>1. /\ reader'[r].step = "images" /\ reader'[r].want = reader[r].want
          /\ reader'[r].left = reader[r].left \ {i}
      BY <1>0, <1>1, <2>2 DEF ReadImage, Read, CommandState
    <3>2. \A j \in Images :
            reader'[r].got[j] = IF j = i THEN dir[BotDir].image[i] ELSE reader[r].got[j]
      BY <1>0, <1>1, <2>2 DEF ReadImage, Read, CommandState
    <3>3. /\ reader[r].want <= dir[BotDir].manifest
          /\ \A j \in Images \ reader[r].left : reader[r].want <= reader[r].got[j]
      BY <1>1 DEF ReadImage, NewerFor
    <3>4. reader[r].want <= dir[BotDir].image[i]
      BY <1>0, <3>3
    <3> QED
      BY <1>0, <3>1, <3>2, <3>3, <3>4 DEF NewerFor, Replied
  <2> QED
    BY <2>1, <2>2
<1>2. CASE ServeImage(r, i)
  <2>1. reader'[r].step \in {"serve", "refused"} /\ reader'[r].claimed = reader[r].claimed
    BY <1>0, <1>2 DEF ServeImage, Read, CommandState
  <2>2. reader[r].claimed # NoPlan
    BY <1>2 DEF ServeImage, NewerFor
  <2> QED
    BY <2>1, <2>2 DEF NewerFor, Replied
<1> QED
  BY <1>1, <1>2

LEMMA CommandNewer ==
  ASSUME ReportTypeOK, Ahead, Newer, NEW r \in Readers, Command(r)
  PROVE  Ahead' /\ Newer'
<1>0. UNCHANGED <<target, lab, dir>> /\ reader \in [Readers -> CommandState]
  BY CommandsOnlyRead, ReaderParts
<1>1. Ahead'
  BY <1>0 DEF Ahead
<1>2. ASSUME ~Copied PROVE NewerFor(r)'
  <2>1. NewerFor(r)
    BY <1>2 DEF Newer
  <2>2. CASE AskPlan(r) \/ ReadManifest(r)
    <3>1. CASE reader'[r].step = "images"
      <4>1. /\ dir[BotDir].manifest = reader[r].want /\ reader'[r].want = reader[r].want
            /\ reader'[r].left = Images
        BY <1>0, <2>2, <3>1 DEF AskPlan, ReadManifest, Ends, CommandState
      <4>2. reader[r].want \in Nat
        BY ReaderParts
      <4> QED
        BY <1>0, <3>1, <4>1, <4>2 DEF NewerFor, Replied
    <3>2. CASE reader'[r].step # "images"
      <4>1. reader'[r].step \in {"refused", "manifest", "ask"}
        BY <1>0, <2>2, <3>2 DEF AskPlan, ReadManifest, Ends, CommandState
      <4> QED
        BY <4>1 DEF NewerFor, Replied
    <3> QED
      BY <3>1, <3>2
  <2>3. CASE Reply(r)
    <3>1. /\ reader'[r].step = "replied" /\ reader'[r].want = reader[r].want
          /\ reader'[r].got = reader[r].got
      BY <1>0, <2>3 DEF Reply, Ends, CommandState
    <3>2. \A i \in Images : reader[r].want <= reader[r].got[i]
      BY <2>1, <2>3 DEF Reply, NewerFor
    <3> QED
      BY <3>1, <3>2 DEF NewerFor, Replied
  <2>4. CASE ServeManifest(r)
    <3>1. \/ reader'[r].step = "refused"
          \/ reader'[r].step = "serve" /\ reader'[r].claimed # NoPlan
      BY <1>0, <2>4 DEF ServeManifest, CommandState
    <3> QED
      BY <3>1 DEF NewerFor, Replied
  <2>5. CASE Received(r)
    <3>1. reader'[r].step \in {"replied", "refused"} /\ reader'[r].claimed = reader[r].claimed
      BY <1>0, <2>5 DEF Received, Ends, CommandState
    <3>2. reader[r].claimed # NoPlan
      BY <2>1, <2>5 DEF Received, NewerFor
    <3> QED
      BY <3>1, <3>2 DEF NewerFor, Replied
  <2>6. CASE \E i \in Images : ReadImage(r, i) \/ ServeImage(r, i)
    BY <1>2, <2>1, <2>6, ReadNewer
  <2> QED
    BY <2>2, <2>3, <2>4, <2>5, <2>6 DEF Command
<1>3. Newer'
  BY <1>2, CommandFrame DEF Newer
<1> QED
  BY <1>1, <1>3
-----------------------------------------------------------------------------
LEMMA CommandKeeps ==
  ASSUME WholeUnlessBroken, Rendered, Uploaded, NEW r \in Readers,
         UNCHANGED <<target, lab, published, dir, pipeline, sending, broken>>
  PROVE  WholeUnlessBroken' /\ Rendered' /\ Uploaded'
BY DEF WholeUnlessBroken, Rendered, Uploaded, SuccessIsVisible, Whole, Copied, Dirs

LEMMA ReportNextInv == ReportInv /\ [ReportNext]_reportVars => ReportInv'
<1> SUFFICES ASSUME ReportTypeOK, WholeUnlessBroken, Rendered, Uploaded, Exact, Ahead, Newer,
                    [ReportNext]_reportVars
             PROVE  ReportInv'
  BY DEF ReportInv
<1>1. CASE Pipeline
  <2>1. ReportTypeOK'
    BY <1>1, PipelineTypes
  <2>2. WholeUnlessBroken' /\ Rendered' /\ Uploaded'
    BY <1>1, PipelineSteady, PipelineRendered, PipelineUploaded
  <2>3. Exact' /\ Ahead' /\ Newer'
    BY <1>1, PipelineExact, PipelineAhead, PipelineNewer
  <2> QED
    BY <2>1, <2>2, <2>3 DEF ReportInv
<1>2. ASSUME NEW r \in Readers, Command(r) PROVE ReportInv'
  <2>1. ReportTypeOK'
    BY <1>2, CommandTypes
  <2>2. WholeUnlessBroken' /\ Rendered' /\ Uploaded'
    BY <1>2, CommandsOnlyRead, CommandKeeps
  <2>3. Exact' /\ Ahead' /\ Newer'
    BY <1>2, CommandExact, CommandNewer
  <2> QED
    BY <2>1, <2>2, <2>3 DEF ReportInv
<1>3. ASSUME NEW u \in Sendings, Upload(u) PROVE ReportInv'
  <2>1. ReportTypeOK'
    BY <1>3, UploadTypes
  <2>2. WholeUnlessBroken' /\ Rendered' /\ Uploaded'
    BY <1>3, UploadSteady, UploadRendered, UploadUploaded
  <2>3. Exact' /\ Ahead' /\ Newer'
    BY <1>3, UploadExact, UploadNewer
  <2> QED
    BY <2>1, <2>2, <2>3 DEF ReportInv
<1>4. CASE UNCHANGED reportVars
  BY <1>4 DEF reportVars, ReportInv, ReportTypeOK, WholeUnlessBroken, Rendered, Uploaded, Exact,
    ExactFor, Ahead, Newer, NewerFor, SuccessIsVisible, Replied, Whole, Copied, Dirs, Dir
<1> QED
  BY <1>1, <1>2, <1>3, <1>4 DEF ReportNext

LEMMA ReportInvHolds == ReportSpec => []ReportInv
BY ReportInitInv, ReportNextInv, PTL DEF ReportSpec

\* The images a command sends are of the plan its text names unless a writer
\* was at work meanwhile, and from the bot's own directory never older: for
\* any images, directories, commands and overlapping uploads.
THEOREM ImagesAreOfThePlanHolds == ReportSpec => []ImagesAreOfThePlan
<1>1. ReportInv => ImagesAreOfThePlan
  <2> SUFFICES ASSUME ReportInv PROVE UndisturbedIsExact /\ NeverOlder
    BY DEF ImagesAreOfThePlan
  <2>1. UndisturbedIsExact
    BY DEF ReportInv, Exact, ExactFor, UndisturbedIsExact
  <2>2. NeverOlder
    <3> SUFFICES ASSUME NEW r \in Readers, ~Copied, Replied(r), reader[r].claimed = NoPlan,
                        NEW i \in Images
                 PROVE  reader[r].got[i] >= reader[r].want
      BY DEF NeverOlder
    <3>1. reader[r].want <= reader[r].got[i]
      BY DEF ReportInv, Newer, NewerFor
    <3>2. reader[r].want \in Nat /\ reader[r].got[i] \in Nat
      BY ReaderParts, PlansAreNat DEF ReportInv
    <3> QED
      BY <3>1, <3>2
  <2> QED
    BY <2>1, <2>2
<1> QED
  BY <1>1, ReportInvHolds, PTL

\* A pipeline that reports success has left the API, the manifest and every
\* image of the bot at one plan, whatever broke off before it.
THEOREM SuccessIsVisibleHolds == ReportSpec => []SuccessIsVisible
<1>1. ReportInv => SuccessIsVisible
  BY DEF ReportInv, Rendered
<1> QED
  BY <1>1, ReportInvHolds, PTL
=============================================================================
