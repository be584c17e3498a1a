---------------------------- MODULE ReportAssets ---------------------------
(***************************************************************************)
(* How a combat plan reaches the chat. The pipeline runs the lab, renders  *)
(* the plan's images and a manifest into its output directory, stores the  *)
(* plan in the API and copies the directory to the one the bot reads, when *)
(* that is another. The bot asks the API for the latest plan, compares the *)
(* manifest of its directory with it and reads the images; when directory  *)
(* and plan do not agree it asks the API for its copy of the images.       *)
(*                                                                         *)
(* None of the directories has a lock, and each file is an await of its    *)
(* own. A plan is its number (generatedAt), an image the plan it shows.    *)
(* Files are taken in any order where the code has a fixed one that no     *)
(* step depends on, and a file is written at once: a manifest read half    *)
(* written does not parse and ends the command.                            *)
(* The directory above the bot's is there (without it no bot reads).       *)
(* Left out: the English images, the public gallery, the life report. One  *)
(* pipeline runs at a time (CombatTestRun), started by nobody else.        *)
(***************************************************************************)
EXTENDS Naturals

CONSTANTS
  Images,             \* the images of a plan: four
  BotDir, ApiDir,     \* the directories of the bot and of the API
  OutDirs,            \* where the pipeline may be told to render
  Readers,            \* commands of the bot that show the plan
  Sendings,           \* images an administrator puts into the API
  MaxPlan             \* bounds the plans

ASSUME PlanAssumption ==
  MaxPlan \in Nat \ {0} /\ Images # {} /\ "manifest" \notin Images

\* Where anybody uploads, the API's directory is its own; where the API is
\* pointed at a directory of the pipeline or the bot, nobody does.
ASSUME DirsAssumption == Sendings # {} => ApiDir \notin OutDirs \cup {BotDir}

VARIABLES
  target,     \* the pipeline's output directory
  lab,        \* the plan of the lab's result file
  published,  \* the latest plan of the API, 0 if there is none
  dir,        \* the directories
  pipeline,   \* the pipeline; ok: it has published and ended without an error
  reader,     \* each command
  sending,    \* each upload
  broken,     \* ghost: directories being written, or left half written
  disturbed   \* ghost: commands that met such a directory

reportVars == <<target, lab, published, dir, pipeline, reader, sending, broken, disturbed>>

Plans == 1 .. MaxPlan
NoPlan == 0
Dirs == {BotDir, ApiDir} \cup OutDirs
Copied == target # BotDir

Dir == [manifest : Plans \cup {NoPlan}, image : [Images -> Plans \cup {NoPlan}]]
Nothing == [i \in Images |-> NoPlan]
Whole(d, p) == dir[d] = [manifest |-> p, image |-> [i \in Images |-> p]]

Reading == {"manifest", "images", "ask", "serve"}

\* A directory is written: whoever reads meanwhile may be disturbed.
Touch(d) ==
  /\ broken' = broken \cup {d}
  /\ disturbed' = [r \in Readers |-> disturbed[r] \/ reader[r].step \in Reading]
Repair(d) ==
  /\ broken' = broken \ {d}
  /\ disturbed' = [r \in Readers |-> disturbed[r] \/ reader[r].step \in Reading]

Ended(ok) == [step |-> "idle", left |-> {}, public |-> FALSE, ok |-> ok]

ReportInit ==
  /\ target \in OutDirs
  /\ lab = NoPlan
  /\ published = NoPlan
  /\ dir = [d \in Dirs |-> [manifest |-> NoPlan, image |-> Nothing]]
  /\ pipeline = Ended(FALSE)
  /\ reader = [r \in Readers |->
       [step |-> "idle", want |-> NoPlan, left |-> {}, got |-> Nothing, claimed |-> NoPlan]]
  /\ sending = [u \in Sendings |->
       [step |-> "idle", plan |-> NoPlan, left |-> {}, alone |-> TRUE]]
  /\ broken = {}
  /\ disturbed = [r \in Readers |-> FALSE]
-----------------------------------------------------------------------------
(* The pipeline.                                                           *)

\* The lab writes a new plan, or --skip-sim takes the one there is; public is
\* neither --skip-api-publish nor --dry-run.
StartRun ==
  /\ pipeline.step = "idle"
  /\ lab' \in {lab, lab + 1} \cap Plans
  /\ \E public \in BOOLEAN :
       pipeline' = [step |-> "render", left |-> Images, public |-> public, ok |-> FALSE]
  /\ UNCHANGED <<target, published, dir, reader, sending, broken, disturbed>>

\* A bug: an image that is there is kept.
RenderImageKeepsMutant(i) ==
  /\ pipeline.step = "render" /\ i \in pipeline.left
  /\ pipeline' = [pipeline EXCEPT !.left = @ \ {i}]
  /\ dir' = [dir EXCEPT ![target].image[i] = IF @ = NoPlan THEN lab ELSE @]
  /\ Touch(target)
  /\ UNCHANGED <<target, lab, published, reader, sending>>

RenderImage(i) ==
  /\ pipeline.step = "render" /\ i \in pipeline.left
  /\ pipeline' = [pipeline EXCEPT !.left = @ \ {i}]
  /\ dir' = [dir EXCEPT ![target].image[i] = lab]
  /\ Touch(target)
  /\ UNCHANGED <<target, lab, published, reader, sending>>

WriteManifest ==
  /\ pipeline.step = "render" /\ pipeline.left = {}
  /\ pipeline' = [pipeline EXCEPT !.step = "put"]
  /\ dir' = [dir EXCEPT ![target].manifest = lab]
  /\ Repair(target)
  /\ UNCHANGED <<target, lab, published, reader, sending>>

Stored == IF pipeline.public THEN lab ELSE published

\* A bug: the copy of the bot is taken to be the same directory.
PutAssignmentMutant ==
  /\ pipeline.step = "put"
  /\ published' = Stored
  /\ pipeline' = Ended(pipeline.public)
  /\ UNCHANGED <<target, lab, dir, reader, sending, broken, disturbed>>

PutAssignment ==
  /\ pipeline.step = "put"
  /\ published' = Stored
  /\ pipeline' = IF Copied
             THEN [pipeline EXCEPT !.step = "copy", !.left = Images \cup {"manifest"}]
             ELSE Ended(pipeline.public)
  /\ UNCHANGED <<target, lab, dir, reader, sending, broken, disturbed>>

\* cpSync takes the files as the directory lists them.
CopyFile(f) ==
  /\ pipeline.step = "copy" /\ f \in pipeline.left
  /\ dir' = [dir EXCEPT ![BotDir] =
       IF f = "manifest" THEN [@ EXCEPT !.manifest = dir[target].manifest]
                         ELSE [@ EXCEPT !.image[f] = dir[target].image[f]]]
  /\ IF pipeline.left = {f}
     THEN pipeline' = Ended(pipeline.public) /\ Repair(BotDir)
     ELSE pipeline' = [pipeline EXCEPT !.left = @ \ {f}] /\ Touch(BotDir)
  /\ UNCHANGED <<target, lab, published, reader, sending>>

\* A step fails, or somebody stops the run.
Abort ==
  /\ pipeline.step # "idle"
  /\ pipeline' = Ended(FALSE)
  /\ UNCHANGED <<target, lab, published, dir, reader, sending, broken, disturbed>>
-----------------------------------------------------------------------------
(* The bot's command (getLatestCombatAssignment).                          *)

Ends(r, state) == reader' = [reader EXCEPT ![r].step = state]

AskPlan(r) ==
  /\ reader[r].step = "idle"
  /\ IF published = NoPlan
     THEN Ends(r, "refused") /\ UNCHANGED disturbed
     ELSE /\ reader' = [reader EXCEPT ![r].step = "manifest", ![r].want = published]
          /\ disturbed' = [disturbed EXCEPT ![r] = broken # {}]
  /\ UNCHANGED <<target, lab, published, dir, pipeline, sending, broken>>

\* Missing or of another plan: the API's images are asked for instead.
ReadManifest(r) ==
  /\ reader[r].step = "manifest"
  /\ reader' = IF dir[BotDir].manifest = reader[r].want
               THEN [reader EXCEPT ![r].step = "images", ![r].left = Images]
               ELSE [reader EXCEPT ![r].step = "ask"]
  /\ UNCHANGED <<target, lab, published, dir, pipeline, sending, broken, disturbed>>

\* The images are read in the manifest's order; any order reads as much.
Read(r, d, i, missing) ==
  /\ i \in reader[r].left
  /\ reader' =
       IF dir[d].image[i] = NoPlan
       THEN [reader EXCEPT ![r].step = missing, ![r].left = {}]
       ELSE [reader EXCEPT ![r].left = @ \ {i}, ![r].got[i] = dir[d].image[i]]
  /\ UNCHANGED <<target, lab, published, dir, pipeline, sending, broken, disturbed>>

ReadImage(r, i) == reader[r].step = "images" /\ Read(r, BotDir, i, "ask")

Reply(r) ==
  /\ reader[r].step = "images" /\ reader[r].left = {}
  /\ Ends(r, "replied")
  /\ UNCHANGED <<target, lab, published, dir, pipeline, sending, broken, disturbed>>

\* The API's side of the question: manifest first, then the images.
ServeManifest(r) ==
  /\ reader[r].step = "ask"
  /\ reader' = IF dir[ApiDir].manifest = NoPlan
               THEN [reader EXCEPT ![r].step = "refused"]
               ELSE [reader EXCEPT ![r].step = "serve", ![r].left = Images,
                                   ![r].claimed = dir[ApiDir].manifest]
  /\ UNCHANGED <<target, lab, published, dir, pipeline, sending, broken, disturbed>>

ServeImage(r, i) == reader[r].step = "serve" /\ Read(r, ApiDir, i, "refused")

\* The bot compares the plan the API names.
Received(r) ==
  /\ reader[r].step = "serve" /\ reader[r].left = {}
  /\ Ends(r, IF reader[r].claimed = reader[r].want THEN "replied" ELSE "refused")
  /\ UNCHANGED <<target, lab, published, dir, pipeline, sending, broken, disturbed>>
-----------------------------------------------------------------------------
(* PUT test-report-assets: the body is checked, then written file by file. *)

Writing(u) == \E v \in Sendings \ {u} : sending[v].step = "write"

\* Nothing keeps two uploads apart (alone is a ghost).
PutAssets(u) ==
  /\ sending[u].step = "idle"
  /\ \E p \in 1 .. lab :
       sending' = [v \in Sendings |->
         IF v = u
         THEN [step |-> "write", plan |-> p, left |-> Images, alone |-> ~Writing(u)]
         ELSE [sending[v] EXCEPT !.alone = @ /\ sending[v].step # "write"]]
  /\ UNCHANGED <<target, lab, published, dir, pipeline, reader, broken, disturbed>>

PutImage(u, i) ==
  /\ sending[u].step = "write" /\ i \in sending[u].left
  /\ sending' = [sending EXCEPT ![u].left = @ \ {i}]
  /\ dir' = [dir EXCEPT ![ApiDir].image[i] = sending[u].plan]
  /\ Touch(ApiDir)
  /\ UNCHANGED <<target, lab, published, pipeline, reader>>

PutManifest(u) ==
  /\ sending[u].step = "write" /\ sending[u].left = {}
  /\ sending' = [sending EXCEPT ![u].step = "done"]
  /\ dir' = [dir EXCEPT ![ApiDir].manifest = sending[u].plan]
  /\ IF sending[u].alone THEN Repair(ApiDir) ELSE Touch(ApiDir)
  /\ UNCHANGED <<target, lab, published, pipeline, reader>>

\* A write fails and the rest is not made.
PutBreaks(u) ==
  /\ sending[u].step = "write"
  /\ sending' = [sending EXCEPT ![u].step = "failed"]
  /\ UNCHANGED <<target, lab, published, dir, pipeline, reader, broken, disturbed>>

Pipeline ==
  \/ StartRun \/ WriteManifest \/ PutAssignment \/ Abort
  \/ \E i \in Images : RenderImage(i)
  \/ \E f \in Images \cup {"manifest"} : CopyFile(f)

Command(r) ==
  \/ AskPlan(r) \/ ReadManifest(r) \/ Reply(r) \/ ServeManifest(r) \/ Received(r)
  \/ \E i \in Images : ReadImage(r, i) \/ ServeImage(r, i)

Upload(u) ==
  PutAssets(u) \/ PutManifest(u) \/ PutBreaks(u) \/ \E i \in Images : PutImage(u, i)

ReportNext ==
  Pipeline \/ (\E r \in Readers : Command(r)) \/ (\E u \in Sendings : Upload(u))

ReportSpec == ReportInit /\ [][ReportNext]_reportVars
-----------------------------------------------------------------------------
\* The variables keep their types.
ReportTypeOK ==
  /\ target \in OutDirs
  /\ lab \in 0 .. MaxPlan /\ published \in 0 .. MaxPlan
  /\ dir \in [Dirs -> Dir]
  /\ pipeline \in [step : {"idle", "render", "put", "copy"},
               left : SUBSET (Images \cup {"manifest"}), public : BOOLEAN, ok : BOOLEAN]
  /\ reader \in [Readers ->
       [step : Reading \cup {"idle", "replied", "refused"}, want : 0 .. MaxPlan,
        left : SUBSET Images, got : [Images -> 0 .. MaxPlan], claimed : 0 .. MaxPlan]]
  /\ sending \in [Sendings -> [step : {"idle", "write", "done", "failed"},
                             plan : 0 .. MaxPlan, left : SUBSET Images, alone : BOOLEAN]]
  /\ broken \subseteq Dirs
  /\ disturbed \in [Readers -> BOOLEAN]

Replied(r) == reader[r].step = "replied"

(* The images the bot sends are those of the plan whose text they go with, *)
(* unless a writer was at work, or had broken off, while the command was   *)
(* under way, or two uploads had overlapped: the comparisons of the two    *)
(* manifests suffice.                                                      *)
UndisturbedIsExact ==
  \A r \in Readers :
    Replied(r) /\ ~disturbed[r] => \A i \in Images : reader[r].got[i] = reader[r].want

(* When the pipeline renders into the bot's directory, a command may show  *)
(* images of a plan still being made, and never older ones than its text:  *)
(* also not after runs that broke off. (The API's images may be older, by  *)
(* two uploads that overlap.)                                              *)
NeverOlder ==
  \A r \in Readers :
    ~Copied /\ Replied(r) /\ reader[r].claimed = NoPlan =>
      \A i \in Images : reader[r].got[i] >= reader[r].want

(* Both of what a chat may rely on.                                        *)
ImagesAreOfThePlan == UndisturbedIsExact /\ NeverOlder

(* A pipeline that publishes and succeeds leaves the API, the manifest and all images of *)
(* the bot at one plan, whatever earlier runs left half done.              *)
SuccessIsVisible == pipeline.step = "idle" /\ pipeline.ok => published = lab /\ Whole(BotDir, lab)
=============================================================================
