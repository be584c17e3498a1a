----------------------------- MODULE WeeklyTrials -----------------------------
(***************************************************************************)
(* A guild week through the system: the trials of the week and the         *)
(* members' signups in the game, what a page of the game has captured of   *)
(* them, the catalogue, the registrations and the assignments in the API,  *)
(* the bot's life assignments with the report they leave on disk, and the  *)
(* commands that read all of these.                                        *)
(*                                                                         *)
(* Every clock agrees on the week; it begins on Friday, 0:00 UTC.  A page  *)
(* left open does not notice, and stamps what it uploads with the new one. *)
(* A handler of the API is one action.  A run of the optimizer is any      *)
(* assignment within the capacities.                                       *)
(***************************************************************************)
EXTENDS Naturals, FiniteSets

CONSTANTS
    Members,
    Trials,      \* positive numbers, in the order of their hrids
    Combat,      \* those of kind combat
    SetOf,       \* per week, the trials of the guild
    MaxRoom,     \* bound: places in a trial
    MaxRuns,     \* bound: life assignments generated
    Makers,      \* who generates them: commands of the bot, and the script
    Null

Weeks == DOMAIN SetOf

ASSUME WeeksAssumption ==
    /\ 1 \in Weeks /\ Weeks \subseteq Nat \ {0}
    /\ Trials \subseteq Nat \ {0} /\ \A w \in Weeks : SetOf[w] \subseteq Trials
    /\ IsFiniteSet(Members)

Off == 0                      \* no trial
Kinds == {"skilling", "combat"}
Of(kind, ts) == {t \in ts : t \in Combat <=> kind = "combat"}

VARIABLES
    week,      \* the week by every clock
    signup,    \* the game: per member and kind, the trial signed up for
    room,      \* the game: places in a skilling trial
    page,      \* the plugin: week of its trial set, signups, their week, room
    dated,     \* the game's rows carry signupWeekStartAt
    catalog,   \* API: latest weekly_trial_catalog_snapshots
    regs,      \* API: latest trial_registration_snapshots of each trial
    life,      \* API: latest life_assignment_runs, formal and test
    combat,    \* API: latest test assignment
    runs,      \* runs generated; their number is their generatedAt
    making,    \* per maker, the run under way
    report,    \* the life report on disk: run of latest.png, of manifest.json
    look,      \* the command that shows the formal life assignment
    check,     \* the command that compares assignments
    calm,      \* history: nothing has changed since that command began
    torn       \* history: two writers of the report overlapped, or one stopped
               \* half-way, and since then none has begun alone

inGame == <<week, signup, room>>
inApi == <<catalog, regs, life, combat>>
bot == <<runs, making, report, torn>>
weeklyVars == <<inGame, page, dated, inApi, bot, look, check, calm>>

Unmade == [at |-> "idle"]   \* no run under way

NoSignups == [m \in Members |-> [k \in Kinds |-> Off]]

WeeklyInit ==
    /\ week = 1 /\ signup = NoSignups /\ room = 1
    /\ page = [set |-> 0, signup |-> NoSignups, of |-> 0, room |-> 0]
    /\ dated \in BOOLEAN
    /\ catalog = Null /\ regs = [t \in Trials |-> Null]
    /\ life = [k \in {"formal", "test"} |-> Null] /\ combat = Null
    /\ runs = 0 /\ making = [p \in Makers |-> Unmade]
    /\ report = [png |-> 0, manifest |-> 0]
    /\ look = [at |-> "idle"] /\ check = [at |-> "idle"]
    /\ calm = FALSE /\ torn = FALSE

-----------------------------------------------------------------------------
(* The game and the page.                                                  *)

SignUp ==
    /\ \E m \in Members, k \in Kinds : \E t \in Of(k, SetOf[week]) \cup {Off} :
         signup' = [signup EXCEPT ![m][k] = t]
    /\ calm' = FALSE
    /\ UNCHANGED <<week, room, page, dated, inApi, bot, look, check>>

NewWeek ==
    /\ week + 1 \in Weeks /\ week' = week + 1
    /\ signup' = NoSignups
    /\ calm' = FALSE
    /\ UNCHANGED <<room, page, dated, inApi, bot, look, check>>

\* The guild's encampment only grows.
Build ==
    /\ room < MaxRoom /\ room' = room + 1
    /\ UNCHANGED <<week, signup, page, dated, inApi, bot, look, check, calm>>

\* applyCharacterData, of a full state or of a packet with one of the two.
Capture ==
    /\ page' \in {[set |-> week, signup |-> signup, of |-> week, room |-> room],
                  [page EXCEPT !.signup = signup, !.of = week],
                  [page EXCEPT !.set = week, !.room = room]}
    /\ UNCHANGED <<inGame, dated, inApi, bot, look, check, calm>>

CurrentWeekSignup == dated => page.of = week

Rows(k) == [m \in Members |-> IF CurrentWeekSignup THEN page.signup[m][k] ELSE Off]

-----------------------------------------------------------------------------
(* Uploads of the page.                                                    *)

\* Mutant: a capacity that is missing is as large as one may be.
FallbackMutant(t) == MaxRoom
Fallback(t) ==
    IF catalog # Null /\ t \in DOMAIN catalog.cap THEN catalog.cap[t] ELSE Null

\* Clients before the capacities were computed upload none.
CataloguePayload(reported) == [t \in SetOf[page.set] |-> IF reported THEN page.room ELSE Null]

UploadCatalogue(reported) ==
    /\ page.set # 0 /\ (reported => page.room > 0)
    /\ LET sent == CataloguePayload(reported)
           cap == [t \in DOMAIN sent |-> IF sent[t] = Null THEN Fallback(t) ELSE sent[t]]
       IN  /\ \A t \in DOMAIN cap : cap[t] # Null
           /\ catalog' = [week |-> week, cap |-> cap, late |-> page.set # week]
    /\ calm' = FALSE
    /\ UNCHANGED <<inGame, page, dated, regs, life, combat, bot, look, check>>

\* Trials of the page's set without a signup are uploaded empty.
Listed ==
    (IF page.set = 0 THEN {} ELSE SetOf[page.set])
        \cup ({Rows(k)[m] : m \in Members, k \in Kinds} \ {Off})

UploadRegistrations ==
    /\ page.of # 0 /\ Listed # {}
    /\ regs' = [t \in Trials |->
         IF t \in Listed
         THEN [week |-> week, members |-> {m \in Members : \E k \in Kinds : Rows(k)[m] = t}]
         ELSE regs[t]]
    /\ calm' = FALSE
    /\ UNCHANGED <<inGame, page, dated, catalog, life, combat, bot, look, check>>

-----------------------------------------------------------------------------
(* Assignments.                                                            *)

\* The lab's plan; which trials it knows it has from the catalogue.
PutCombat ==
    /\ catalog # Null
    /\ \E f \in [Members -> Of("combat", DOMAIN catalog.cap) \cup {Off}] :
         combat' = [slot |-> f, week |-> catalog.week]
    /\ calm' = FALSE
    /\ UNCHANGED <<inGame, page, dated, catalog, regs, life, bot, look, check>>

KindMade(p) == IF p = "test" THEN "test" ELSE "formal"

Within(f, cap) ==
    \A t \in DOMAIN cap : Cardinality({m \in Members : f[m] = t}) <= cap[t]

\* generateLifeAssignmentRun, of the catalogue just read.
Generate(p) ==
    /\ making[p] = Unmade /\ runs < MaxRuns /\ catalog # Null
    /\ \E f \in [Members -> Of("skilling", DOMAIN catalog.cap) \cup {Off}] :
         /\ Within(f, catalog.cap)
         /\ making' = [making EXCEPT ![p] =
              [at |-> "save", run |-> [number |-> runs + 1, week |-> catalog.week,
                                       slot |-> f, late |-> catalog.late]]]
    /\ runs' = runs + 1
    /\ UNCHANGED <<inGame, page, dated, inApi, report, torn, look, check, calm>>

Save(p) ==
    /\ making[p].at = "save"
    /\ \/ /\ life' = [life EXCEPT ![KindMade(p)] = making[p].run]
          /\ making' = [making EXCEPT ![p].at = "render"]
       \/ life' = life /\ making' = [making EXCEPT ![p] = Unmade]
       \/ \* a dry run
          /\ p = "script" /\ life' = life
          /\ making' = [making EXCEPT ![p].at = "render"]
    /\ calm' = FALSE
    /\ UNCHANGED <<inGame, page, dated, catalog, regs, combat, runs, report, torn, look, check>>

-----------------------------------------------------------------------------
(* writeLifeAssignmentReportArtifacts, by commands of the bot, which is    *)
(* one thread, and by the script, which is another process.                *)

\* Mutant: the manifest announces an image that is not there yet.
OrderMutant == <<"manifest", "png">>
Order == <<"png", "manifest">>

\* Who is between the two files: makers, or the look that draws its image anew.
Midway == {p \in Makers : making[p].at = "manifest"}
Drawing == look.at = "pair"
Between == Midway # {} \/ Drawing
Halves == {making[p].run.number : p \in Midway} \cup (IF Drawing THEN {look.text} ELSE {})

BotIsFree == Midway \subseteq {"script"} /\ ~Drawing

PutFirst(n) ==
    /\ report' = [report EXCEPT ![Order[1]] = n]
    /\ torn' = Between /\ calm' = FALSE

PutSecond(n) ==
    /\ report' = [report EXCEPT ![Order[2]] = n]
    /\ torn' = torn /\ calm' = FALSE

\* A write that fails, or a script that dies, may leave a file that nobody can read.
BreakOff ==
    /\ report' \in {report, [report EXCEPT ![Order[2]] = 0]}
    /\ torn' = TRUE /\ calm' = FALSE

Render(p) ==
    /\ making[p].at = "render"
    /\ \/ /\ p = "script" \/ BotIsFree
          /\ PutFirst(making[p].run.number)
          /\ making' = [making EXCEPT ![p].at = "manifest"]
          /\ look' = IF look.at = "png"
                     THEN [look EXCEPT !.met = @ \cup {making[p].run.number}] ELSE look
       \/ /\ making' = [making EXCEPT ![p] = Unmade]
          /\ UNCHANGED <<report, torn, look, calm>>
    /\ UNCHANGED <<inGame, page, dated, inApi, runs, check>>

Manifest(p) ==
    /\ p \in Midway
    /\ PutSecond(making[p].run.number) \/ BreakOff
    /\ making' = [making EXCEPT ![p] = Unmade]
    /\ UNCHANGED <<inGame, page, dated, inApi, runs, look, check>>

-----------------------------------------------------------------------------
(* getLatestLifeAssignment: the stored run, and its image if the manifest  *)
(* says that it is the one on disk.                                        *)

LookUp ==
    /\ look.at \in {"idle", "shown"} /\ life["formal"] # Null
    /\ look' = [at |-> "manifest", text |-> life["formal"].number, image |-> 0,
                met |-> {}, sure |-> TRUE]
    /\ UNCHANGED <<inGame, page, dated, inApi, bot, check, calm>>

\* A manifest that is being written may not be readable; met are the runs whose
\* images were put there while the command read.
LookManifest ==
    /\ look.at = "manifest"
    /\ \/ /\ report.manifest = look.text
          /\ look' = [look EXCEPT !.at = "png", !.met = Halves, !.sure = ~torn]
       \/ /\ report.manifest # look.text \/ Between
          /\ look' = [look EXCEPT !.at = "draw"]
    /\ UNCHANGED <<inGame, page, dated, inApi, bot, check, calm>>

\* Another run's image is drawn anew, and left on disk.
LookDraw ==
    /\ look.at = "draw"
    /\ \/ /\ BotIsFree /\ PutFirst(look.text)
          /\ look' = [look EXCEPT !.at = "pair"]
       \/ /\ look' = [at |-> "idle"]
          /\ UNCHANGED <<report, torn, calm>>
    /\ UNCHANGED <<inGame, page, dated, inApi, runs, making, check>>

LookPair ==
    /\ Drawing
    /\ \/ /\ PutSecond(look.text)
          /\ look' = [look EXCEPT !.at = "shown", !.image = look.text]
       \/ BreakOff /\ look' = [at |-> "idle"]
    /\ UNCHANGED <<inGame, page, dated, inApi, runs, making, check>>

LookImage ==
    /\ look.at = "png"
    /\ look' = [look EXCEPT !.at = "shown", !.image = report.png]
    /\ UNCHANGED <<inGame, page, dated, inApi, bot, check, calm>>

-----------------------------------------------------------------------------
(* getSignupAssignmentMismatches and getUnregisteredTrialMembers: five     *)
(* requests at once, answered in any order; then, for the signups, which   *)
(* run is published.                                                       *)

Unread == [catalog |-> FALSE, regs |-> FALSE, formal |-> FALSE, test |-> FALSE,
           combat |-> FALSE]

StartCheck ==
    /\ check.at \in {"idle", "done"}
    /\ \E c \in {"signups", "cover"} :
         check' = [at |-> "reading", command |-> c, read |-> Unread, catalog |-> Null,
                   regs |-> regs, formal |-> Null, test |-> Null, combat |-> Null]
    /\ calm' = ~Between
    /\ UNCHANGED <<inGame, page, dated, inApi, bot, look>>

ReadFor(x) ==
    /\ check.at = "reading" /\ ~check.read[x]
    /\ LET c == [check EXCEPT !.read[x] = TRUE,
                   !.at = IF \A y \in DOMAIN Unread \ {x} : check.read[y] THEN "pick" ELSE @] IN
       check' = CASE x = "catalog" -> [c EXCEPT !.catalog = catalog]
                  [] x = "regs"    -> [c EXCEPT !.regs = regs]
                  [] x = "formal"  -> [c EXCEPT !.formal = life["formal"]]
                  [] x = "test"    -> [c EXCEPT !.test = life["test"]]
                  [] x = "combat"  -> [c EXCEPT !.combat = combat]
    /\ UNCHANGED <<inGame, page, dated, inApi, bot, look, calm>>

\* filterActiveRegistrationTrials
\* Mutant: trials of earlier weeks count.
ActiveMutant(rows, cat) == {t \in Trials : rows[t] # Null}
Active(rows, cat) ==
    {t \in Trials : rows[t] # Null /\
        (cat # Null => t \in DOMAIN cat.cap /\ rows[t].week = cat.week)}

\* collectRegistrationSlots: of two rows of a member, the later one counts.
Registered(rows, active, m) ==
    LET mine == {t \in active : m \in rows[t].members} IN
    IF mine = {} THEN Off ELSE CHOOSE t \in mine : \A u \in mine : t >= u

Newest(S) == CHOOSE r \in S : \A q \in S : r.number >= q.number

\* The catalogue's week; for the cover, failing that, a run's own.
Expected(c) ==
    IF c.catalog # Null THEN c.catalog.week
    ELSE IF c.command = "signups" THEN 0
    ELSE IF c.test # Null THEN c.test.week
    ELSE IF c.formal # Null THEN c.formal.week ELSE 0

\* pickLifeAssignmentForWeek
Pick(expected, formal, test, published) ==
    LET all == {formal, test} \ {Null}
        inWeek == {r \in all : r.week = expected}
        preferred == {r \in all : r.number = published}
    IN  IF preferred \cap inWeek # {} THEN Newest(preferred \cap inWeek)
        ELSE IF preferred # {} THEN Newest(preferred)
        ELSE IF inWeek # {} THEN Newest(inWeek)
        ELSE IF all = {} THEN Null
        ELSE Newest({r \in all : \A q \in all : r.week >= q.week})

SlotIn(plan, m) == IF plan = Null THEN Off ELSE plan.slot[m]

\* Without the catalogue the chosen run's week stands in for it.
Compared(c, pick) ==
    [k \in Kinds |->
       LET active == Of(k, IF c.catalog = Null /\ pick # Null
                           THEN {t \in Active(c.regs, Null) : c.regs[t].week = pick.week}
                           ELSE Active(c.regs, c.catalog))
           plan == IF k = "combat" THEN c.combat ELSE pick
       IN  {m \in Members : SlotIn(plan, m) # Registered(c.regs, active, m)}]

Uncovered(c, pick) == {m \in Members : SlotIn(pick, m) = Off /\ SlotIn(c.combat, m) = Off}

Answer ==
    /\ check.at = "pick"
    /\ \E onDisk \in {report.manifest} \cup (IF Between THEN {0} ELSE {}) :
       LET published == IF check.command = "signups" THEN onDisk ELSE 0
           pick == Pick(Expected(check), check.formal, check.test, published)
       IN  check' = [at |-> "done", command |-> check.command, pick |-> pick,
                     catalog |-> check.catalog, formal |-> check.formal, test |-> check.test,
                     wrong |-> Compared(check, pick), without |-> Uncovered(check, pick)]
    /\ UNCHANGED <<inGame, page, dated, inApi, bot, look, calm>>

-----------------------------------------------------------------------------
UploadNext == \E b \in BOOLEAN : UploadCatalogue(b)

WeeklyNext ==
    \/ SignUp \/ NewWeek \/ Build \/ Capture \/ UploadNext \/ UploadRegistrations
    \/ PutCombat
    \/ \E p \in Makers : Generate(p) \/ Save(p) \/ Render(p) \/ Manifest(p)
    \/ LookUp \/ LookManifest \/ LookDraw \/ LookPair \/ LookImage
    \/ StartCheck \/ Answer
    \/ \E x \in DOMAIN Unread : ReadFor(x)

WeeklySpec == WeeklyInit /\ [][WeeklyNext]_weeklyVars

-----------------------------------------------------------------------------
(* Properties                                                              *)

Stored == {life["formal"], life["test"]} \ {Null}
OfThisWeek == {r \in Stored : r.week = week}

CatalogueIsCurrent == catalog # Null /\ catalog.week = week /\ ~catalog.late

\* So are the rows of all this week's trials.
RowsAreCurrent ==
    \A k \in Kinds : \A t \in Of(k, SetOf[week]) :
        /\ regs[t] # Null /\ regs[t].week = week
        /\ regs[t].members = {m \in Members : signup[m][k] = t}

\* The run the members see, if it is one of this week; else the newest one.
InForce ==
    LET seen == {r \in OfThisWeek : r.number = report.manifest} IN
    IF seen # {} THEN Newest(seen) ELSE Newest(OfThisWeek)

\* The check compares with what the members signed up for: if its sources were up to
\* date and rested while it ran, it names those, and only those, whose signup is not
\* what this week's assignments say, and those whom no assignment of the week sends
\* anywhere, however many weeks of rows and runs the API still serves.
CheckIsTrue ==
    check.at = "done" /\ calm /\ CatalogueIsCurrent =>
        /\ check.command = "signups" /\ RowsAreCurrent /\ OfThisWeek # {}
             /\ (\A r \in Stored : r.number = report.manifest => r.week = week)
             => check.wrong["skilling"] =
                  {m \in Members : InForce.slot[m] # signup[m]["skilling"]}
        /\ check.command = "signups" /\ RowsAreCurrent /\ combat # Null /\ combat.week = week
             => check.wrong["combat"] =
                  {m \in Members : combat.slot[m] # signup[m]["combat"]}
        /\ check.command = "cover" /\ OfThisWeek # {} /\ combat # Null /\ combat.week = week
             => check.without =
                  {m \in Members : Newest(OfThisWeek).slot[m] = Off /\ combat.slot[m] = Off}

\* The image under the text of a life assignment shows that assignment or, at worst,
\* one whose image was put on disk while the command read; an image that had been
\* replaced before, or is still to come, is not shown, whoever generates, tests and
\* looks meanwhile.  Only where two writers had overlapped, or one had stopped
\* half-way, and none had begun alone since, nothing is said.
ShownIsFormal ==
    look.at = "shown" /\ look.sure => look.image \in {look.text} \cup look.met

\* A stored assignment sends members to trials of its own week, and no more of them
\* than the trial has places for, though capacities are carried from week to week;
\* not so, if the page that uploaded the catalogue had slept through the new week.
AssignmentsFit ==
    \A r \in Stored : ~r.late =>
        \A m \in Members : r.slot[m] # Off =>
            /\ r.slot[m] \in Of("skilling", SetOf[r.week])
            /\ Cardinality({n \in Members : r.slot[n] = r.slot[m]}) <= room
=============================================================================
