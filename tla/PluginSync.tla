------------------------------ MODULE PluginSync ------------------------------
(***************************************************************************)
(* The userscript at work on its state: it hydrates, listens, uploads by   *)
(* itself and by a click, and highlights the member's trials.  An upload   *)
(* awaits the guild's confirmation and then every answer of the API;       *)
(* between two awaits the page, the timers and other uploads go on.  The   *)
(* flag running is raised only behind the first of these awaits.  What an  *)
(* upload sends may arrive though its answer does not, and long after the  *)
(* upload has given it up.                                                 *)
(***************************************************************************)
EXTENDS PluginState, Sequences, FiniteSets

CONSTANTS
    Posts,     \* the lists uploaded before the snapshot, in their order
    Kinds,     \* combat and life assignment, fetched and shown alike
    Calls,     \* bound: upload calls under way at a time
    Retries,   \* HYDRATION_RETRY_DELAYS_MS.length
    Complete,  \* the sheets whose monsters' panels are complete
    MaxWire,   \* bound: ownerless packets under way
    MaxMoves,  \* bound: changes in the game
    MaxAdrift, \* bound: requests given up and still on their way
    Idle

Lists == {Posts[i] : i \in DOMAIN Posts}

(* A list is named otherwise than the other places an upload can be at,    *)
(* and at least one is sent.                                               *)
ASSUME PostsAssumption ==
    /\ Posts \in Seq(STRING) /\ Posts # <<>>
    /\ Lists \cap {"confirm", "ask", "send", "sent"} = {}

Loads == [Characters -> Nat]
Snapshots == [who : Someone, loads : Loads]
CallType == [at : {"confirm", "ask", "send", "sent"} \cup Lists, auto : BOOLEAN,
             snap : Snapshots, sheet : Nat, done : SUBSET Lists,
             mixed : BOOLEAN,      \* history: another wrote after this call began to
             overtaken : BOOLEAN]  \* history: another ended while this call was at work

ASSUME IdleAssumption ==
    /\ Idle \notin CallType /\ Idle \notin Snapshots

VARIABLES
    state, hydration,
    wire,      \* packets that name no character, relayed by postMessage
    moves,
    timer,     \* automaticSync.timer is set
    running,   \* automaticSync.running
    signed,    \* automaticSync.lastSignature
    call,      \* the upload calls under way
    stored,    \* the API: the snapshot last stored for each member
    table,     \*          the lists last stored
    adrift,    \* requests given up that may yet arrive
    cards,     \* the page shows trial cards
    mark,      \* per kind: document, fetchedAt, lastMemberId, inFlight, timer
               \* and whose trials are highlighted
    kept,      \* history: the lists accepted in the upload signed
    strayed,   \* history: an upload took what names no character
    disturbed, \* history: something else reached the API, or may have
    missed,    \* history: an upload failed or was given up since one was due
    replaced   \* history: an upload that another overtook has put its own
               \* signature in the other's place

api == <<stored, table>>
uploads == <<timer, running, signed, call, api, adrift, kept, disturbed, missed, replaced>>
syncVars == <<game, state, hydration, wire, moves, uploads, cards, mark, strayed>>

Snap(s) == [who |-> s.char, loads |-> s.loads]
Sign(s) == [snap |-> Snap(s), sheet |-> s.sheet]
HasGear(loads) == \E c \in Characters : loads[c] > 0

-----------------------------------------------------------------------------
(* Highlights, as a function of one kind's mark.                           *)

AttemptFresh(m, who) == who # Nobody /\ m.asked = who /\ m.fresh

Rendered(m, who) == [m EXCEPT !.shown = IF cards THEN who ELSE Nobody]

Cleared(m) == [m EXCEPT !.doc = FALSE, !.fresh = FALSE, !.asked = Nobody,
                        !.due = FALSE, !.shown = Nobody]

\* Mutant: a document that is there needs nothing, whoever asked for it.
ScheduleRefreshMutant(m, who) ==
    IF who # Nobody /\ ~m.doc THEN [m EXCEPT !.due = TRUE] ELSE m
ScheduleRefresh(m, who) ==
    IF who # Nobody /\ ~AttemptFresh(m, who) THEN [m EXCEPT !.due = TRUE]
    ELSE IF who # Nobody /\ m.doc /\ cards
         THEN Rendered([m EXCEPT !.due = FALSE], who) ELSE [m EXCEPT !.due = FALSE]

Rescheduled(marks, who) ==
    [k \in Kinds |-> IF who = Nobody THEN marks[k] ELSE ScheduleRefresh(marks[k], who)]

\* refresh: whatever changes the state to s ends with it.
Refresh(s, marks) ==
    /\ timer' = (timer \/ HasCharacterData(s))
    /\ missed' = (missed /\ ~HasCharacterData(s))
    /\ replaced' = (replaced /\ ~HasCharacterData(s))
    /\ mark' = Rescheduled(marks, s.char)

-----------------------------------------------------------------------------
(* The game.                                                               *)

Move == moves < MaxMoves /\ moves' = moves + 1

\* Another character plays; the caches may speak of either.
Switch ==
    /\ Move
    /\ present' \in Characters \ {present}
    /\ cache' \in {cache, [of |-> present', pieces |-> gear[present']]}
    /\ UNCHANGED <<gear, sheet, state, hydration, wire, uploads, cards, mark, strayed>>

Post(d) == Len(wire) < MaxWire /\ wire' = Append(wire, d)

ChangeGear ==
    /\ Move
    /\ \E n \in (0..MaxPieces) \ {gear[present]} : gear' = [gear EXCEPT ![present] = n]
    /\ Post(LoadoutPacket)
    /\ UNCHANGED <<present, sheet, cache, state, hydration, uploads, cards, mark, strayed>>

ChangeSheet ==
    /\ Move
    /\ sheet' \in (1..MaxSheet) \ {sheet}
    /\ Post(GuildPacket)
    /\ UNCHANGED <<present, gear, cache, state, hydration, uploads, cards, mark, strayed>>

ShowCards ==
    /\ cards' = ~cards
    /\ mark' = [k \in Kinds |-> IF cards THEN [mark[k] EXCEPT !.shown = Nobody] ELSE mark[k]]
    /\ UNCHANGED <<game, state, hydration, wire, moves, uploads, strayed>>

-----------------------------------------------------------------------------
(* Capture.                                                                *)

\* What names its character may come at any time and is handled at once: it is
\* refused when the character has changed.  What names none may come late.
Receive ==
    /\ \E d \in {InitPacket, BridgeState} \cup {wire[n] : n \in DOMAIN wire} :
         LET s == Applied(state, d) IN
         /\ state' = s
         /\ Refresh(s, mark)
         /\ hydration' = IF ~d.packet /\ HasCharacterData(s)
                         THEN [hydration EXCEPT !.timer = FALSE] ELSE hydration
         /\ wire' = IF d.who = Nobody THEN Tail(wire) ELSE wire
         /\ d.who = Nobody => d = Head(wire)
    /\ UNCHANGED <<game, moves, running, signed, call, api, adrift, cards,
                   kept, disturbed, strayed>>

RequestCharacterData(reset) ==
    /\ LET clear == reset \/ present # hydration.id
           attempt == IF clear THEN 0 ELSE hydration.attempt
       IN  \E s \in LiveThenCache(IF clear THEN Blank ELSE state) :
             /\ state' = s
             /\ hydration' =
                  IF HasCharacterData(s) \/ attempt >= Retries
                  THEN [id |-> present, timer |-> FALSE,
                        attempt |-> IF HasCharacterData(s) THEN 0 ELSE attempt]
                  ELSE [id |-> present, timer |-> TRUE, attempt |-> attempt + 1]
             /\ Refresh(s, [k \in Kinds |-> IF clear THEN Cleared(mark[k]) ELSE mark[k]])
    /\ UNCHANGED <<game, wire, moves, running, signed, call, api, adrift, cards,
                   kept, disturbed, strayed>>

\* Every three seconds the plugin looks who plays.
WatchCharacter == present # hydration.id /\ RequestCharacterData(TRUE)
RetryHydration == hydration.timer /\ RequestCharacterData(FALSE)
BecomeVisible == ~HasCharacterData(state) /\ RequestCharacterData(FALSE)

-----------------------------------------------------------------------------
(* Uploads.                                                                *)

Working(i) == call[i] # Idle /\ call[i].at # "confirm"

HasWritten(c) == c.done # {} \/ c.at = "sent"

\* The calls, when something is written to the API.
Mixed == [j \in Calls |->
            IF Working(j) /\ HasWritten(call[j]) THEN [call[j] EXCEPT !.mixed = TRUE] ELSE call[j]]

\* The calls, when i goes on as c, having written or not, or ends.
With(i, c, wrote) ==
    [j \in Calls |->
       LET d == IF wrote THEN Mixed[j] ELSE call[j] IN
       IF j = i THEN c
       ELSE IF c = Idle /\ Working(j) THEN [d EXCEPT !.overtaken = TRUE] ELSE d]

GiveUp(i) ==
    /\ call' = [call EXCEPT ![i] = Idle]
    /\ UNCHANGED <<running, signed, api, adrift, kept, disturbed>>

\* Behind the confirmation: c is the call, s the state by now.
Prepare(i, c, s, armed) ==
    \/ /\ ~HasGear(c.snap.loads)
       /\ \E t \in CacheThenLive(s) :
            state' = t /\ mark' = Rescheduled(mark, t.char)
       /\ timer' = (armed \/ c.auto) /\ missed' = (missed \/ ~c.auto)
       /\ replaced' = replaced
       /\ GiveUp(i)
    \/ /\ HasGear(c.snap.loads)
       /\ state' = s /\ timer' = armed
       /\ mark' = Rescheduled(mark, s.char)
       /\ UNCHANGED <<missed, replaced>>
       /\ LET sign == [snap |-> c.snap, sheet |-> s.sheet] IN
          IF c.auto /\ sign = signed
          THEN GiveUp(i)
          ELSE /\ running' = TRUE
               /\ call' = [call EXCEPT ![i] =
                    [c EXCEPT !.at = "ask", !.auto = FALSE, !.sheet = s.sheet]]
               /\ UNCHANGED <<signed, api, adrift, kept, disturbed>>

\* Mutant: an upload due while another runs is dropped.
AgainMutant(auto) == FALSE
Again(auto) == IF auto THEN TRUE ELSE timer

Upload(auto) ==
    /\ IF running
       THEN /\ timer' = Again(auto)
            /\ UNCHANGED <<state, running, signed, call, api, adrift, kept,
                           disturbed, missed, replaced, mark, strayed>>
       ELSE /\ \E j \in Calls : call[j] = Idle
            /\ \E i \in Calls, s \in CacheThenLive(state) :
               LET c == [at |-> "confirm", auto |-> auto, snap |-> Snap(s), sheet |-> 0,
                         done |-> {}, mixed |-> FALSE, overtaken |-> FALSE]
               IN
               /\ i = CHOOSE j \in Calls : call[j] = Idle
               /\ strayed' = (strayed \/ s.stray)
               /\ \/ /\ s.char = Nobody
                     /\ state' = s /\ timer' = FALSE /\ missed' = TRUE
                     /\ UNCHANGED <<replaced, mark>>
                     /\ GiveUp(i)
                  \/ s.char # Nobody /\ s.own /\ Prepare(i, c, s, FALSE)
                  \/ /\ s.char # Nobody /\ ~s.own
                     /\ \E t \in CacheThenLive(s) :
                          /\ state' = t /\ timer' = HasCharacterData(t)
                          /\ mark' = Rescheduled(mark, t.char)
                     /\ call' = [call EXCEPT ![i] = c]
                     /\ missed' = FALSE /\ replaced' = FALSE
                     /\ UNCHANGED <<running, signed, api, adrift, kept, disturbed>>
    /\ UNCHANGED <<game, hydration, wire, moves, cards>>

AutomaticUpload == timer /\ Upload(TRUE)
PressUpload == Upload(FALSE)

\* The bridge has answered, or 900 ms are over.
Confirm ==
    \E i \in Calls, s \in CacheThenLive(state) :
        /\ call[i] # Idle /\ call[i].at = "confirm"
        /\ \/ s.own /\ Prepare(i, call[i], s, TRUE)
           \/ /\ ~s.own
              /\ state' = s /\ timer' = TRUE
              /\ mark' = Rescheduled(mark, s.char)
              /\ UNCHANGED <<missed, replaced>>
              /\ GiveUp(i)
        /\ UNCHANGED <<game, hydration, wire, moves, cards, strayed>>

atWork == <<game, state, hydration, wire, moves, timer, cards, mark, strayed>>

\* What an upload leaves behind that ends without an answer; its last request has
\* arrived by now or not.  A finished or failed upload lowers the flag, whoever else
\* is at work.
Fail(i, arrived) ==
    /\ call' = With(i, Idle, arrived) /\ running' = FALSE
    /\ disturbed' = (disturbed \/ arrived \/ HasWritten(call[i]))
    /\ missed' = TRUE
    /\ UNCHANGED <<signed, kept, replaced>>

GoOn(i, c, wrote) ==
    /\ call' = With(i, c, wrote)
    /\ UNCHANGED <<running, signed, kept, disturbed, missed, replaced>>

\* guildRosterPayload is null until the guild's list, with the reporter on it, is known.
KnowsGuild(version) == version > 0

Ask ==
    \E i \in Calls :
        /\ call[i] # Idle /\ call[i].at = "ask"
        /\ \/ Fail(i, FALSE)
           \/ /\ KnowsGuild(call[i].sheet)
              /\ GoOn(i, [call[i] EXCEPT !.at = Head(Posts)], FALSE)
           \/ GoOn(i, [call[i] EXCEPT !.at = "send"], FALSE)
        /\ UNCHANGED <<atWork, api, adrift>>

\* weeklyTrialCatalogPayload is null unless every trial's capacity and every monster's
\* panel has been seen; the other lists are there as soon as the sheet is.
Builds(list, version) == list = "weekly" => version \in Complete

After(list) ==
    LET n == 1 + CHOOSE i \in DOMAIN Posts : Posts[i] = list
    IN  IF n > Len(Posts) THEN "send" ELSE Posts[n]

\* A request to the API: a list or the snapshot.
Requests == [to : Lists \cup {"send"}, snap : Snapshots, sheet : Nat]
Request(c) == [to |-> c.at, snap |-> c.snap, sheet |-> c.sheet]

Sends(c) == c.at = "send" \/ (c.at \in Lists /\ Builds(c.at, c.sheet))

Store(r) ==
    IF r.to = "send"
    THEN stored' = [stored EXCEPT ![r.snap.who] = r.snap] /\ table' = table
    ELSE table' = [table EXCEPT ![r.to] = r.sheet] /\ stored' = stored

Drift(c) ==
    /\ Cardinality(adrift) < MaxAdrift
    /\ adrift' = adrift \cup {Request(c)}

\* No answer: the request has arrived, or it has not and perhaps will.
Unanswered(i) ==
    \/ Store(Request(call[i])) /\ Fail(i, TRUE) /\ adrift' = adrift
    \/ Fail(i, FALSE) /\ (adrift' = adrift \/ Drift(call[i])) /\ UNCHANGED api

PostList ==
    \E i \in Calls : LET c == call[i] IN
        /\ c # Idle /\ c.at \in Lists
        /\ \/ /\ Sends(c) /\ Store(Request(c))
              /\ GoOn(i, [c EXCEPT !.at = After(c.at), !.done = @ \cup {c.at}], TRUE)
              /\ adrift' = adrift
           \/ \* refused, or held back: the upload goes on
              GoOn(i, [c EXCEPT !.at = After(c.at)], FALSE) /\ UNCHANGED <<api, adrift>>
           \/ Sends(c) /\ Unanswered(i)
        /\ UNCHANGED atWork

SendSnapshot ==
    \E i \in Calls : LET c == call[i] IN
        /\ c # Idle /\ c.at = "send"
        /\ \/ /\ Store(Request(c))
              /\ GoOn(i, [c EXCEPT !.at = "sent"], TRUE) /\ adrift' = adrift
           \/ \* refused, or unanswered
              Fail(i, FALSE) /\ (adrift' = adrift \/ Drift(c)) /\ UNCHANGED api
        /\ UNCHANGED atWork

Answered ==
    \E i \in Calls : LET c == call[i] IN
        /\ c # Idle /\ c.at = "sent"
        /\ \/ /\ signed' = [snap |-> c.snap, sheet |-> c.sheet]
              /\ kept' = c.done /\ disturbed' = c.mixed
              /\ missed' = (c.overtaken /\ missed)
              /\ replaced' = (c.overtaken /\ (replaced \/ signed' # signed))
              /\ call' = With(i, Idle, FALSE) /\ running' = FALSE
           \/ Fail(i, FALSE)
        /\ UNCHANGED <<atWork, api, adrift>>

\* What the userscript manager does not answer in time is sent again by fetch.
Resend ==
    /\ \E i \in Calls : call[i] # Idle /\ Sends(call[i]) /\ Drift(call[i])
    /\ UNCHANGED <<atWork, running, signed, call, api, kept, disturbed, missed, replaced>>

Arrive ==
    \E r \in adrift :
        /\ adrift' = adrift \ {r} /\ Store(r)
        /\ call' = Mixed /\ disturbed' = TRUE
        /\ UNCHANGED <<atWork, running, signed, kept, missed, replaced>>

-----------------------------------------------------------------------------
(* Highlights.                                                             *)

marksOnly == <<game, state, hydration, wire, moves, uploads, cards, strayed>>

\* refreshCombatAssignment and refreshLifeAssignment, up to the await.
Fetch(k) ==
    /\ mark[k].due
    /\ LET m == [mark[k] EXCEPT !.due = FALSE] IN
       mark' = [mark EXCEPT ![k] =
         IF state.char = Nobody \/ ~state.own \/ m.fetching THEN m
         ELSE IF AttemptFresh(m, state.char)
              THEN IF m.doc /\ cards THEN Rendered(m, state.char) ELSE m
              ELSE [m EXCEPT !.fetching = TRUE, !.asked = state.char]]
    /\ UNCHANGED marksOnly

Fetched(k) ==
    /\ mark[k].fetching
    /\ LET m == [mark[k] EXCEPT !.fetching = FALSE, !.fresh = TRUE] IN
       mark' \in {[mark EXCEPT ![k] = Rendered([m EXCEPT !.doc = TRUE], state.char)],
                  [mark EXCEPT ![k] = [m EXCEPT !.doc = FALSE, !.shown = Nobody]]}
    /\ UNCHANGED marksOnly

Expire(k) ==
    /\ mark' = [mark EXCEPT ![k].fresh = FALSE]
    /\ UNCHANGED marksOnly

\* The observer of the page, when cards come or go.
Observe ==
    /\ mark' = [k \in Kinds |->
         IF mark[k].doc THEN Rendered(mark[k], state.char)
         ELSE IF cards /\ \A l \in Kinds : ~mark[l].doc
              THEN ScheduleRefresh(mark[k], state.char) ELSE mark[k]]
    /\ UNCHANGED marksOnly

\* The poll, which needs cards, and the page's becoming visible.
Look ==
    /\ \/ /\ cards
          /\ mark' = [k \in Kinds |->
               IF ~AttemptFresh(mark[k], state.char)
               THEN ScheduleRefresh(mark[k], state.char)
               ELSE IF mark[k].doc THEN Rendered(mark[k], state.char) ELSE mark[k]]
       \/ mark' = [k \in Kinds |-> ScheduleRefresh(mark[k], state.char)]
    /\ UNCHANGED marksOnly

-----------------------------------------------------------------------------
Fresh == [doc |-> FALSE, fresh |-> FALSE, asked |-> Nobody, fetching |-> FALSE,
          due |-> FALSE, shown |-> Nobody]

SyncInit ==
    /\ present \in Characters /\ sheet = 1
    /\ gear \in [Characters -> 0..MaxPieces]
    /\ cache \in [of : Characters, pieces : 0..MaxPieces]
    /\ state = Blank /\ wire = <<>> /\ moves = 0 /\ cards = FALSE
    /\ hydration = [id |-> Nobody, attempt |-> 0, timer |-> TRUE]
    /\ timer = FALSE /\ running = FALSE /\ signed = Idle
    /\ call = [i \in Calls |-> Idle]
    /\ stored = [c \in Characters |-> Idle] /\ table = [p \in Lists |-> 0]
    /\ adrift = {} /\ kept = {} /\ disturbed = FALSE /\ strayed = FALSE
    /\ missed = FALSE /\ replaced = FALSE
    /\ mark = [k \in Kinds |-> Fresh]

CaptureNext ==
    \/ Switch \/ ChangeGear \/ ChangeSheet \/ Receive
    \/ WatchCharacter \/ RetryHydration \/ BecomeVisible

UploadNext ==
    \/ AutomaticUpload \/ PressUpload \/ Confirm
    \/ Ask \/ PostList \/ SendSnapshot \/ Answered \/ Resend \/ Arrive

MarkNext ==
    \/ ShowCards \/ Observe \/ Look
    \/ \E k \in Kinds : Fetch(k) \/ Fetched(k) \/ Expire(k)

SyncNext == CaptureNext \/ UploadNext \/ MarkNext

SyncSpec == SyncInit /\ [][SyncNext]_syncVars

-----------------------------------------------------------------------------
(* Properties                                                              *)

\* What is stored under a member's name is that member's, though alts share the
\* page's memory and caches; only what names no character slips through.
GearIsOwn ==
    \A m \in Characters :
        stored[m] # Idle /\ ~strayed =>
            /\ stored[m].who = m
            /\ \A c \in Characters \ {m} : stored[m].loads[c] = 0

\* An automatic upload is skipped on the strength of the last signature: while
\* nobody is at work the API holds what was signed, however uploads overlapped and in
\* whatever order they ended, unless the writes of two of them mixed, one broke off
\* half-way, or a request given up arrived after all.
SkippedIsStored ==
    signed # Idle /\ ~disturbed /\ (\A i \in Calls : ~Working(i)) =>
        /\ stored[signed.snap.who] = signed.snap
        /\ \A p \in kept : table[p] = signed.sheet

\* Another character's trials are highlighted only while their replacement is
\* under way, or until the guild of the character in play is confirmed.
HighlightIsFollowed ==
    \A k \in Kinds :
        mark[k].shown \notin {Nobody, state.char} =>
            mark[k].due \/ mark[k].fetching \/ ~state.own

Outdated ==
    /\ state.char # Nobody /\ state.own /\ HasGear(state.loads)
    /\ Sign(state) # signed

\* Who waits for the confirmation arms the timer behind it.
Carried ==
    \E i \in Calls : /\ call[i] # Idle
                     /\ \/ call[i].at = "confirm"
                        \/ Sign(state) = [snap |-> call[i].snap, sheet |-> call[i].sheet]

\* No wake-up is lost to the timer's being cleared, to the flag or to a signature, in
\* overlaps of timers, clicks and uploads: as long as what the plugin knows is not
\* what it last signed, an upload is due or carries it.  Two things stop the plugin
\* until the page speaks again: an upload failed or was given up, or one that was
\* overtaken by another has put its own, other signature in place of the other's.
ChangeIsPending == Outdated => timer \/ missed \/ replaced \/ Carried

\* After login, all loadouts are synchronised by themselves: the API has what the
\* plugin knows of the character in play, or an upload is due or at work, or one failed
\* or was given up.
SyncsByItself ==
    state.char # Nobody /\ state.own /\ HasGear(state.loads) =>
        \/ stored[state.char] = Snap(state)
        \/ timer \/ missed \/ \E i \in Calls : call[i] # Idle

\* No change is left behind: neither skipped though the API does not have it, nor
\* left without an upload to come.
UploadsKeepUp == SkippedIsStored /\ ChangeIsPending
=============================================================================
