--------------------------- MODULE PluginSyncProofs ---------------------------
(***************************************************************************)
(* What the userscript stores, skips and shows, for any characters, lists  *)
(* and number of overlapping uploads, with uploads and highlights at once. *)
(*                                                                         *)
(* None of the three properties is inductive.  What is stored is what an   *)
(* upload carries, and that is what the page's memory held when it began.  *)
(* What is signed agrees with the API until an upload writes, and then     *)
(* what that upload has written stands until another writes behind it; so  *)
(* the proof follows, for each upload, what it has written.  A change is   *)
(* due because as long as no other has ended, an upload at work has raised *)
(* the flag and carries what the page's memory holds, or the timer is      *)
(* armed; one that was overtaken either signs what was signed already or   *)
(* is noted in replaced.  What is shown changes with the state only        *)
(* together with the marks.                                                *)
(***************************************************************************)
EXTENDS PluginSync, TLAPS

USE CharactersAssumption, PostsAssumption, IdleAssumption

-----------------------------------------------------------------------------
(* Types                                                                   *)

States == [char : Someone, loads : Loads, skills : BOOLEAN, own : BOOLEAN,
           sheet : Nat, stray : BOOLEAN]
Views == [who : Someone, of : Someone, pieces : Nat, skills : BOOLEAN,
          guild : {"none", "own", "foreign"}, sheet : Nat, packet : BOOLEAN]
Marks == [doc : BOOLEAN, fresh : BOOLEAN, asked : Someone, fetching : BOOLEAN,
          due : BOOLEAN, shown : Someone]

GameOK ==
    /\ present \in Characters /\ gear \in Loads /\ sheet \in Nat
    /\ cache \in [of : Characters, pieces : Nat]

\* Only what names no character waits.
WireOK ==
    /\ wire \in Seq(Views)
    /\ \A n \in 1..Len(wire) : wire[n].who = Nobody

ApiOK ==
    /\ stored \in [Characters -> Snapshots \cup {Idle}]
    /\ table \in [Lists -> Nat] /\ adrift \in SUBSET Requests

UploadsOK ==
    /\ timer \in BOOLEAN /\ running \in BOOLEAN /\ missed \in BOOLEAN
    /\ replaced \in BOOLEAN /\ disturbed \in BOOLEAN /\ strayed \in BOOLEAN
    /\ call \in [Calls -> CallType \cup {Idle}]
    /\ signed \in [snap : Snapshots, sheet : Nat] \cup {Idle}
    /\ kept \in SUBSET Lists
    /\ ApiOK

MarksOK == cards \in BOOLEAN /\ mark \in [Kinds -> Marks]

HydrationOK == hydration \in [id : Someone, attempt : Nat, timer : BOOLEAN]

-----------------------------------------------------------------------------
(* Whose gear                                                              *)

OwnedBy(who, loads) == \A c \in Characters \ {who} : loads[c] = 0

\* What the page remembers is the character's, unless something strayed in.
StateOK(s) == s \in States /\ (s.stray \/ OwnedBy(s.char, s.loads))

\* What an upload carries has an owner, and is the owner's.
SnapOK(snap, who) == snap.who = who /\ (strayed \/ OwnedBy(who, snap.loads))

Owned(snap) == snap.who \in Characters /\ SnapOK(snap, snap.who)

CallsOwn == \A i \in Calls : call[i] # Idle => Owned(call[i].snap)

StoredOwn == \A m \in Characters : stored[m] # Idle => SnapOK(stored[m], m)

AdriftOwn == \A r \in adrift : Owned(r.snap)

-----------------------------------------------------------------------------
(* What is shown                                                           *)

MarkOK(m, who, own, there) ==
    /\ m.shown # Nobody => m.doc /\ there /\ who # Nobody
    /\ m.shown \notin {Nobody, who} => m.due \/ m.fetching \/ ~own

MarksFollow == \A k \in Kinds : MarkOK(mark[k], state.char, state.own, cards)

-----------------------------------------------------------------------------
(* What stands in the API                                                  *)

\* Nothing is written before the lists are sent.
NothingDone ==
    \A i \in Calls : call[i] # Idle /\ call[i].at \in {"confirm", "ask"} =>
        call[i].done = {}

\* What an upload has written is still there.
Stands(c) ==
    /\ \A p \in c.done : table[p] = c.sheet
    /\ c.at = "sent" => stored[c.snap.who] = c.snap

UnmixedStand == \A i \in Calls : call[i] # Idle /\ ~call[i].mixed => Stands(call[i])

\* While nobody at work has written, what was signed is there.
SignedStands ==
    signed # Idle /\ ~disturbed /\ (\A i \in Calls : Working(i) => ~HasWritten(call[i])) =>
        /\ stored[signed.snap.who] = signed.snap
        /\ \A p \in kept : table[p] = signed.sheet

-----------------------------------------------------------------------------
(* What is due                                                             *)

Uploadable == state.char # Nobody /\ state.own /\ HasGear(state.loads)

Signature(c) == [snap |-> c.snap, sheet |-> c.sheet]

\* While no other has ended, an upload at work has raised the flag, and nothing new
\* has come since it began or the timer is armed.
UpToDate ==
    \A i \in Calls : Working(i) /\ ~call[i].overtaken =>
        /\ running
        /\ timer \/ ~Uploadable \/ Sign(state) = Signature(call[i])

-----------------------------------------------------------------------------
SyncInv ==
    /\ GameOK /\ WireOK /\ UploadsOK /\ MarksOK /\ HydrationOK
    /\ StateOK(state) /\ CallsOwn /\ StoredOwn /\ AdriftOwn
    /\ MarksFollow
    /\ NothingDone /\ UnmixedStand /\ SignedStands
    /\ UpToDate /\ ChangeIsPending

-----------------------------------------------------------------------------
(* What is taken in                                                        *)

\* A view names the owner of what it holds, or no character at all.
ViewOK(d) == d \in Views /\ (d.packet /\ d.who # Nobody => d.of = d.who)

\* The page's memory follows the character in play and never loses it.
Follows(s, t) == StateOK(t) /\ (s.char # Nobody => t.char # Nobody)

LEMMA AppliedFollows ==
  ASSUME GameOK, NEW s, StateOK(s), NEW d, ViewOK(d)
  PROVE  Follows(s, Applied(s, d))
<1>1. CASE Ignored(d)
  BY <1>1 DEF Applied, Follows
<1>2. CASE ~Ignored(d)
  <2> DEFINE old == IF Resets(s, d) THEN Blank ELSE s
             loads == IF LoadoutKept(d) THEN MergeLoadouts(old.loads, d.of, d.pieces)
                      ELSE old.loads
             t == Applied(s, d)
  <2>1. StateOK(old)
    BY DEF StateOK, States, Blank, OwnedBy, Loads, Someone
  <2>2. d \in Views /\ s \in States /\ old \in States
    BY <2>1 DEF ViewOK, StateOK
  <2>3. loads \in Loads
    BY <2>2 DEF LoadoutKept, MergeLoadouts, Loads, States, Views, Someone
  <2>4. /\ t.char = IF d.who # Nobody THEN d.who ELSE old.char
        /\ t.loads = loads
        /\ t.stray = (\/ old.stray
                      \/ d.who = Nobody /\ LoadoutKept(d) /\ d.pieces > 0 /\ old.char # d.of)
    BY <1>2 DEF Applied
  <2>5. t \in States
    BY <1>2, <2>2, <2>3 DEF Applied, OwnAfter, States, Views, Someone
  <2>6. s.char # Nobody => t.char # Nobody
    BY <2>4 DEF Resets
  <2>7. ASSUME ~t.stray, NEW c \in Characters \ {t.char}
        PROVE  t.loads[c] = 0
    <3>1. \A e \in Characters \ {old.char} : old.loads[e] = 0
      BY <2>1, <2>4, <2>7 DEF StateOK, OwnedBy
    <3>2. old.char = t.char \/ old.char = Nobody
      BY <2>4 DEF Resets, Blank
    <3>3. old.loads[c] = 0
      BY <3>1, <3>2
    <3>4. ASSUME LoadoutKept(d), d.of = c
          PROVE  d.pieces = 0
      <4>1. CASE d.who = Nobody
        BY <4>1, <3>4, <2>2, <2>4, <2>7 DEF Views
      <4>2. CASE d.who # Nobody
        BY <4>2, <3>4, <2>4, <2>7 DEF ViewOK, LoadoutKept
      <4> QED
        BY <4>1, <4>2
    <3>5. old.loads \in [Characters -> Nat]
      BY <2>2 DEF States, Loads
    <3> QED
      BY <2>4, <3>3, <3>4, <3>5 DEF MergeLoadouts
  <2> QED
    BY <2>5, <2>6, <2>7 DEF Follows, StateOK, OwnedBy
<1> QED
  BY <1>1, <1>2

LEMMA FollowsOn ==
  ASSUME NEW s, NEW t, NEW u, Follows(s, t), Follows(t, u)
  PROVE  Follows(s, u)
BY DEF Follows

LEMMA LiveFollows ==
  ASSUME GameOK, NEW s, StateOK(s), NEW t \in Live(s)
  PROVE  Follows(s, t)
<1>1. \A v \in CoreViews \cup Leftovers : ViewOK(v)
  <2>1. ASSUME NEW who \in Someone, NEW of \in Someone, NEW pieces \in Nat,
               NEW skills \in BOOLEAN, NEW guild \in {"none", "own", "foreign"},
               NEW version \in Nat
        PROVE  ViewOK(View(who, of, pieces, skills, guild, version))
    BY DEF View, ViewOK, Views
  <2>2. /\ present \in Someone /\ Nobody \in Someone /\ sheet \in Nat
        /\ Characters \subseteq Someone
        /\ \A c \in Characters : gear[c] \in Nat
        /\ present \in Characters
    BY DEF GameOK, Loads, Someone
  <2>3. ViewOK(Nothing)
    BY <2>1, <2>2 DEF Nothing
  <2>4. \A v \in CoreViews : ViewOK(v)
    <3>1. ViewOK(View(present, present, 0, FALSE, "none", 0))
      BY <2>1, <2>2
    <3>2. ViewOK(View(present, present, gear[present], TRUE, "own", sheet))
      BY <2>1, <2>2
    <3> QED
      BY <2>3, <3>1, <3>2 DEF CoreViews
  <2>5. \A v \in Leftovers : ViewOK(v)
    <3>1. ViewOK(View(Nobody, Nobody, 0, FALSE, "foreign", 0))
      BY <2>1, <2>2
    <3>2. ASSUME NEW c \in Characters
          PROVE  /\ ViewOK(View(c, c, gear[c], TRUE, "own", 0))
                 /\ ViewOK(View(Nobody, c, gear[c], FALSE, "none", 0))
      BY <2>1, <2>2
    <3> QED
      BY <2>3, <3>1, <3>2 DEF Leftovers
  <2> QED
    BY <2>4, <2>5
<1>2. PICK v \in CoreViews, w \in Leftovers : t = Applied(Applied(s, v), w)
  BY DEF Live
<1>3. Follows(s, Applied(s, v))
  BY <1>1, AppliedFollows
<1>4. Follows(Applied(s, v), t)
  BY <1>1, <1>2, <1>3, AppliedFollows DEF Follows
<1> QED
  BY <1>3, <1>4, FollowsOn

LEMMA CachedFollows ==
  ASSUME GameOK, NEW s, StateOK(s)
  PROVE  Follows(s, Cached(s))
<1> DEFINE d == View(cache.of, cache.of, cache.pieces, TRUE, "none", 0)
<1>1. ViewOK(d)
  BY DEF View, ViewOK, Views, GameOK, Someone
<1>2. Follows(s, Applied(s, d))
  BY <1>1, AppliedFollows
<1>3. Cached(s) = [Applied(s, d) EXCEPT !.skills = TRUE]
  BY DEF Cached
<1> HIDE DEF d
<1> QED
  BY <1>2, <1>3 DEF Follows, StateOK, States

LEMMA PageFollows ==
  ASSUME GameOK, NEW s, StateOK(s), NEW t \in LiveThenCache(s) \cup CacheThenLive(s)
  PROVE  Follows(s, t)
<1>1. CASE t \in LiveThenCache(s)
  <2>1. PICK u \in Live(s) : t = Cached(u)
    BY <1>1 DEF LiveThenCache
  <2>2. Follows(s, u) /\ StateOK(u)
    BY LiveFollows DEF Follows
  <2> QED
    BY <2>1, <2>2, CachedFollows, FollowsOn
<1>2. CASE t \in CacheThenLive(s)
  <2>1. Follows(s, Cached(s)) /\ StateOK(Cached(s))
    BY CachedFollows DEF Follows
  <2>2. Follows(Cached(s), t)
    BY <1>2, <2>1, LiveFollows DEF CacheThenLive
  <2> QED
    BY <2>1, <2>2, FollowsOn
<1> QED
  BY <1>1, <1>2

-----------------------------------------------------------------------------
(* What a mark becomes                                                     *)

\* Whatever changes the state leaves marks that follow it.
LEMMA RefreshFollows ==
  ASSUME cards \in BOOLEAN, NEW m \in Marks, m.shown # Nobody => m.doc /\ cards,
         NEW who \in Someone, who = Nobody => m.shown = Nobody
  PROVE  /\ ScheduleRefresh(m, who) \in Marks
         /\ \A own \in BOOLEAN : MarkOK(ScheduleRefresh(m, who), who, own, cards)
<1> DEFINE r == ScheduleRefresh(m, who)
<1>1. CASE who # Nobody /\ ~AttemptFresh(m, who)
  <2>1. r = [m EXCEPT !.due = TRUE]
    BY <1>1 DEF ScheduleRefresh
  <2> QED
    BY <1>1, <2>1 DEF Marks, MarkOK
<1>2. CASE who # Nobody /\ AttemptFresh(m, who) /\ m.doc /\ cards
  <2>1. r = [m EXCEPT !.due = FALSE, !.shown = who]
    BY <1>2 DEF ScheduleRefresh, Rendered, Marks
  <2> QED
    BY <1>2, <2>1 DEF Marks, MarkOK
<1>3. CASE (who = Nobody \/ AttemptFresh(m, who)) /\ ~(who # Nobody /\ m.doc /\ cards)
  <2>1. r = [m EXCEPT !.due = FALSE]
    BY <1>3 DEF ScheduleRefresh
  <2> QED
    BY <1>3, <2>1 DEF Marks, MarkOK
<1> QED
  BY <1>1, <1>2, <1>3

-----------------------------------------------------------------------------
(* Parts of the invariant that a kind of step keeps                        *)

UploadsInv ==
    /\ CallsOwn /\ StoredOwn /\ AdriftOwn
    /\ NothingDone /\ UnmixedStand /\ SignedStands

PendingInv == UpToDate /\ ChangeIsPending

\* What every step of an upload keeps of the rest.
UploadStepKeeps ==
    /\ UploadsOK' /\ UploadsInv' /\ PendingInv'
    /\ StateOK(state)' /\ MarksOK' /\ MarksFollow'

\* Nobody's upload goes on and nothing is written.
LEMMA UploadsInvStays ==
  ASSUME UploadsInv, strayed => strayed',
         UNCHANGED <<signed, call, stored, table, adrift, kept, disturbed>>
  PROVE  UploadsInv'
BY DEF UploadsInv, CallsOwn, StoredOwn, AdriftOwn, Owned, SnapOK, NothingDone,
       UnmixedStand, Stands, SignedStands, Working, HasWritten

\* Whatever is taken in from the page arms the timer.
LEMMA CaptureKeepsUploads ==
  ASSUME SyncInv, state' \in States,
         timer' = (timer \/ HasCharacterData(state')),
         missed' = (missed /\ ~HasCharacterData(state')),
         replaced' = (replaced /\ ~HasCharacterData(state')),
         UNCHANGED <<running, signed, call, stored, table, adrift, kept, disturbed, strayed>>
  PROVE  UploadsOK' /\ UploadsInv' /\ PendingInv'
<1>1. UploadsOK'
  <2>1. HasCharacterData(state') \in BOOLEAN
    BY DEF HasCharacterData, States
  <2> QED
    BY <2>1 DEF SyncInv, UploadsOK, ApiOK
<1>2. UploadsInv'
  BY UploadsInvStays DEF SyncInv, UploadsInv
<1>3. (timer => timer') /\ (state'.char # Nobody => timer')
  BY DEF HasCharacterData
<1>4. UpToDate'
  BY <1>3 DEF SyncInv, UpToDate, Uploadable, Working
<1>5. ChangeIsPending'
  BY <1>3 DEF ChangeIsPending, Outdated
<1> QED
  BY <1>1, <1>2, <1>4, <1>5 DEF PendingInv

LEMMA UploadsStay ==
  ASSUME SyncInv, UNCHANGED <<state, uploads, strayed>>
  PROVE  UploadsOK' /\ UploadsInv' /\ PendingInv' /\ StateOK(state)'
<1>1. UNCHANGED <<state, strayed, timer, running, signed, call, stored, table, adrift,
                  kept, disturbed, missed, replaced>>
  BY DEF uploads, api
<1>2. UploadsInv'
  BY <1>1, UploadsInvStays DEF SyncInv, UploadsInv
<1>3. UploadsOK' /\ StateOK(state)'
  BY <1>1 DEF SyncInv, UploadsOK, ApiOK, StateOK
<1>4. PendingInv'
  BY <1>1 DEF SyncInv, PendingInv, Working, UpToDate, Uploadable, Sign, Snap, Signature,
              ChangeIsPending, Outdated, Carried
<1> QED
  BY <1>2, <1>3, <1>4

\* The page's memory and the marks change together.
LEMMA MarksGoAlong ==
  ASSUME SyncInv, NEW t, Follows(state, t), state' = t, UNCHANGED cards,
         mark' = Rescheduled(mark, t.char)
  PROVE  StateOK(state)' /\ MarksOK' /\ MarksFollow'
<1>1. t \in States /\ t.char \in Someone /\ t.own \in BOOLEAN /\ StateOK(t)
  BY DEF Follows, StateOK, States
<1>2. cards \in BOOLEAN /\ mark \in [Kinds -> Marks]
  BY DEF SyncInv, MarksOK
<1>3. ASSUME NEW k \in Kinds
      PROVE  mark'[k] \in Marks /\ MarkOK(mark'[k], t.char, t.own, cards)
  <2>1. mark[k] \in Marks /\ MarkOK(mark[k], state.char, state.own, cards)
    BY <1>2 DEF SyncInv, MarksFollow
  <2>2. mark[k].shown # Nobody => mark[k].doc /\ cards
    BY <2>1 DEF MarkOK
  <2>3. t.char = Nobody => mark[k].shown = Nobody
    BY <2>1 DEF MarkOK, Follows
  <2>4. CASE t.char = Nobody
    <3>1. mark'[k] = mark[k]
      BY <2>4 DEF Rescheduled
    <3> QED
      BY <2>1, <2>3, <2>4, <3>1 DEF MarkOK
  <2>5. CASE t.char # Nobody
    <3>1. mark'[k] = ScheduleRefresh(mark[k], t.char)
      BY <2>5 DEF Rescheduled
    <3> QED
      BY <1>1, <1>2, <2>1, <2>2, <2>3, <3>1, RefreshFollows
  <2> QED
    BY <2>4, <2>5
<1>4. mark' \in [Kinds -> Marks]
  BY <1>3 DEF Rescheduled
<1> QED
  BY <1>1, <1>2, <1>3, <1>4 DEF MarksOK, MarksFollow, StateOK

\* A call that is not at work leaves, waits or goes to work.
LEMMA EnterKeeps ==
  ASSUME SyncInv, NEW i \in Calls, ~Working(i), NEW c,
         call' = [call EXCEPT ![i] = c],
         \/ c = Idle
         \/ /\ c \in CallType /\ c.at \in {"confirm", "ask"} /\ c.done = {}
            /\ c.snap.who \in Characters
            /\ strayed' \/ OwnedBy(c.snap.who, c.snap.loads),
         strayed => strayed',
         UNCHANGED <<signed, stored, table, adrift, kept, disturbed>>
  PROVE  UploadsInv'
<1>1. /\ call'[i] = c
      /\ \A j \in Calls \ {i} : call'[j] = call[j]
  BY DEF SyncInv, UploadsOK
<1>2. CallsOwn' /\ StoredOwn' /\ AdriftOwn'
  BY <1>1 DEF SyncInv, CallsOwn, StoredOwn, AdriftOwn, Owned, SnapOK
<1>3. NothingDone'
  BY <1>1 DEF SyncInv, NothingDone
<1>4. UnmixedStand'
  BY <1>1 DEF SyncInv, UnmixedStand, Stands
<1>5. SignedStands'
  BY <1>1 DEF SyncInv, SignedStands, Working, HasWritten
<1> QED
  BY <1>2, <1>3, <1>4, <1>5 DEF UploadsInv

\* What an upload finds in the page is of the shape it sends.
LEMMA SnapFits ==
  ASSUME NEW s, StateOK(s)
  PROVE  /\ Snap(s) \in Snapshots /\ s.sheet \in Nat /\ s.loads \in Loads
         /\ Snap(s).who = s.char /\ Snap(s).loads = s.loads
BY DEF StateOK, States, Snap, Snapshots

\* Only the flag lets uploads in, and each that none has overtaken has raised it.
LEMMA AllOvertaken ==
  ASSUME SyncInv, ~running
  PROVE  \A i \in Calls : Working(i) => call[i].overtaken
BY DEF SyncInv, UpToDate

-----------------------------------------------------------------------------
(* Behind the confirmation                                                 *)

\* The upload gives up: it arms the timer, or notes that nobody will try again, or
\* has nothing new.
LEMMA GivenUp ==
  ASSUME SyncInv, NEW i \in Calls, ~Working(i), GiveUp(i),
         StateOK(state)', timer' \in BOOLEAN, missed' \in BOOLEAN, replaced' \in BOOLEAN,
         strayed' \in BOOLEAN, strayed => strayed',
         timer' \/ (~running /\ (missed' \/ ~Outdated'))
  PROVE  UploadsOK' /\ UploadsInv' /\ PendingInv'
<1>1. /\ call' = [call EXCEPT ![i] = Idle]
      /\ UNCHANGED <<running, signed, stored, table, adrift, kept, disturbed>>
  BY DEF GiveUp, api
<1>2. call \in [Calls -> CallType \cup {Idle}] /\ call' \in [Calls -> CallType \cup {Idle}]
      /\ call'[i] = Idle /\ \A j \in Calls \ {i} : call'[j] = call[j]
  BY <1>1 DEF SyncInv, UploadsOK
<1>3. UploadsOK'
  BY <1>1, <1>2 DEF SyncInv, UploadsOK, ApiOK
<1>4. UploadsInv'
  BY <1>1, EnterKeeps
<1>5. UpToDate'
  <2>1. CASE timer'
    BY <1>1, <1>2, <2>1 DEF SyncInv, UpToDate, Working
  <2>2. CASE ~running
    BY <1>2, <2>2, AllOvertaken DEF UpToDate, Working
  <2> QED
    BY <2>1, <2>2
<1>6. ChangeIsPending'
  BY DEF ChangeIsPending
<1> QED
  BY <1>3, <1>4, <1>5, <1>6 DEF PendingInv

\* A click's upload, or one whose signature is new, goes to work.
LEMMA Started ==
  ASSUME SyncInv, NEW i \in Calls, ~Working(i),
         NEW c \in CallType, c.at = "confirm", c.done = {}, c.snap.who \in Characters,
         strayed' \/ OwnedBy(c.snap.who, c.snap.loads),
         StateOK(state)', timer' \in BOOLEAN, missed' \in BOOLEAN, replaced' \in BOOLEAN,
         strayed' \in BOOLEAN, strayed => strayed',
         timer' \/ (~running /\ c.snap = Snap(state')),
         running' = TRUE,
         call' = [call EXCEPT ![i] =
                    [c EXCEPT !.at = "ask", !.auto = FALSE, !.sheet = state'.sheet]],
         UNCHANGED <<signed, stored, table, adrift, kept, disturbed>>
  PROVE  UploadsOK' /\ UploadsInv' /\ PendingInv'
<1> DEFINE d == [c EXCEPT !.at = "ask", !.auto = FALSE, !.sheet = state'.sheet]
<1>1. state'.sheet \in Nat
  BY SnapFits DEF StateOK, States
<1>2. /\ d \in CallType /\ d.at = "ask" /\ d.sheet = state'.sheet
      /\ d.done = {} /\ d.snap = c.snap /\ d # Idle
  BY <1>1 DEF CallType
<1>3. /\ call' \in [Calls -> CallType \cup {Idle}] /\ call'[i] = d
      /\ \A j \in Calls \ {i} : call'[j] = call[j]
  BY <1>2 DEF SyncInv, UploadsOK
<1>4. UploadsOK'
  BY <1>3 DEF SyncInv, UploadsOK, ApiOK
<1>5. UploadsInv'
  <2>1. call' = [call EXCEPT ![i] = d]
    OBVIOUS
  <2> HIDE DEF d
  <2> QED
    BY <1>2, <2>1, EnterKeeps
<1> HIDE DEF d
<1>6. timer' \/ Sign(state)' = Signature(d)
  BY <1>2 DEF Sign, Signature
<1>7. UpToDate'
  <2> SUFFICES ASSUME NEW j \in Calls, Working(j)', ~call'[j].overtaken
               PROVE  timer' \/ ~Uploadable' \/ Sign(state)' = Signature(call'[j])
    BY DEF UpToDate
  <2>1. CASE j = i
    BY <1>3, <1>6, <2>1
  <2>2. CASE j # i
    BY <1>3, <2>2, AllOvertaken DEF Working
  <2> QED
    BY <2>1, <2>2
<1>8. ChangeIsPending'
  BY <1>2, <1>3, <1>6 DEF ChangeIsPending, Carried, Signature
<1> QED
  BY <1>4, <1>5, <1>7, <1>8 DEF PendingInv

LEMMA PrepareKeeps ==
  ASSUME SyncInv, NEW i \in Calls, ~Working(i),
         NEW c \in CallType, c.at = "confirm", c.done = {}, c.snap.who \in Characters,
         strayed' \/ OwnedBy(c.snap.who, c.snap.loads),
         NEW s, Follows(state, s), NEW armed \in BOOLEAN, Prepare(i, c, s, armed),
         armed \/ (~running /\ c.snap = Snap(s)),
         strayed' \in BOOLEAN, strayed => strayed', UNCHANGED cards
  PROVE  UploadStepKeeps
<1>1. timer \in BOOLEAN /\ missed \in BOOLEAN /\ replaced \in BOOLEAN /\ c.auto \in BOOLEAN
  BY DEF SyncInv, UploadsOK, CallType
<1>2. CASE ~HasGear(c.snap.loads)
  <2>1. PICK t \in CacheThenLive(s) : state' = t /\ mark' = Rescheduled(mark, t.char)
    BY <1>2 DEF Prepare
  <2>2. /\ timer' = (armed \/ c.auto) /\ missed' = (missed \/ ~c.auto)
        /\ replaced' = replaced /\ GiveUp(i)
    BY <1>2 DEF Prepare
  <2>3. Follows(state, t)
    BY PageFollows, FollowsOn DEF SyncInv, Follows
  <2>4. StateOK(state)' /\ MarksOK' /\ MarksFollow'
    BY <2>1, <2>3, MarksGoAlong
  <2>5. timer' \in BOOLEAN /\ missed' \in BOOLEAN /\ replaced' \in BOOLEAN
    BY <1>1, <2>2
  <2>6. timer' \/ (~running /\ missed')
    BY <2>2
  <2> QED
    BY <2>2, <2>4, <2>5, <2>6, GivenUp DEF UploadStepKeeps
<1>3. CASE HasGear(c.snap.loads)
  <2> DEFINE sign == [snap |-> c.snap, sheet |-> s.sheet]
  <2>1. /\ state' = s /\ timer' = armed /\ missed' = missed /\ replaced' = replaced
        /\ mark' = Rescheduled(mark, s.char)
    BY <1>3 DEF Prepare
  <2>2. StateOK(state)' /\ MarksOK' /\ MarksFollow'
    BY <2>1, MarksGoAlong
  <2>3. CASE c.auto /\ sign = signed
    <3>1. GiveUp(i)
      BY <1>3, <2>3 DEF Prepare
    <3>2. ~armed => ~running /\ ~Outdated'
      BY <2>1, <2>3, <3>1 DEF Outdated, Sign, GiveUp
    <3> QED
      BY <1>1, <2>1, <2>2, <3>1, <3>2, GivenUp DEF UploadStepKeeps
  <2>4. CASE ~(c.auto /\ sign = signed)
    <3>1. /\ running' = TRUE
          /\ call' = [call EXCEPT ![i] =
                [c EXCEPT !.at = "ask", !.auto = FALSE, !.sheet = s.sheet]]
          /\ UNCHANGED <<signed, stored, table, adrift, kept, disturbed>>
      BY <1>3, <2>4 DEF Prepare, api
    <3> QED
      BY <1>1, <2>1, <2>2, <3>1, Started DEF UploadStepKeeps
  <2> QED
    BY <2>3, <2>4
<1> QED
  BY <1>2, <1>3

-----------------------------------------------------------------------------
(* Uploads                                                                 *)

LEMMA UploadKeeps ==
  ASSUME SyncInv, NEW auto \in BOOLEAN, Upload(auto)
  PROVE  UploadStepKeeps
<1>1. CASE running
  <2>1. /\ timer' = Again(auto)
        /\ UNCHANGED <<state, running, signed, call, stored, table, adrift, kept, disturbed,
                       missed, replaced, mark, strayed, cards>>
    BY <1>1 DEF Upload, api
  <2>2. UploadsOK' /\ StateOK(state)' /\ MarksOK' /\ MarksFollow'
    BY <2>1 DEF SyncInv, UploadsOK, ApiOK, Again, StateOK, MarksOK, MarksFollow
  <2>3. UploadsInv'
    BY <2>1, UploadsInvStays DEF SyncInv, UploadsInv
  <2>4. timer => timer'
    BY <2>1 DEF Again
  <2>5. PendingInv'
    BY <2>1, <2>4 DEF SyncInv, PendingInv, UpToDate, Working, Uploadable, Sign, Snap,
                      Signature, ChangeIsPending, Outdated, Carried
  <2> QED
    BY <2>2, <2>3, <2>5 DEF UploadStepKeeps
<1>2. CASE ~running
  <2>1. PICK i \in Calls, s \in CacheThenLive(state) :
          LET c == [at |-> "confirm", auto |-> auto, snap |-> Snap(s), sheet |-> 0,
                    done |-> {}, mixed |-> FALSE, overtaken |-> FALSE]
          IN
          /\ i = CHOOSE j \in Calls : call[j] = Idle
          /\ strayed' = (strayed \/ s.stray)
          /\ \/ /\ s.char = Nobody
                /\ state' = s /\ timer' = FALSE /\ missed' = TRUE
                /\ UNCHANGED <<replaced, mark>>
                /\ GiveUp(i)
             \/ s.char # Nobody /\ s.own /\ Prepare(i, c, s, FALSE)
             \/ /\ s.char # Nobody /\ ~s.own
                /\ \E t \in CacheThenLive(s) :
                     /\ state' = t /\ timer' = HasCharacterData(t)
                     /\ mark' = Rescheduled(mark, t.char)
                /\ call' = [call EXCEPT ![i] = c]
                /\ missed' = FALSE /\ replaced' = FALSE
                /\ UNCHANGED <<running, signed, api, adrift, kept, disturbed>>
    BY <1>2 DEF Upload
  <2> DEFINE c == [at |-> "confirm", auto |-> auto, snap |-> Snap(s), sheet |-> 0,
                   done |-> {}, mixed |-> FALSE, overtaken |-> FALSE]
  <2>2. UNCHANGED cards
    BY DEF Upload
  <2>3. call[i] = Idle /\ ~Working(i)
    BY <1>2, <2>1 DEF Upload, Working
  <2>4. Follows(state, s) /\ StateOK(s)
    BY PageFollows DEF SyncInv, Follows
  <2>5. /\ strayed \in BOOLEAN /\ strayed' \in BOOLEAN /\ (strayed => strayed')
        /\ strayed' \/ OwnedBy(s.char, s.loads)
    BY <2>1, <2>4 DEF SyncInv, UploadsOK, StateOK, States
  <2>6. c \in CallType /\ c.at = "confirm" /\ c.done = {} /\ c.snap = Snap(s)
    BY <2>4, SnapFits DEF CallType
  <2>7. /\ s.char # Nobody => c.snap.who \in Characters
        /\ strayed' \/ OwnedBy(c.snap.who, c.snap.loads)
    BY <2>4, <2>5, <2>6, SnapFits DEF StateOK, States, Someone
  <2> HIDE DEF c
  <2>8. CASE s.char = Nobody
    <3>1. /\ state' = s /\ timer' = FALSE /\ missed' = TRUE /\ GiveUp(i)
          /\ UNCHANGED <<replaced, mark>>
      BY <2>1, <2>8
    <3>2. mark' = Rescheduled(mark, s.char)
      BY <2>8, <3>1 DEF Rescheduled, SyncInv, MarksOK
    <3>3. StateOK(state)' /\ MarksOK' /\ MarksFollow'
      BY <2>2, <2>4, <3>1, <3>2, MarksGoAlong
    <3>4. replaced' \in BOOLEAN
      BY <3>1 DEF SyncInv, UploadsOK
    <3> QED
      BY <1>2, <2>3, <2>5, <3>1, <3>3, <3>4, GivenUp DEF UploadStepKeeps
  <2>9. CASE s.char # Nobody /\ s.own
    <3>1. Prepare(i, c, s, FALSE)
      BY <2>1, <2>9 DEF c
    <3> QED
      BY <1>2, <2>2, <2>3, <2>4, <2>5, <2>6, <2>7, <2>9, <3>1, PrepareKeeps
  <2>10. CASE s.char # Nobody /\ ~s.own
    <3>1. PICK t \in CacheThenLive(s) :
            /\ state' = t /\ timer' = HasCharacterData(t)
            /\ mark' = Rescheduled(mark, t.char)
      BY <2>1, <2>10
    <3>2. /\ call' = [call EXCEPT ![i] = c] /\ missed' = FALSE /\ replaced' = FALSE
          /\ UNCHANGED <<running, signed, stored, table, adrift, kept, disturbed>>
      BY <2>1, <2>10 DEF c, api
    <3>3. Follows(state, t)
      BY <2>4, PageFollows, FollowsOn DEF SyncInv
    <3>4. StateOK(state)' /\ MarksOK' /\ MarksFollow'
      BY <2>2, <3>1, <3>3, MarksGoAlong
    <3>5. timer' \in BOOLEAN
      BY <3>1, <3>3 DEF HasCharacterData, Follows, StateOK, States
    <3>6. /\ call' \in [Calls -> CallType \cup {Idle}] /\ call'[i] = c
          /\ \A j \in Calls \ {i} : call'[j] = call[j]
      BY <2>6, <3>2 DEF SyncInv, UploadsOK
    <3>7. UploadsOK'
      BY <2>5, <3>2, <3>5, <3>6 DEF SyncInv, UploadsOK, ApiOK
    <3>8. ~Working(i)'
      BY <2>6, <3>6 DEF Working
    <3>9. UploadsInv'
      BY <2>3, <2>5, <2>6, <2>7, <2>10, <3>2, EnterKeeps
    <3>10. UpToDate'
      BY <1>2, <3>6, <3>8, AllOvertaken DEF UpToDate, Working
    <3>11. ChangeIsPending'
      BY <2>6, <3>6 DEF ChangeIsPending, Carried
    <3> QED
      BY <3>4, <3>7, <3>9, <3>10, <3>11 DEF UploadStepKeeps, PendingInv
  <2> QED
    BY <2>8, <2>9, <2>10
<1> QED
  BY <1>1, <1>2 DEF SyncInv, UploadsOK

LEMMA ConfirmKeeps ==
  ASSUME SyncInv, Confirm
  PROVE  UploadStepKeeps
<1>1. PICK i \in Calls, s \in CacheThenLive(state) :
        /\ call[i] # Idle /\ call[i].at = "confirm"
        /\ \/ s.own /\ Prepare(i, call[i], s, TRUE)
           \/ /\ ~s.own
              /\ state' = s /\ timer' = TRUE
              /\ mark' = Rescheduled(mark, s.char)
              /\ UNCHANGED <<missed, replaced>>
              /\ GiveUp(i)
        /\ UNCHANGED <<cards, strayed>>
  BY DEF Confirm
<1>2. ~Working(i) /\ call[i] \in CallType /\ call[i].done = {}
  BY <1>1 DEF SyncInv, UploadsOK, NothingDone, Working
<1>3. /\ call[i].snap.who \in Characters
      /\ strayed \/ OwnedBy(call[i].snap.who, call[i].snap.loads)
  BY <1>1 DEF SyncInv, CallsOwn, Owned, SnapOK
<1>4. Follows(state, s)
  BY PageFollows DEF SyncInv
<1>5. /\ strayed' \in BOOLEAN /\ strayed' = strayed
      /\ missed \in BOOLEAN /\ replaced \in BOOLEAN
  BY <1>1 DEF SyncInv, UploadsOK
<1>6. CASE s.own /\ Prepare(i, call[i], s, TRUE)
  <2>1. PICK c \in CallType : c = call[i]
    BY <1>2
  <2>2. /\ c.at = "confirm" /\ c.done = {} /\ c.snap.who \in Characters
        /\ strayed' \/ OwnedBy(c.snap.who, c.snap.loads)
        /\ UNCHANGED cards
    BY <1>1, <1>2, <1>3, <1>5, <2>1
  <2>3. Prepare(i, c, s, TRUE)
    BY <1>6, <2>1 DEF Prepare
  <2> QED
    BY <1>2, <1>4, <1>5, <2>2, <2>3, PrepareKeeps
<1>7. CASE /\ state' = s /\ timer' = TRUE
           /\ mark' = Rescheduled(mark, s.char)
           /\ UNCHANGED <<missed, replaced>>
           /\ GiveUp(i)
  <2>1. StateOK(state)' /\ MarksOK' /\ MarksFollow'
    BY <1>1, <1>4, <1>7, MarksGoAlong
  <2> QED
    BY <1>2, <1>5, <1>7, <2>1, GivenUp DEF UploadStepKeeps
<1> QED
  BY <1>1, <1>6, <1>7

-----------------------------------------------------------------------------
(* Behind the answers                                                      *)

\* What becomes of the calls that do not step themselves.
Stays(d, e) ==
    \/ d = Idle /\ e = Idle
    \/ /\ d \in CallType /\ e \in CallType /\ d # Idle /\ e # Idle
       /\ e.at = d.at /\ e.snap = d.snap /\ e.sheet = d.sheet /\ e.done = d.done
       /\ d.mixed => e.mixed
       /\ d.overtaken => e.overtaken

LEMMA MixedStays ==
  ASSUME call \in [Calls -> CallType \cup {Idle}]
  PROVE  \A j \in Calls : /\ Stays(call[j], Mixed[j])
                          /\ Working(j) /\ HasWritten(call[j]) => Mixed[j].mixed
<1> SUFFICES ASSUME NEW j \in Calls
             PROVE  /\ Stays(call[j], Mixed[j])
                    /\ Working(j) /\ HasWritten(call[j]) => Mixed[j].mixed
  OBVIOUS
<1>1. call[j] \in CallType \cup {Idle}
  OBVIOUS
<1>2. CASE Working(j) /\ HasWritten(call[j])
  <2>1. call[j] \in CallType /\ call[j] # Idle
    BY <1>1, <1>2 DEF Working
  <2>2. Mixed[j] = [call[j] EXCEPT !.mixed = TRUE]
    BY <1>2 DEF Mixed
  <2> QED
    BY <2>1, <2>2 DEF Stays, CallType
<1>3. CASE ~(Working(j) /\ HasWritten(call[j]))
  <2>1. Mixed[j] = call[j]
    BY <1>3 DEF Mixed
  <2> QED
    BY <1>1, <1>3, <2>1 DEF Stays
<1> QED
  BY <1>2, <1>3

LEMMA WithStays ==
  ASSUME call \in [Calls -> CallType \cup {Idle}],
         NEW i \in Calls, NEW c \in CallType \cup {Idle}, NEW wrote \in BOOLEAN
  PROVE  /\ With(i, c, wrote) \in [Calls -> CallType \cup {Idle}]
         /\ With(i, c, wrote)[i] = c
         /\ \A j \in Calls \ {i} :
              /\ Stays(call[j], With(i, c, wrote)[j])
              /\ wrote /\ Working(j) /\ HasWritten(call[j]) => With(i, c, wrote)[j].mixed
              /\ c = Idle /\ Working(j) => With(i, c, wrote)[j].overtaken
<1> DEFINE w == With(i, c, wrote)
<1>1. w[i] = c
  BY DEF With
<1>2. ASSUME NEW j \in Calls \ {i}
      PROVE  /\ Stays(call[j], w[j])
             /\ wrote /\ Working(j) /\ HasWritten(call[j]) => w[j].mixed
             /\ c = Idle /\ Working(j) => w[j].overtaken
  <2> DEFINE d == IF wrote THEN Mixed[j] ELSE call[j]
  <2>1. Stays(call[j], d) /\ (wrote /\ Working(j) /\ HasWritten(call[j]) => d.mixed)
    BY MixedStays DEF Stays
  <2>2. w[j] = IF c = Idle /\ Working(j) THEN [d EXCEPT !.overtaken = TRUE] ELSE d
    BY DEF With
  <2> HIDE DEF d
  <2>3. CASE c = Idle /\ Working(j)
    <3>1. d \in CallType /\ d # Idle
      BY <2>1, <2>3 DEF Stays, Working
    <3> DEFINE e == [d EXCEPT !.overtaken = TRUE]
    <3>2. /\ e \in CallType /\ e.at = d.at /\ e.snap = d.snap /\ e.sheet = d.sheet
          /\ e.done = d.done /\ e.mixed = d.mixed /\ e.overtaken
      BY <3>1 DEF CallType
    <3>3. w[j] = e
      BY <2>2, <2>3
    <3> HIDE DEF e, w
    <3> QED
      BY <2>1, <2>3, <3>1, <3>2, <3>3 DEF Stays, Working
  <2>4. CASE ~(c = Idle /\ Working(j))
    BY <2>1, <2>2, <2>4
  <2> QED
    BY <2>3, <2>4
<1>3. w \in [Calls -> CallType \cup {Idle}]
  <2>1. \A j \in Calls : w[j] \in CallType \cup {Idle}
    BY <1>1, <1>2 DEF Stays
  <2>2. w = [j \in Calls |-> w[j]]
    BY DEF With
  <2> HIDE DEF w
  <2> QED
    BY <2>1, <2>2
<1> QED
  BY <1>1, <1>2, <1>3

\* A call that stays is where it was, for all that is said of it.
LEMMA StaysWorking ==
  ASSUME NEW j \in Calls, Stays(call[j], call'[j])
  PROVE  /\ Working(j)' = Working(j)
         /\ call[j] # Idle => HasWritten(call[j])' = HasWritten(call[j])
BY DEF Stays, Working, HasWritten

\* A request that arrives leaves the API with its own data and the rest as it was.
LEMMA StoreKeeps ==
  ASSUME ApiOK, StoredOwn, NEW r \in Requests, Owned(r.snap), Store(r),
         adrift' \in SUBSET Requests, UNCHANGED strayed
  PROVE  /\ ApiOK' /\ StoredOwn'
         /\ r.to = "send" => /\ table' = table /\ stored'[r.snap.who] = r.snap
         /\ r.to # "send" => /\ stored' = stored /\ table'[r.to] = r.sheet
                             /\ \A p \in Lists \ {r.to} : table'[p] = table[p]
<1>1. /\ r.to \in Lists \cup {"send"} /\ r.snap \in Snapshots /\ r.sheet \in Nat
      /\ r.snap.who \in Characters
      /\ stored \in [Characters -> Snapshots \cup {Idle}] /\ table \in [Lists -> Nat]
  BY DEF Requests, Owned, ApiOK
<1>2. CASE r.to = "send"
  <2>1. stored' = [stored EXCEPT ![r.snap.who] = r.snap] /\ table' = table
    BY <1>2 DEF Store
  <2>2. /\ stored' \in [Characters -> Snapshots \cup {Idle}]
        /\ stored'[r.snap.who] = r.snap
        /\ \A m \in Characters \ {r.snap.who} : stored'[m] = stored[m]
    BY <1>1, <2>1
  <2>3. StoredOwn'
    BY <2>2 DEF StoredOwn, Owned, SnapOK
  <2> QED
    BY <1>1, <1>2, <2>1, <2>2, <2>3 DEF ApiOK
<1>3. CASE r.to # "send"
  <2>1. table' = [table EXCEPT ![r.to] = r.sheet] /\ stored' = stored
    BY <1>3 DEF Store
  <2>2. StoredOwn'
    BY <2>1 DEF StoredOwn, SnapOK
  <2> QED
    BY <1>1, <1>3, <2>1, <2>2 DEF ApiOK
<1> QED
  BY <1>2, <1>3

\* What the page and the timer see of a step behind the answers.
LEMMA PageStays ==
  ASSUME SyncInv, UNCHANGED atWork
  PROVE  /\ StateOK(state)' /\ MarksOK' /\ MarksFollow'
         /\ UNCHANGED <<state, timer, strayed>>
         /\ Uploadable' = Uploadable /\ Sign(state)' = Sign(state)
BY DEF atWork, SyncInv, StateOK, MarksOK, MarksFollow, Uploadable, Sign, Snap

\* An upload at work goes on; perhaps it has written what it was at.
LEMMA GoneOn ==
  ASSUME SyncInv, UNCHANGED atWork, NEW i \in Calls, Working(i),
         NEW c \in CallType, NEW wrote \in BOOLEAN, GoOn(i, c, wrote),
         c.at \notin {"confirm", "ask"},
         c.snap = call[i].snap, c.sheet = call[i].sheet,
         c.mixed = call[i].mixed, c.overtaken = call[i].overtaken,
         IF wrote THEN ApiOK' /\ StoredOwn' /\ HasWritten(c)
         ELSE UNCHANGED api /\ HasWritten(c) = HasWritten(call[i]),
         ~c.mixed => Stands(c)',
         UNCHANGED adrift
  PROVE  UploadStepKeeps
<1>1. /\ call' = With(i, c, wrote)
      /\ UNCHANGED <<running, signed, kept, disturbed, missed, replaced>>
  BY DEF GoOn
<1>2. c # Idle /\ call \in [Calls -> CallType \cup {Idle}] /\ ApiOK /\ call[i] # Idle
  BY DEF SyncInv, UploadsOK, Working
<1>3. /\ call' \in [Calls -> CallType \cup {Idle}] /\ call'[i] = c
      /\ \A j \in Calls \ {i} :
           /\ Stays(call[j], call'[j])
           /\ wrote /\ Working(j) /\ HasWritten(call[j]) => call'[j].mixed
  BY <1>1, <1>2, WithStays
<1>4. /\ StateOK(state)' /\ MarksOK' /\ MarksFollow'
      /\ UNCHANGED <<state, timer, strayed>>
      /\ Uploadable' = Uploadable /\ Sign(state)' = Sign(state)
  BY PageStays
<1>5. ApiOK' /\ StoredOwn' /\ AdriftOwn'
  <2>1. CASE wrote
    BY <1>4, <2>1 DEF SyncInv, AdriftOwn, Owned, SnapOK
  <2>2. CASE ~wrote
    BY <1>2, <1>4, <2>2 DEF SyncInv, ApiOK, api, StoredOwn, AdriftOwn, Owned, SnapOK
  <2> QED
    BY <2>1, <2>2
<1>6. UploadsOK'
  BY <1>1, <1>3, <1>4, <1>5 DEF SyncInv, UploadsOK
<1>7. Working(i)' /\ \A j \in Calls : Working(j)' = Working(j)
  BY <1>2, <1>3, StaysWorking DEF Working
<1>8. CallsOwn' /\ NothingDone'
  BY <1>2, <1>3, <1>4 DEF SyncInv, CallsOwn, Owned, SnapOK, NothingDone, Stays
<1>9. UnmixedStand'
  <2> SUFFICES ASSUME NEW j \in Calls, call'[j] # Idle, ~call'[j].mixed
               PROVE  Stands(call[j])'
    BY DEF UnmixedStand
  <2>1. CASE j = i
    BY <1>3, <2>1 DEF Stands
  <2>2. CASE j # i
    <3>1. Stays(call[j], call'[j]) /\ call[j] # Idle /\ ~call[j].mixed
      BY <1>3, <2>2 DEF Stays
    <3>2. CASE wrote
      <4>1. call[j].done = {} /\ call[j].at # "sent"
        BY <1>3, <2>2, <3>1, <3>2 DEF Working, HasWritten, SyncInv, NothingDone
      <4> QED
        BY <3>1, <4>1 DEF Stands, Stays
    <3>3. CASE ~wrote
      BY <3>1, <3>3 DEF api, SyncInv, UnmixedStand, Stands, Stays
    <3> QED
      BY <3>2, <3>3
  <2> QED
    BY <2>1, <2>2
<1>10. SignedStands'
  <2>1. CASE wrote
    BY <1>3, <1>7, <2>1 DEF SignedStands, HasWritten
  <2>2. CASE ~wrote
    <3>1. \A j \in Calls : Working(j) => HasWritten(call[j])' = HasWritten(call[j])
      BY <1>3, <2>2, StaysWorking DEF Working, HasWritten
    <3> QED
      BY <1>1, <1>7, <2>2, <3>1 DEF SyncInv, SignedStands, api
  <2> QED
    BY <2>1, <2>2
<1>11. \A j \in Calls : Working(j) => /\ Signature(call[j])' = Signature(call[j])
                                      /\ call[j].overtaken => call'[j].overtaken
  <2> SUFFICES ASSUME NEW j \in Calls, Working(j)
               PROVE  /\ Signature(call[j])' = Signature(call[j])
                      /\ call[j].overtaken => call'[j].overtaken
    OBVIOUS
  <2>1. CASE j = i
    BY <1>3, <2>1 DEF Signature
  <2>2. CASE j # i
    BY <1>3, <2>2 DEF Working, Signature, Stays
  <2> QED
    BY <2>1, <2>2
<1>12. UpToDate'
  <2> SUFFICES ASSUME NEW j \in Calls, Working(j)', ~call'[j].overtaken
               PROVE  /\ running'
                      /\ timer' \/ ~Uploadable' \/ Sign(state)' = Signature(call[j])'
    BY DEF UpToDate
  <2>1. Working(j)
    BY <1>7
  <2>2. ~call[j].overtaken /\ Signature(call[j])' = Signature(call[j])
    BY <1>11, <2>1
  <2>3. running /\ (timer \/ ~Uploadable \/ Sign(state) = Signature(call[j]))
    BY <2>1, <2>2 DEF SyncInv, UpToDate
  <2> QED
    BY <1>1, <1>4, <2>2, <2>3
<1>13. ChangeIsPending'
  <2> SUFFICES ASSUME Outdated', ~timer', ~missed', ~replaced'
               PROVE  Carried'
    BY DEF ChangeIsPending
  <2>1. Carried
    BY <1>1, <1>4 DEF SyncInv, ChangeIsPending, Outdated, Sign, Snap
  <2>2. PICK j \in Calls : /\ call[j] # Idle
                           /\ \/ call[j].at = "confirm"
                              \/ Sign(state) = [snap |-> call[j].snap, sheet |-> call[j].sheet]
    BY <2>1 DEF Carried
  <2>3. CASE j = i
    BY <1>2, <1>3, <1>4, <2>2, <2>3 DEF Carried, Working
  <2>4. CASE j # i
    BY <1>3, <1>4, <2>2, <2>4 DEF Carried, Stays
  <2> QED
    BY <2>3, <2>4
<1> QED
  BY <1>4, <1>5, <1>6, <1>8, <1>9, <1>10, <1>12, <1>13
  DEF UploadStepKeeps, UploadsInv, PendingInv

\* An upload at work ends, well or not: those still at work are overtaken.  What it
\* leaves in the API and signs is for the caller to say.
LEMMA Ended ==
  ASSUME SyncInv, UNCHANGED atWork, NEW i \in Calls, Working(i), NEW wrote \in BOOLEAN,
         call' = With(i, Idle, wrote), running' = FALSE,
         signed' \in [snap : Snapshots, sheet : Nat] \cup {Idle}, kept' \in SUBSET Lists,
         disturbed' \in BOOLEAN, missed' \in BOOLEAN, replaced' \in BOOLEAN,
         ApiOK', StoredOwn', AdriftOwn', wrote \/ UNCHANGED api,
         SignedStands', ChangeIsPending'
  PROVE  UploadStepKeeps
<1>1. call \in [Calls -> CallType \cup {Idle}]
  BY DEF SyncInv, UploadsOK
<1>2. /\ call' \in [Calls -> CallType \cup {Idle}] /\ call'[i] = Idle
      /\ \A j \in Calls \ {i} :
           /\ Stays(call[j], call'[j])
           /\ wrote /\ Working(j) /\ HasWritten(call[j]) => call'[j].mixed
           /\ Working(j) => call'[j].overtaken
  BY <1>1, WithStays
<1>3. /\ StateOK(state)' /\ MarksOK' /\ MarksFollow'
      /\ UNCHANGED <<state, timer, strayed>>
  BY PageStays
<1>4. UploadsOK'
  BY <1>2, <1>3 DEF SyncInv, UploadsOK
<1>5. CallsOwn' /\ NothingDone'
  BY <1>2, <1>3 DEF SyncInv, CallsOwn, Owned, SnapOK, NothingDone, Stays
<1>6. UnmixedStand'
  <2> SUFFICES ASSUME NEW j \in Calls, call'[j] # Idle, ~call'[j].mixed
               PROVE  Stands(call[j])'
    BY DEF UnmixedStand
  <2>1. Stays(call[j], call'[j]) /\ call[j] # Idle /\ ~call[j].mixed /\ j # i
    BY <1>2 DEF Stays
  <2>2. CASE wrote
    <3>1. call[j].done = {} /\ call[j].at # "sent"
      BY <1>2, <2>1, <2>2 DEF Working, HasWritten, SyncInv, NothingDone
    <3> QED
      BY <2>1, <3>1 DEF Stands, Stays
  <2>3. CASE UNCHANGED api
    BY <2>1, <2>3 DEF api, SyncInv, UnmixedStand, Stands, Stays
  <2> QED
    BY <2>2, <2>3
<1>7. UpToDate'
  BY <1>2, StaysWorking DEF UpToDate, Working
<1> QED
  BY <1>3, <1>4, <1>5, <1>6, <1>7 DEF UploadStepKeeps, UploadsInv, PendingInv

\* An upload at work fails: what it may have written is noted.
LEMMA Failed ==
  ASSUME SyncInv, UNCHANGED atWork, NEW i \in Calls, Working(i), NEW arrived \in BOOLEAN,
         Fail(i, arrived), ApiOK', StoredOwn', AdriftOwn', arrived \/ UNCHANGED api
  PROVE  UploadStepKeeps
<1>1. /\ call' = With(i, Idle, arrived) /\ running' = FALSE
      /\ disturbed' = (disturbed \/ arrived \/ HasWritten(call[i]))
      /\ missed' = TRUE /\ UNCHANGED <<signed, kept, replaced>>
  BY DEF Fail
<1>2. call \in [Calls -> CallType \cup {Idle}] /\ HasWritten(call[i]) \in BOOLEAN
  BY DEF SyncInv, UploadsOK, HasWritten
<1>3. \A j \in Calls \ {i} : Stays(call[j], call'[j])
  BY <1>1, <1>2, WithStays
<1>4. SignedStands'
  <2> SUFFICES ASSUME signed # Idle, ~disturbed', \A j \in Calls : Working(j)' => ~HasWritten(call'[j])
               PROVE  /\ stored'[signed.snap.who] = signed.snap
                      /\ \A p \in kept : table'[p] = signed.sheet
    BY <1>1 DEF SignedStands, HasWritten
  <2>1. ~disturbed /\ ~arrived /\ ~HasWritten(call[i])
    BY <1>1
  <2>2. \A j \in Calls : Working(j) => ~HasWritten(call[j])
    BY <1>3, <2>1, StaysWorking DEF Working, HasWritten
  <2> QED
    BY <2>1, <2>2 DEF SyncInv, SignedStands, api
<1>5. ChangeIsPending'
  BY <1>1 DEF ChangeIsPending
<1> QED
  BY <1>1, <1>2, <1>4, <1>5, Ended DEF SyncInv, UploadsOK

\* The upload's own request.
LEMMA RequestFits ==
  ASSUME SyncInv, NEW i \in Calls, call[i] # Idle, Sends(call[i])
  PROVE  Request(call[i]) \in Requests /\ Owned(Request(call[i]).snap)
<1>1. call[i] \in CallType /\ Owned(call[i].snap)
  BY DEF SyncInv, UploadsOK, CallsOwn
<1> QED
  BY <1>1 DEF Request, Requests, Sends, CallType

LEMMA DriftKeeps ==
  ASSUME SyncInv, NEW i \in Calls, call[i] # Idle, Sends(call[i]), UNCHANGED strayed,
         adrift' = adrift \/ Drift(call[i])
  PROVE  adrift' \in SUBSET Requests /\ AdriftOwn'
<1>1. Request(call[i]) \in Requests /\ Owned(Request(call[i]).snap)
  BY RequestFits
<1>2. adrift' \subseteq adrift \cup {Request(call[i])}
  BY DEF Drift
<1> QED
  BY <1>1, <1>2 DEF SyncInv, UploadsOK, ApiOK, AdriftOwn, Owned, SnapOK

\* Nothing reaches the API.
LEMMA ApiStays ==
  ASSUME SyncInv, UNCHANGED <<api, strayed>>, adrift' \in SUBSET Requests
  PROVE  ApiOK' /\ StoredOwn'
BY DEF SyncInv, UploadsOK, ApiOK, api, StoredOwn, SnapOK

\* The upload goes from place to place.
LEMMA AfterIsAPlace ==
  ASSUME NEW list \in Lists
  PROVE  After(list) \in Lists \cup {"send"}
<1> DEFINE at == CHOOSE i \in DOMAIN Posts : Posts[i] = list
<1>1. \E i \in DOMAIN Posts : Posts[i] = list
  BY DEF Lists
<1>2. at \in DOMAIN Posts
  BY <1>1
<1>3. at \in 1..Len(Posts) /\ Len(Posts) \in Nat /\ DOMAIN Posts = 1..Len(Posts)
  BY <1>2
<1>4. After(list) = IF 1 + at > Len(Posts) THEN "send" ELSE Posts[1 + at]
  BY DEF After
<1> HIDE DEF at
<1> QED
  BY <1>3, <1>4 DEF Lists

LEMMA AskKeeps ==
  ASSUME SyncInv, Ask
  PROVE  UploadStepKeeps
<1>1. PICK i \in Calls :
        /\ call[i] # Idle /\ call[i].at = "ask"
        /\ \/ Fail(i, FALSE)
           \/ GoOn(i, [call[i] EXCEPT !.at = Head(Posts)], FALSE)
           \/ GoOn(i, [call[i] EXCEPT !.at = "send"], FALSE)
        /\ UNCHANGED <<atWork, api, adrift>>
  BY DEF Ask
<1>2. Working(i) /\ call[i] \in CallType /\ call[i].done = {} /\ UNCHANGED atWork
  BY <1>1 DEF SyncInv, UploadsOK, NothingDone, Working
<1>3. CASE Fail(i, FALSE)
  <2>1. ApiOK' /\ StoredOwn' /\ AdriftOwn' /\ UNCHANGED api
    BY <1>1, <1>2, ApiStays, PageStays
    DEF SyncInv, UploadsOK, ApiOK, AdriftOwn, Owned, SnapOK
  <2> QED
    BY <1>2, <1>3, <2>1, Failed
<1>4. ASSUME NEW at \in Lists \cup {"send"}, GoOn(i, [call[i] EXCEPT !.at = at], FALSE)
      PROVE  UploadStepKeeps
  <2>0. [call[i] EXCEPT !.at = at] \in CallType
    BY <1>2 DEF CallType
  <2> PICK c \in CallType : c = [call[i] EXCEPT !.at = at]
    BY <2>0
  <2>1. /\ c.at = at /\ c.done = {}
        /\ c.snap = call[i].snap /\ c.sheet = call[i].sheet
        /\ c.mixed = call[i].mixed /\ c.overtaken = call[i].overtaken
    BY <1>2 DEF CallType
  <2>2. GoOn(i, c, FALSE)
    BY <1>4
  <2>3. at \notin {"confirm", "ask", "sent"}
    OBVIOUS
  <2>4. HasWritten(c) = HasWritten(call[i]) /\ Stands(c)'
    BY <1>1, <1>2, <2>1, <2>3 DEF HasWritten, Stands
  <2> QED
    BY <1>1, <1>2, <2>1, <2>2, <2>3, <2>4, GoneOn
<1>5. Head(Posts) \in Lists
  BY DEF Lists
<1> QED
  BY <1>1, <1>3, <1>4, <1>5

\* A request without an answer, arrived or not.
LEMMA UnansweredKeeps ==
  ASSUME SyncInv, UNCHANGED atWork, NEW i \in Calls, Working(i), Sends(call[i]),
         \/ Store(Request(call[i])) /\ Fail(i, TRUE) /\ adrift' = adrift
         \/ Fail(i, FALSE) /\ (adrift' = adrift \/ Drift(call[i])) /\ UNCHANGED api
  PROVE  UploadStepKeeps
<1>1. Request(call[i]) \in Requests /\ Owned(Request(call[i]).snap)
  BY RequestFits DEF Working
<1>2. UNCHANGED strayed
  BY PageStays
<1>3. adrift' \in SUBSET Requests /\ AdriftOwn'
  BY <1>2, DriftKeeps DEF Working
<1>4. CASE Store(Request(call[i])) /\ Fail(i, TRUE)
  <2>1. ApiOK' /\ StoredOwn'
    BY <1>1, <1>2, <1>3, <1>4, StoreKeeps DEF SyncInv, UploadsOK
  <2> QED
    BY <1>3, <1>4, <2>1, Failed
<1>5. CASE Fail(i, FALSE) /\ UNCHANGED api
  <2>1. ApiOK' /\ StoredOwn'
    BY <1>2, <1>3, <1>5, ApiStays
  <2> QED
    BY <1>3, <1>5, <2>1, Failed
<1> QED
  BY <1>4, <1>5

LEMMA PostListKeeps ==
  ASSUME SyncInv, PostList
  PROVE  UploadStepKeeps
<1>1. PICK i \in Calls :
        /\ call[i] # Idle /\ call[i].at \in Lists
        /\ \/ /\ Sends(call[i]) /\ Store(Request(call[i]))
              /\ GoOn(i, [call[i] EXCEPT !.at = After(call[i].at),
                                         !.done = @ \cup {call[i].at}], TRUE)
              /\ adrift' = adrift
           \/ /\ GoOn(i, [call[i] EXCEPT !.at = After(call[i].at)], FALSE)
              /\ UNCHANGED <<api, adrift>>
           \/ Sends(call[i]) /\ Unanswered(i)
        /\ UNCHANGED atWork
  BY DEF PostList
<1> DEFINE list == call[i].at
           at == After(list)
<1>2. /\ Working(i) /\ call[i] \in CallType
      /\ call[i].done \in SUBSET Lists /\ call[i].sheet \in Nat
  BY <1>1 DEF SyncInv, UploadsOK, CallType, Working
<1>3. /\ list \in Lists /\ at \in Lists \cup {"send"}
      /\ at \notin {"confirm", "ask", "sent"} /\ list \notin {"send", "sent"}
  BY <1>1, AfterIsAPlace
<1>4. ~call[i].mixed => \A p \in call[i].done : table[p] = call[i].sheet
  BY <1>1 DEF SyncInv, UnmixedStand, Stands
<1>5. UNCHANGED strayed
  BY <1>1, PageStays
<1>6. ASSUME NEW done \in SUBSET Lists, NEW wrote \in BOOLEAN,
             GoOn(i, [call[i] EXCEPT !.at = at, !.done = done], wrote),
             IF wrote THEN ApiOK' /\ StoredOwn' /\ done # {}
             ELSE UNCHANGED api /\ done = call[i].done,
             ~call[i].mixed => \A p \in done : table'[p] = call[i].sheet,
             UNCHANGED adrift
      PROVE  UploadStepKeeps
  <2> HIDE DEF at
  <2>0. [call[i] EXCEPT !.at = at, !.done = done] \in CallType
    BY <1>2, <1>3 DEF CallType
  <2> PICK c \in CallType : c = [call[i] EXCEPT !.at = at, !.done = done]
    BY <2>0
  <2>1. /\ c.at = at /\ c.done = done
        /\ c.snap = call[i].snap /\ c.sheet = call[i].sheet
        /\ c.mixed = call[i].mixed /\ c.overtaken = call[i].overtaken
    BY <1>2, <1>3 DEF CallType
  <2>2. GoOn(i, c, wrote)
    BY <1>6
  <2>3. ~c.mixed => Stands(c)'
    BY <1>3, <1>6, <2>1 DEF Stands
  <2>4. IF wrote THEN ApiOK' /\ StoredOwn' /\ HasWritten(c)
        ELSE UNCHANGED api /\ HasWritten(c) = HasWritten(call[i])
    BY <1>3, <1>6, <2>1 DEF HasWritten
  <2> QED
    BY <1>1, <1>2, <1>3, <1>6, <2>1, <2>2, <2>3, <2>4, GoneOn
<1>7. CASE /\ Sends(call[i]) /\ Store(Request(call[i]))
           /\ GoOn(i, [call[i] EXCEPT !.at = After(list), !.done = @ \cup {list}], TRUE)
           /\ adrift' = adrift
  <2>1. /\ Request(call[i]) \in Requests /\ Owned(Request(call[i]).snap)
        /\ Request(call[i]).to = list /\ Request(call[i]).sheet = call[i].sheet
    BY <1>1, <1>7, RequestFits DEF Request
  <2>2. adrift' \in SUBSET Requests
    BY <1>7 DEF SyncInv, UploadsOK, ApiOK
  <2>3. /\ ApiOK' /\ StoredOwn' /\ table'[list] = call[i].sheet
        /\ \A p \in Lists \ {list} : table'[p] = table[p]
    BY <1>3, <1>5, <1>7, <2>1, <2>2, StoreKeeps DEF SyncInv, UploadsOK
  <2>4. [call[i] EXCEPT !.at = After(list), !.done = @ \cup {list}]
          = [call[i] EXCEPT !.at = at, !.done = call[i].done \cup {list}]
    BY <1>2 DEF CallType
  <2>5. PICK done \in SUBSET Lists : done = call[i].done \cup {list}
    BY <1>2, <1>3
  <2>6. GoOn(i, [call[i] EXCEPT !.at = at, !.done = done], TRUE)
    BY <1>7, <2>4, <2>5
  <2>7. ~call[i].mixed => \A p \in done : table'[p] = call[i].sheet
    BY <1>4, <2>3, <2>5
  <2> HIDE DEF at
  <2> QED
    BY <1>6, <1>7, <2>3, <2>5, <2>6, <2>7
<1>8. CASE /\ GoOn(i, [call[i] EXCEPT !.at = After(list)], FALSE)
           /\ UNCHANGED <<api, adrift>>
  <2>1. [call[i] EXCEPT !.at = After(list)]
          = [call[i] EXCEPT !.at = at, !.done = call[i].done]
    BY <1>2 DEF CallType
  <2>2. GoOn(i, [call[i] EXCEPT !.at = at, !.done = call[i].done], FALSE)
    BY <1>8, <2>1
  <2>3. ~call[i].mixed => \A p \in call[i].done : table'[p] = call[i].sheet
    BY <1>4, <1>8 DEF api
  <2> HIDE DEF at
  <2> QED
    BY <1>2, <1>6, <1>8, <2>2, <2>3
<1>9. CASE Sends(call[i]) /\ Unanswered(i)
  BY <1>1, <1>2, <1>9, UnansweredKeeps DEF Unanswered
<1> QED
  BY <1>1, <1>7, <1>8, <1>9

LEMMA SendSnapshotKeeps ==
  ASSUME SyncInv, SendSnapshot
  PROVE  UploadStepKeeps
<1>1. PICK i \in Calls :
        /\ call[i] # Idle /\ call[i].at = "send"
        /\ \/ /\ Store(Request(call[i]))
              /\ GoOn(i, [call[i] EXCEPT !.at = "sent"], TRUE) /\ adrift' = adrift
           \/ Fail(i, FALSE) /\ (adrift' = adrift \/ Drift(call[i])) /\ UNCHANGED api
        /\ UNCHANGED atWork
  BY DEF SendSnapshot
<1>2. Working(i) /\ call[i] \in CallType /\ Sends(call[i])
  BY <1>1 DEF SyncInv, UploadsOK, Working, Sends
<1>3. CASE /\ Store(Request(call[i]))
           /\ GoOn(i, [call[i] EXCEPT !.at = "sent"], TRUE) /\ adrift' = adrift
  <2>0. [call[i] EXCEPT !.at = "sent"] \in CallType
    BY <1>2 DEF CallType
  <2> PICK c \in CallType : c = [call[i] EXCEPT !.at = "sent"]
    BY <2>0
  <2>1. /\ c.at = "sent" /\ c.done = call[i].done
        /\ c.snap = call[i].snap /\ c.sheet = call[i].sheet
        /\ c.mixed = call[i].mixed /\ c.overtaken = call[i].overtaken
    BY <1>2 DEF CallType
  <2>2. GoOn(i, c, TRUE)
    BY <1>3
  <2>3. /\ Request(call[i]) \in Requests /\ Owned(Request(call[i]).snap)
        /\ Request(call[i]).to = "send" /\ Request(call[i]).snap = call[i].snap
    BY <1>1, <1>2, RequestFits DEF Request
  <2>4. adrift' \in SUBSET Requests /\ UNCHANGED strayed
    BY <1>1, <1>3, PageStays DEF SyncInv, UploadsOK, ApiOK
  <2>5. ApiOK' /\ StoredOwn' /\ table' = table /\ stored'[call[i].snap.who] = call[i].snap
    BY <1>3, <2>3, <2>4, StoreKeeps DEF SyncInv, UploadsOK
  <2>6. ~c.mixed => Stands(c)'
    <3>1. ~call[i].mixed => \A p \in call[i].done : table[p] = call[i].sheet
      BY <1>1 DEF SyncInv, UnmixedStand, Stands
    <3> QED
      BY <2>1, <2>5, <3>1 DEF Stands
  <2>7. HasWritten(c) /\ c.at \notin {"confirm", "ask"}
    BY <2>1 DEF HasWritten
  <2> QED
    BY <1>1, <1>2, <1>3, <2>1, <2>2, <2>5, <2>6, <2>7, GoneOn
<1>4. CASE Fail(i, FALSE) /\ (adrift' = adrift \/ Drift(call[i])) /\ UNCHANGED api
  BY <1>1, <1>2, <1>4, UnansweredKeeps
<1> QED
  BY <1>1, <1>3, <1>4

\* An upload that is answered has written last, or others have mixed in; what it signs
\* is what is known by now, unless it was overtaken.
LEMMA AnsweredKeeps ==
  ASSUME SyncInv, Answered
  PROVE  UploadStepKeeps
<1>1. PICK i \in Calls :
        /\ call[i] # Idle /\ call[i].at = "sent"
        /\ \/ /\ signed' = [snap |-> call[i].snap, sheet |-> call[i].sheet]
              /\ kept' = call[i].done /\ disturbed' = call[i].mixed
              /\ missed' = (call[i].overtaken /\ missed)
              /\ replaced' = (call[i].overtaken /\ (replaced \/ signed' # signed))
              /\ call' = With(i, Idle, FALSE) /\ running' = FALSE
           \/ Fail(i, FALSE)
        /\ UNCHANGED <<atWork, api, adrift>>
  BY DEF Answered
<1> DEFINE c == call[i]
<1>2. /\ Working(i) /\ c \in CallType /\ c.snap \in Snapshots /\ c.sheet \in Nat
      /\ c.done \in SUBSET Lists /\ c.mixed \in BOOLEAN /\ c.overtaken \in BOOLEAN
      /\ UNCHANGED atWork
  BY <1>1 DEF SyncInv, UploadsOK, CallType, Working
<1>3. ApiOK' /\ StoredOwn' /\ AdriftOwn' /\ UNCHANGED api
  BY <1>1, <1>2, ApiStays, PageStays
  DEF SyncInv, UploadsOK, ApiOK, AdriftOwn, Owned, SnapOK
<1>4. CASE Fail(i, FALSE)
  BY <1>2, <1>3, <1>4, Failed
<1>5. CASE /\ signed' = [snap |-> c.snap, sheet |-> c.sheet]
           /\ kept' = c.done /\ disturbed' = c.mixed
           /\ missed' = (c.overtaken /\ missed)
           /\ replaced' = (c.overtaken /\ (replaced \/ signed' # signed))
           /\ call' = With(i, Idle, FALSE) /\ running' = FALSE
  <2>1. /\ signed' \in [snap : Snapshots, sheet : Nat] \cup {Idle}
        /\ kept' \in SUBSET Lists /\ disturbed' \in BOOLEAN
        /\ missed' \in BOOLEAN /\ replaced' \in BOOLEAN
    BY <1>2, <1>5 DEF SyncInv, UploadsOK
  <2>2. ~c.mixed => Stands(c)
    BY <1>1 DEF SyncInv, UnmixedStand
  <2>3. SignedStands'
    BY <1>1, <1>3, <1>5, <2>2 DEF SignedStands, Stands, api
  <2>4. /\ UNCHANGED <<state, timer>> /\ Uploadable' = Uploadable
        /\ Sign(state)' = Sign(state)
    BY <1>2, PageStays
  <2>5. ChangeIsPending'
    <3> SUFFICES ASSUME Outdated', ~timer', ~missed', ~replaced'
                 PROVE  Carried'
      BY DEF ChangeIsPending
    <3>1. Uploadable /\ Sign(state) # signed'
      BY <2>4 DEF Outdated, Uploadable
    <3>2. c.overtaken
      BY <1>2, <1>5, <2>4, <3>1 DEF SyncInv, UpToDate, Signature
    <3>3. signed' = signed /\ ~missed /\ ~replaced
      BY <1>5, <3>2
    <3>4. Carried
      BY <2>4, <3>1, <3>3 DEF SyncInv, ChangeIsPending, Outdated, Uploadable
    <3>5. PICK j \in Calls : /\ call[j] # Idle
                             /\ \/ call[j].at = "confirm"
                                \/ Sign(state) = [snap |-> call[j].snap, sheet |-> call[j].sheet]
      BY <3>4 DEF Carried
    <3>6. j # i
      BY <1>1, <1>5, <3>1, <3>5
    <3>7. Stays(call[j], call'[j])
      BY <1>5, <3>6, WithStays DEF SyncInv, UploadsOK
    <3> QED
      BY <2>4, <3>5, <3>7 DEF Carried, Stays
  <2> QED
    BY <1>2, <1>3, <1>5, <2>1, <2>3, <2>5, Ended
<1> QED
  BY <1>1, <1>4, <1>5

LEMMA ResendKeeps ==
  ASSUME SyncInv, Resend
  PROVE  UploadStepKeeps
<1>1. PICK i \in Calls : call[i] # Idle /\ Sends(call[i]) /\ Drift(call[i])
  BY DEF Resend
<1>2. /\ UNCHANGED <<running, signed, call, stored, table, kept, disturbed, missed, replaced>>
      /\ UNCHANGED atWork
  BY DEF Resend, api
<1>3. /\ StateOK(state)' /\ MarksOK' /\ MarksFollow'
      /\ UNCHANGED <<state, timer, strayed>>
      /\ Uploadable' = Uploadable /\ Sign(state)' = Sign(state)
  BY <1>2, PageStays
<1>4. adrift' \in SUBSET Requests /\ AdriftOwn'
  BY <1>1, <1>3, DriftKeeps
<1>5. UploadsOK'
  BY <1>2, <1>3, <1>4 DEF SyncInv, UploadsOK, ApiOK
<1>6. UploadsInv'
  BY <1>2, <1>3, <1>4
  DEF SyncInv, UploadsInv, CallsOwn, StoredOwn, Owned, SnapOK, NothingDone,
      UnmixedStand, Stands, SignedStands, Working, HasWritten
<1>7. PendingInv'
  BY <1>2, <1>3 DEF SyncInv, PendingInv, Working, UpToDate, Signature,
                    ChangeIsPending, Outdated, Carried
<1> QED
  BY <1>3, <1>5, <1>6, <1>7 DEF UploadStepKeeps

\* A request given up arrives behind everything that was written meanwhile.
LEMMA ArriveKeeps ==
  ASSUME SyncInv, Arrive
  PROVE  UploadStepKeeps
<1>1. PICK r \in adrift : adrift' = adrift \ {r} /\ Store(r)
  BY DEF Arrive
<1>2. /\ call' = Mixed /\ disturbed' = TRUE
      /\ UNCHANGED <<running, signed, kept, missed, replaced>> /\ UNCHANGED atWork
  BY DEF Arrive
<1>3. /\ StateOK(state)' /\ MarksOK' /\ MarksFollow'
      /\ UNCHANGED <<state, timer, strayed>>
      /\ Uploadable' = Uploadable /\ Sign(state)' = Sign(state)
  BY <1>2, PageStays
<1>4. r \in Requests /\ Owned(r.snap) /\ adrift' \in SUBSET Requests
  BY <1>1 DEF SyncInv, UploadsOK, ApiOK, AdriftOwn
<1>5. ApiOK' /\ StoredOwn'
  BY <1>1, <1>3, <1>4, StoreKeeps DEF SyncInv, UploadsOK
<1>6. AdriftOwn'
  BY <1>1, <1>3 DEF SyncInv, AdriftOwn, Owned, SnapOK
<1>7. \A j \in Calls : /\ Stays(call[j], call'[j])
                       /\ Working(j) /\ HasWritten(call[j]) => call'[j].mixed
                       /\ Working(j)' = Working(j)
  BY <1>2, MixedStays, StaysWorking DEF SyncInv, UploadsOK
<1>8. call' \in [Calls -> CallType \cup {Idle}]
  <2>1. \A j \in Calls : call'[j] \in CallType \cup {Idle}
    BY <1>7 DEF Stays
  <2> QED
    BY <1>2, <2>1 DEF Mixed
<1>9. UploadsOK'
  BY <1>2, <1>3, <1>5, <1>8 DEF SyncInv, UploadsOK
<1>10. CallsOwn' /\ NothingDone' /\ SignedStands'
  BY <1>2, <1>3, <1>7
  DEF SyncInv, CallsOwn, Owned, SnapOK, NothingDone, SignedStands, Stays
<1>11. UnmixedStand'
  <2> SUFFICES ASSUME NEW j \in Calls, call'[j] # Idle, ~call'[j].mixed
               PROVE  Stands(call[j])'
    BY DEF UnmixedStand
  <2>1. Stays(call[j], call'[j]) /\ call[j] # Idle
    BY <1>7 DEF Stays
  <2>2. call[j].done = {} /\ call[j].at # "sent"
    BY <1>7, <2>1 DEF Working, HasWritten, SyncInv, NothingDone
  <2> QED
    BY <2>1, <2>2 DEF Stands, Stays
<1>12. PendingInv'
  BY <1>2, <1>3, <1>7 DEF SyncInv, PendingInv, Working, UpToDate, Signature,
                          ChangeIsPending, Outdated, Carried, Stays
<1> QED
  BY <1>3, <1>5, <1>6, <1>9, <1>10, <1>11, <1>12 DEF UploadStepKeeps, UploadsInv

-----------------------------------------------------------------------------
(* Capture                                                                 *)

LEMMA ReceiveKeeps ==
  ASSUME SyncInv, Receive
  PROVE  SyncInv'
<1>1. PICK d \in {InitPacket, BridgeState} \cup {wire[n] : n \in DOMAIN wire} :
        /\ state' = Applied(state, d)
        /\ Refresh(state', mark)
        /\ hydration' = IF ~d.packet /\ HasCharacterData(state')
                        THEN [hydration EXCEPT !.timer = FALSE] ELSE hydration
        /\ wire' = IF d.who = Nobody THEN Tail(wire) ELSE wire
        /\ d.who = Nobody => d = Head(wire)
  BY DEF Receive
<1>2. UNCHANGED <<present, gear, sheet, cache, running, signed, call, stored, table,
                  adrift, cards, kept, disturbed, strayed>>
  BY DEF Receive, game, api
<1>3. GameOK /\ WireOK /\ UploadsOK /\ MarksOK /\ HydrationOK /\ StateOK(state)
  BY DEF SyncInv
<1>4. InitPacket.who = present /\ BridgeState.who = present /\ present # Nobody
  BY <1>3 DEF InitPacket, BridgeState, Packet, View, GameOK
<1>5. ViewOK(d)
  <2>1. ViewOK(InitPacket) /\ ViewOK(BridgeState)
    BY <1>3 DEF InitPacket, BridgeState, Packet, View, ViewOK, Views, GameOK, Someone, Loads
  <2>2. \A n \in DOMAIN wire : ViewOK(wire[n])
    BY <1>3 DEF WireOK, ViewOK
  <2> QED
    BY <2>1, <2>2
<1>6. Follows(state, state')
  BY <1>1, <1>3, <1>5, AppliedFollows
<1>7. /\ timer' = (timer \/ HasCharacterData(state'))
      /\ missed' = (missed /\ ~HasCharacterData(state'))
      /\ replaced' = (replaced /\ ~HasCharacterData(state'))
      /\ mark' = Rescheduled(mark, state'.char)
  BY <1>1 DEF Refresh
<1>8. StateOK(state)' /\ MarksOK' /\ MarksFollow'
  BY <1>2, <1>6, <1>7, MarksGoAlong
<1>9. UploadsOK' /\ UploadsInv' /\ PendingInv'
  BY <1>2, <1>7, <1>8, CaptureKeepsUploads DEF StateOK
<1>10. GameOK'
  BY <1>2, <1>3 DEF GameOK
<1>11. WireOK'
  <2>1. CASE d.who # Nobody
    BY <1>1, <1>3, <2>1 DEF WireOK
  <2>2. CASE d.who = Nobody
    <3>1. wire # <<>> /\ wire' = Tail(wire)
      BY <1>1, <1>3, <1>4, <2>2 DEF WireOK
    <3> QED
      BY <1>3, <3>1 DEF WireOK
  <2> QED
    BY <2>1, <2>2
<1>12. HydrationOK'
  BY <1>1, <1>3 DEF HydrationOK
<1> QED
  BY <1>8, <1>9, <1>10, <1>11, <1>12 DEF SyncInv, UploadsInv, PendingInv

LEMMA RequestKeeps ==
  ASSUME SyncInv, NEW reset \in BOOLEAN, RequestCharacterData(reset)
  PROVE  SyncInv'
<1> DEFINE clear == reset \/ present # hydration.id
           attempt == IF clear THEN 0 ELSE hydration.attempt
           before == IF clear THEN Blank ELSE state
           marks == [k \in Kinds |-> IF clear THEN Cleared(mark[k]) ELSE mark[k]]
<1>1. PICK s \in LiveThenCache(before) :
        /\ state' = s
        /\ hydration' =
             IF HasCharacterData(s) \/ attempt >= Retries
             THEN [id |-> present, timer |-> FALSE,
                   attempt |-> IF HasCharacterData(s) THEN 0 ELSE attempt]
             ELSE [id |-> present, timer |-> TRUE, attempt |-> attempt + 1]
        /\ Refresh(s, marks)
  BY DEF RequestCharacterData
<1>2. UNCHANGED <<present, gear, sheet, cache, wire, running, signed, call, stored, table,
                  adrift, cards, kept, disturbed, strayed>>
  BY DEF RequestCharacterData, game, api
<1>3. GameOK /\ WireOK /\ UploadsOK /\ MarksOK /\ HydrationOK /\ StateOK(state)
  BY DEF SyncInv
<1>4. StateOK(before)
  BY <1>3 DEF StateOK, States, Blank, OwnedBy, Loads, Someone
<1>5. Follows(before, s)
  BY <1>3, <1>4, PageFollows
<1>6. /\ timer' = (timer \/ HasCharacterData(s))
      /\ missed' = (missed /\ ~HasCharacterData(s))
      /\ replaced' = (replaced /\ ~HasCharacterData(s))
      /\ mark' = Rescheduled(marks, s.char)
  BY <1>1 DEF Refresh
<1>7. StateOK(state)' /\ MarksOK' /\ MarksFollow'
  <2>1. CASE clear
    <3>1. /\ s \in States /\ s.char \in Someone /\ s.own \in BOOLEAN /\ StateOK(s)
          /\ cards \in BOOLEAN /\ mark \in [Kinds -> Marks]
      BY <1>3, <1>5 DEF Follows, StateOK, States, MarksOK
    <3>2. ASSUME NEW k \in Kinds
          PROVE  mark'[k] \in Marks /\ MarkOK(mark'[k], s.char, s.own, cards)
      <4>1. Cleared(mark[k]) \in Marks /\ Cleared(mark[k]).shown = Nobody
        BY <3>1 DEF Cleared, Marks, Someone
      <4>2. mark'[k] = IF s.char = Nobody THEN Cleared(mark[k])
                       ELSE ScheduleRefresh(Cleared(mark[k]), s.char)
        BY <1>6, <2>1 DEF Rescheduled
      <4>3. CASE s.char = Nobody
        BY <4>1, <4>2, <4>3 DEF MarkOK
      <4>4. CASE s.char # Nobody
        BY <3>1, <4>1, <4>2, <4>4, RefreshFollows
      <4> QED
        BY <4>3, <4>4
    <3>3. mark' \in [Kinds -> Marks]
      BY <1>6, <3>2 DEF Rescheduled
    <3> QED
      BY <1>1, <1>2, <3>1, <3>2, <3>3 DEF MarksOK, MarksFollow, StateOK
  <2>2. CASE ~clear
    <3>1. marks = mark
      BY <1>3, <2>2 DEF MarksOK
    <3>2. mark' = Rescheduled(mark, s.char)
      BY <1>6, <3>1
    <3> QED
      BY <1>1, <1>2, <1>5, <2>2, <3>2, MarksGoAlong
  <2> QED
    BY <2>1, <2>2
<1>8. UploadsOK' /\ UploadsInv' /\ PendingInv'
  BY <1>1, <1>2, <1>6, <1>7, CaptureKeepsUploads DEF StateOK
<1>9. GameOK' /\ WireOK'
  BY <1>2, <1>3 DEF GameOK, WireOK
<1>10. HydrationOK'
  <2>1. attempt \in Nat /\ present \in Someone
    BY <1>3 DEF HydrationOK, GameOK, Someone
  <2> QED
    BY <1>1, <2>1 DEF HydrationOK
<1> QED
  BY <1>7, <1>8, <1>9, <1>10 DEF SyncInv, UploadsInv, PendingInv

-----------------------------------------------------------------------------
(* The game                                                                *)

LEMMA GameKeeps ==
  ASSUME SyncInv, Switch \/ ChangeGear \/ ChangeSheet
  PROVE  SyncInv'
<1>1. UNCHANGED <<state, hydration, uploads, cards, mark, strayed>>
  BY DEF Switch, ChangeGear, ChangeSheet
<1>2. UploadsOK' /\ UploadsInv' /\ PendingInv' /\ StateOK(state)'
  BY <1>1, UploadsStay
<1>3. MarksOK' /\ MarksFollow' /\ HydrationOK'
  BY <1>1 DEF SyncInv, MarksOK, MarksFollow, HydrationOK
<1>4. GameOK /\ WireOK
  BY DEF SyncInv
<1>5. GameOK'
  <2>1. CASE Switch
    BY <1>4, <2>1 DEF Switch, GameOK, Loads
  <2>2. CASE ChangeGear
    BY <1>4, <2>2 DEF ChangeGear, GameOK, Loads
  <2>3. CASE ChangeSheet
    BY <1>4, <2>3 DEF ChangeSheet, GameOK, Loads
  <2> QED
    BY <2>1, <2>2, <2>3
<1>6. ASSUME NEW d \in Views, d.who = Nobody, Post(d)
      PROVE  WireOK'
  BY <1>4, <1>6 DEF WireOK, Post
<1>7. WireOK'
  <2>1. CASE Switch
    BY <1>4, <2>1 DEF Switch, WireOK
  <2>2. CASE ChangeGear
    <3>1. LoadoutPacket \in Views /\ LoadoutPacket.who = Nobody
      BY <1>4, <1>5 DEF LoadoutPacket, Packet, View, Views, GameOK, Loads, Someone
    <3> QED
      BY <1>6, <2>2, <3>1 DEF ChangeGear
  <2>3. CASE ChangeSheet
    <3>1. GuildPacket \in Views /\ GuildPacket.who = Nobody
      BY <1>5 DEF GuildPacket, Packet, View, Views, GameOK, Someone
    <3> QED
      BY <1>6, <2>3, <3>1 DEF ChangeSheet
  <2> QED
    BY <2>1, <2>2, <2>3
<1> QED
  BY <1>2, <1>3, <1>5, <1>7 DEF SyncInv, UploadsInv, PendingInv

-----------------------------------------------------------------------------
(* Highlights                                                              *)

LEMMA MarkStepsKeep ==
  ASSUME SyncInv, MarkNext
  PROVE  SyncInv'
<1>1. UNCHANGED <<present, gear, sheet, cache, state, hydration, wire, uploads, strayed>>
  BY DEF MarkNext, ShowCards, Observe, Look, Fetch, Fetched, Expire, marksOnly, game
<1>2. UploadsOK' /\ UploadsInv' /\ PendingInv' /\ StateOK(state)'
  BY <1>1, UploadsStay
<1>3. GameOK' /\ WireOK' /\ HydrationOK'
  BY <1>1 DEF SyncInv, GameOK, WireOK, HydrationOK
<1>4. /\ cards \in BOOLEAN /\ mark \in [Kinds -> Marks]
      /\ state.char \in Someone /\ state.own \in BOOLEAN
      /\ \A k \in Kinds : mark[k] \in Marks /\ MarkOK(mark[k], state.char, state.own, cards)
  BY DEF SyncInv, MarksOK, MarksFollow, StateOK, States
<1>5. MarksOK' /\ MarksFollow'
  <2>1. CASE ShowCards
    <3>1. ASSUME NEW k \in Kinds
          PROVE  mark'[k] \in Marks /\ MarkOK(mark'[k], state.char, state.own, cards')
      <4>1. CASE cards
        <5>1. mark'[k] = [mark[k] EXCEPT !.shown = Nobody]
          BY <2>1, <4>1 DEF ShowCards
        <5> QED
          BY <1>4, <5>1 DEF Marks, MarkOK, Someone
      <4>2. CASE ~cards
        <5>1. mark'[k] = mark[k]
          BY <2>1, <4>2 DEF ShowCards
        <5> QED
          BY <1>4, <4>2, <5>1 DEF MarkOK
      <4> QED
        BY <4>1, <4>2
    <3> QED
      BY <1>1, <1>4, <2>1, <3>1 DEF ShowCards, MarksOK, MarksFollow
  <2>2. CASE Observe \/ Look
    <3>1. ASSUME NEW k \in Kinds
          PROVE  mark'[k] \in Marks /\ MarkOK(mark'[k], state.char, state.own, cards)
      <4>1. \/ mark'[k] = ScheduleRefresh(mark[k], state.char)
            \/ mark[k].doc /\ mark'[k] = Rendered(mark[k], state.char)
            \/ mark'[k] = mark[k]
        BY <2>2 DEF Observe, Look
      <4>2. CASE mark'[k] = ScheduleRefresh(mark[k], state.char)
        BY <1>4, <4>2, RefreshFollows DEF MarkOK
      <4>3. CASE mark[k].doc /\ mark'[k] = Rendered(mark[k], state.char)
        <5>1. mark'[k] = [mark[k] EXCEPT !.shown = IF cards THEN state.char ELSE Nobody]
          BY <4>3 DEF Rendered
        <5>2. mark'[k] \in Marks /\ mark'[k].doc
          BY <1>4, <4>3, <5>1 DEF Marks, Someone
        <5>3. mark'[k].shown = IF cards THEN state.char ELSE Nobody
          BY <1>4, <5>1 DEF Marks
        <5> QED
          BY <5>2, <5>3 DEF MarkOK
      <4>4. CASE mark'[k] = mark[k]
        BY <1>4, <4>4
      <4> QED
        BY <4>1, <4>2, <4>3, <4>4
    <3>2. mark' = [k \in Kinds |-> mark'[k]] /\ UNCHANGED cards
      BY <2>2 DEF Observe, Look, marksOnly
    <3> QED
      BY <1>1, <3>1, <3>2, <1>4 DEF MarksOK, MarksFollow
  <2>3. ASSUME NEW k \in Kinds, Fetch(k) \/ Fetched(k) \/ Expire(k)
        PROVE  MarksOK' /\ MarksFollow'
    <3>1. UNCHANGED cards
      BY <2>3 DEF Fetch, Fetched, Expire, marksOnly
    <3>2. ASSUME NEW r \in Marks, MarkOK(r, state.char, state.own, cards),
                 mark' = [mark EXCEPT ![k] = r]
          PROVE  MarksOK' /\ MarksFollow'
      BY <1>1, <1>4, <3>1, <3>2 DEF MarksOK, MarksFollow
    <3>3. CASE Fetch(k)
      <4> DEFINE m == [mark[k] EXCEPT !.due = FALSE]
                 r == IF state.char = Nobody \/ ~state.own \/ m.fetching THEN m
                      ELSE IF AttemptFresh(m, state.char)
                           THEN IF m.doc /\ cards THEN Rendered(m, state.char) ELSE m
                           ELSE [m EXCEPT !.fetching = TRUE, !.asked = state.char]
      <4>1. mark' = [mark EXCEPT ![k] = r]
        BY <3>3 DEF Fetch
      <4>2. /\ m \in Marks /\ m.shown = mark[k].shown /\ m.doc = mark[k].doc
            /\ m.fetching = mark[k].fetching
        BY <1>4 DEF Marks
      <4> HIDE DEF m
      <4>3. m.shown # Nobody => m.doc /\ cards /\ state.char # Nobody
        BY <1>4, <4>2 DEF MarkOK
      <4>4. Rendered(m, state.char) = [m EXCEPT !.shown = IF cards THEN state.char ELSE Nobody]
        BY DEF Rendered
      <4>5. r \in Marks /\ MarkOK(r, state.char, state.own, cards)
        BY <1>4, <4>2, <4>3, <4>4 DEF Marks, MarkOK
      <4> HIDE DEF r
      <4> QED
        BY <3>2, <4>1, <4>5
    <3>4. CASE Fetched(k)
      <4> DEFINE m == [mark[k] EXCEPT !.fetching = FALSE, !.fresh = TRUE]
                 r1 == Rendered([m EXCEPT !.doc = TRUE], state.char)
                 r2 == [m EXCEPT !.doc = FALSE, !.shown = Nobody]
      <4>1. mark' = [mark EXCEPT ![k] = r1] \/ mark' = [mark EXCEPT ![k] = r2]
        BY <3>4 DEF Fetched
      <4>2. m \in Marks
        BY <1>4 DEF Marks
      <4> HIDE DEF m
      <4>3. /\ r1 \in Marks /\ r1.doc
            /\ r1.shown = (IF cards THEN state.char ELSE Nobody)
        BY <1>4, <4>2 DEF Rendered, Marks, Someone
      <4>4. r2 \in Marks /\ r2.shown = Nobody
        BY <4>2 DEF Marks, Someone
      <4>5. /\ MarkOK(r1, state.char, state.own, cards)
            /\ MarkOK(r2, state.char, state.own, cards)
        BY <4>3, <4>4 DEF MarkOK
      <4> HIDE DEF r1, r2
      <4> QED
        BY <3>2, <4>1, <4>3, <4>4, <4>5
    <3>5. CASE Expire(k)
      <4> DEFINE r == [mark[k] EXCEPT !.fresh = FALSE]
      <4>1. mark' = [mark EXCEPT ![k] = r]
        BY <3>5 DEF Expire
      <4>2. r \in Marks /\ MarkOK(r, state.char, state.own, cards)
        BY <1>4 DEF Marks, MarkOK
      <4> HIDE DEF r
      <4> QED
        BY <3>2, <4>1, <4>2
    <3> QED
      BY <2>3, <3>3, <3>4, <3>5
  <2> QED
    BY <2>1, <2>2, <2>3 DEF MarkNext
<1> QED
  BY <1>2, <1>3, <1>5 DEF SyncInv, UploadsInv, PendingInv

-----------------------------------------------------------------------------
(* The invariant                                                           *)

LEMMA InitInv ==
  ASSUME SyncInit
  PROVE  SyncInv
<1>1. GameOK
  BY DEF SyncInit, GameOK, Loads
<1>2. WireOK /\ HydrationOK
  BY DEF SyncInit, WireOK, HydrationOK, Someone
<1>3. MarksOK /\ MarksFollow
  BY DEF SyncInit, MarksOK, MarksFollow, Fresh, Marks, MarkOK, Someone
<1>4. UploadsOK
  BY DEF SyncInit, UploadsOK, ApiOK
<1>5. StateOK(state)
  BY DEF SyncInit, StateOK, States, Blank, OwnedBy, Loads, Someone
<1>6. CallsOwn /\ StoredOwn /\ AdriftOwn /\ NothingDone /\ UnmixedStand /\ SignedStands
  BY DEF SyncInit, CallsOwn, StoredOwn, AdriftOwn, NothingDone, UnmixedStand, SignedStands
<1>7. UpToDate /\ ChangeIsPending
  BY DEF SyncInit, UpToDate, Working, ChangeIsPending, Outdated, Blank
<1> QED
  BY <1>1, <1>2, <1>3, <1>4, <1>5, <1>6, <1>7 DEF SyncInv

LEMMA NextInv ==
  ASSUME SyncInv, [SyncNext]_syncVars
  PROVE  SyncInv'
<1>1. CASE CaptureNext
  <2>1. CASE Switch \/ ChangeGear \/ ChangeSheet
    BY <2>1, GameKeeps
  <2>2. CASE Receive
    BY <2>2, ReceiveKeeps
  <2>3. CASE WatchCharacter \/ RetryHydration \/ BecomeVisible
    BY <2>3, RequestKeeps DEF WatchCharacter, RetryHydration, BecomeVisible
  <2> QED
    BY <1>1, <2>1, <2>2, <2>3 DEF CaptureNext
<1>2. CASE UploadNext
  <2>1. UploadStepKeeps
    <3>1. CASE AutomaticUpload \/ PressUpload
      BY <3>1, UploadKeeps DEF AutomaticUpload, PressUpload
    <3>2. CASE Confirm \/ Ask \/ PostList \/ SendSnapshot
      BY <3>2, ConfirmKeeps, AskKeeps, PostListKeeps, SendSnapshotKeeps
    <3>3. CASE Answered \/ Resend \/ Arrive
      BY <3>3, AnsweredKeeps, ResendKeeps, ArriveKeeps
    <3> QED
      BY <1>2, <3>1, <3>2, <3>3 DEF UploadNext
  <2>2. UNCHANGED <<present, gear, sheet, cache, wire, hydration>>
    BY <1>2 DEF UploadNext, AutomaticUpload, PressUpload, Upload, Confirm, Ask, PostList,
                SendSnapshot, Answered, Resend, Arrive, atWork, game
  <2>3. GameOK' /\ WireOK' /\ HydrationOK'
    BY <2>2 DEF SyncInv, GameOK, WireOK, HydrationOK
  <2> QED
    BY <2>1, <2>3 DEF UploadStepKeeps, SyncInv, UploadsInv, PendingInv
<1>3. CASE MarkNext
  BY <1>3, MarkStepsKeep
<1>4. CASE UNCHANGED syncVars
  <2>1. UNCHANGED <<present, gear, sheet, cache, state, hydration, wire, uploads, cards,
                    mark, strayed>>
    BY <1>4 DEF syncVars, game
  <2>2. UploadsOK' /\ UploadsInv' /\ PendingInv' /\ StateOK(state)'
    BY <2>1, UploadsStay
  <2>3. GameOK' /\ WireOK' /\ HydrationOK' /\ MarksOK' /\ MarksFollow'
    BY <2>1 DEF SyncInv, GameOK, WireOK, HydrationOK, MarksOK, MarksFollow
  <2> QED
    BY <2>2, <2>3 DEF SyncInv, UploadsInv, PendingInv
<1> QED
  BY <1>1, <1>2, <1>3, <1>4 DEF SyncNext

\* The page's memory, the uploads, the API and the marks fit together at every step.
THEOREM SyncInvHolds == SyncSpec => []SyncInv
BY InitInv, NextInv, PTL DEF SyncSpec

-----------------------------------------------------------------------------
(* The properties                                                          *)

\* Nothing is stored under a member's name that is another's, unless it named
\* nobody: upload() and its callers in wi-guild-trial-sync.user.js.
THEOREM GearIsOwnHolds == SyncSpec => []GearIsOwn
<1>1. SyncInv => GearIsOwn
  BY DEF SyncInv, StoredOwn, SnapOK, OwnedBy, GearIsOwn
<1> QED
  BY <1>1, SyncInvHolds, PTL

\* What was signed is what the API holds once nobody is at work, and a change that is
\* not signed is due, carried, or stopped by a failure or by an overtaken upload's
\* signature: automaticSync and upload(), for any number of uploads that overlap and
\* of requests that arrive late.
THEOREM UploadsKeepUpHolds == SyncSpec => []UploadsKeepUp
<1>1. SyncInv => SkippedIsStored
  BY DEF SyncInv, SignedStands, SkippedIsStored
<1>2. SyncInv => UploadsKeepUp
  BY <1>1 DEF SyncInv, UploadsKeepUp
<1> QED
  BY <1>2, SyncInvHolds, PTL

\* Another character's highlights are about to go, or the guild is not confirmed:
\* the schedule and refresh functions of both assignments.
THEOREM HighlightIsFollowedHolds == SyncSpec => []HighlightIsFollowed
<1>1. SyncInv => HighlightIsFollowed
  BY DEF SyncInv, MarksFollow, MarkOK, HighlightIsFollowed
<1> QED
  BY <1>1, SyncInvHolds, PTL
=============================================================================
