------------------------- MODULE GuildRosterProofs -------------------------
(***************************************************************************)
(* The invariants of the membership tables, for any names, players,        *)
(* foldings, reporter lists and size of the table.                         *)
(*                                                                         *)
(* The inductive invariant is RosterTypeOK with three facts that each step *)
(* preserves on its own: bindings are of active members, the table is the  *)
(* last roster and what was added since, and the reporter of that roster   *)
(* is in it.  What the other properties say of active rows follows from    *)
(* the second, because a stored roster is unambiguous.                     *)
(*                                                                         *)
(* Snapshots leave the tables alone, so that what holds of them holds with *)
(* uploads in flight too; of the rows of snapshots the invariant needs     *)
(* nothing but their types.                                                *)
(*                                                                         *)
(* The weekly tables share no variable with these; their invariant is at   *)
(* the end.                                                                *)
(***************************************************************************)
EXTENDS MemberSnapshots, WeeklyTrials, FiniteSetTheorems, TLAPS

ReporterListed == reporter # None => reporter \in DOMAIN roster

(* Uploaded names that fold differently were taken for different rows. *)
RosterInv ==
  /\ RosterTypeOK
  /\ BindingsAreActive
  /\ RosterIsCurrent
  /\ ReporterListed
  /\ RegisteredOnce

-----------------------------------------------------------------------------
LEMMA NobodyIsEmpty ==
  /\ DOMAIN Nobody = {}
  /\ Nobody \in Rosters
  /\ Nobody \in UNION {[S -> Registration] : S \in SUBSET Names}
<1>1. DOMAIN Nobody = {} /\ Nobody \in [{} -> Players]
      /\ Nobody \in [{} -> Registration]
  BY DEF Nobody
<1>2. Unambiguous(Nobody)
  BY <1>1 DEF Unambiguous
<1>3. {} \in SUBSET Names
  OBVIOUS
<1> QED
  BY <1>1, <1>2, <1>3 DEF Rosters

LEMMA RosterIsFunction ==
  ASSUME NEW r \in Rosters
  PROVE  /\ DOMAIN r \subseteq Names
         /\ r \in [DOMAIN r -> Players]
         /\ Unambiguous(r)
BY DEF Rosters

LEMMA InitHolds == RosterInit => RosterInv
<1> SUFFICES ASSUME RosterInit PROVE RosterInv
  OBVIOUS
<1>1. RosterTypeOK
  BY NobodyIsEmpty, NamesAssumption DEF RosterInit, RosterTypeOK
<1>2. BindingsAreActive /\ RosterIsCurrent /\ ReporterListed /\ RegisteredOnce
  BY NobodyIsEmpty
  DEF RosterInit, BindingsAreActive, RosterIsCurrent, ReporterListed,
      RegisteredOnce
<1> QED
  BY <1>1, <1>2 DEF RosterInv

LEMMA RestartKeeps == RosterInv /\ Restart => RosterInv'
<1> SUFFICES ASSUME RosterInv, Restart PROVE RosterInv'
  OBVIOUS
<1> PICK R \in ReporterLists :
      /\ reporters' = R
      /\ known' = known \cup R
      /\ active' = active \cup (R \ known)
      /\ added' = added \cup (R \ known)
      /\ UNCHANGED <<player, token, bound, registered, roster, reporter>>
  BY DEF Restart, Upserted, Missing
<1> USE DEF RosterInv
<1>1. RosterTypeOK'
  BY NamesAssumption DEF RosterTypeOK
<1>2. BindingsAreActive'
  BY DEF BindingsAreActive
<1>3. RosterIsCurrent'
  BY DEF RosterIsCurrent
<1>4. ReporterListed' /\ RegisteredOnce'
  BY DEF ReporterListed, RegisteredOnce
<1> QED
  BY <1>1, <1>2, <1>3, <1>4

LEMMA SyncKeeps == RosterInv /\ SyncRoster => RosterInv'
<1> SUFFICES ASSUME RosterInv, SyncRoster PROVE RosterInv'
  OBVIOUS
<1> DEFINE StoredRows(r, who) ==
      /\ active' = DOMAIN r
      /\ known' = known \cup DOMAIN r
      /\ player' = [m \in Names |-> PlayerAfter(r, m)]
      /\ token' = [m \in Names |-> TokenAfter(m)]
      /\ bound' = bound \cap DOMAIN r
      /\ roster' = r /\ reporter' = who
      /\ added' = {}
      /\ UNCHANGED <<reporters, registered>>
<1> PICK r \in Rosters : \E w \in DOMAIN r \cap reporters : StoredRows(r, w)
  BY DEF SyncRoster, Upserted, BindingsLeft
<1> PICK who \in DOMAIN r \cap reporters : StoredRows(r, who)
  OBVIOUS
<1> HIDE DEF StoredRows
<1>0. StoredRows(r, who)
  OBVIOUS
<1> USE <1>0, RosterIsFunction DEF RosterInv, StoredRows
<1>1. RosterTypeOK'
  <2>1. player' \in [Names -> Players \cup {None}]
    BY DEF PlayerAfter, RosterTypeOK
  <2>2. token' \in [Names -> Tokens \cup {Sealed}]
    BY DEF TokenAfter, RosterTypeOK
  <2>3. known' \subseteq Names /\ active' \subseteq known' /\ bound' \subseteq known'
    BY DEF RosterTypeOK
  <2>4. reporter' \in Names
    OBVIOUS
  <2> QED
    BY <2>1, <2>2, <2>3, <2>4 DEF RosterTypeOK
<1>2. BindingsAreActive'
  BY DEF BindingsAreActive
<1>3. RosterIsCurrent'
  <2>1. \A m \in DOMAIN r : m \in Names /\ player'[m] = r[m]
    BY DEF PlayerAfter
  <2> QED
    BY <2>1 DEF RosterIsCurrent
<1>4. ReporterListed' /\ RegisteredOnce'
  BY DEF ReporterListed, RegisteredOnce
<1> QED
  BY <1>1, <1>2, <1>3, <1>4

LEMMA PutMemberKeeps == RosterInv /\ PutMember => RosterInv'
<1> SUFFICES ASSUME RosterInv, PutMember PROVE RosterInv'
  OBVIOUS
<1> PICK m \in Names, t \in Tokens :
      /\ known' = known \cup {m}
      /\ active' = active \cup {m}
      /\ token' = [token EXCEPT ![m] = t]
      /\ added' = added \cup {m}
      /\ UNCHANGED <<reporters, player, bound, registered, roster, reporter>>
  BY DEF PutMember, Upserted
<1> USE DEF RosterInv
<1>1. RosterTypeOK'
  BY DEF RosterTypeOK
<1>2. BindingsAreActive' /\ RosterIsCurrent'
  BY DEF BindingsAreActive, RosterIsCurrent
<1>3. ReporterListed' /\ RegisteredOnce'
  BY DEF ReporterListed, RegisteredOnce
<1> QED
  BY <1>1, <1>2, <1>3

(* Both handlers of bindings leave the members alone. *)
LEMMA BindingsKeep == RosterInv /\ (PutBinding \/ DeleteBinding) => RosterInv'
<1> SUFFICES ASSUME RosterInv, PutBinding \/ DeleteBinding PROVE RosterInv'
  OBVIOUS
<1>1. /\ UNCHANGED <<reporters, known, active, player, token, registered,
                     roster, reporter, added>>
      /\ bound' \subseteq active
  BY DEF RosterInv, BindingsAreActive, PutBinding, Bindable, DeleteBinding
<1>2. RosterTypeOK'
  BY <1>1 DEF RosterInv, RosterTypeOK
<1>3. BindingsAreActive' /\ RosterIsCurrent' /\ ReporterListed' /\ RegisteredOnce'
  BY <1>1
  DEF RosterInv, BindingsAreActive, RosterIsCurrent, ReporterListed,
      RegisteredOnce
<1> QED
  BY <1>2, <1>3 DEF RosterInv

LEMMA RegistrationsKeep == RosterInv /\ PostRegistrations => RosterInv'
<1> SUFFICES ASSUME RosterInv, PostRegistrations PROVE RosterInv'
  OBVIOUS
<1> PICK S \in Uploads : \E ids \in [S -> Players], rows \in [S -> active] :
           /\ \A n \in S : Fits(n, ids[n], rows[n])
           /\ registered' = [n \in S |-> [member |-> rows[n], id |-> ids[n]]]
  BY DEF PostRegistrations
<1> PICK ids \in [S -> Players], rows \in [S -> active] :
           /\ \A n \in S : Fits(n, ids[n], rows[n])
           /\ registered' = [n \in S |-> [member |-> rows[n], id |-> ids[n]]]
  OBVIOUS
<1>0. UNCHANGED <<reporters, known, active, player, token, bound,
                  roster, reporter, added>>
  BY DEF PostRegistrations
<1>1. S \in SUBSET Names /\ \A m, n \in S : Fold[m] = Fold[n] => m = n
  BY DEF Uploads
<1>2. registered' \in [S -> Registration]
  <2>1. \A n \in S : rows[n] \in Names /\ ids[n] \in Players
    BY DEF RosterInv, RosterTypeOK
  <2> QED
    BY <2>1 DEF Registration
<1>3. RosterTypeOK'
  BY <1>0, <1>1, <1>2 DEF RosterInv, RosterTypeOK
<1>4. RegisteredOnce'
  <2> SUFFICES ASSUME NEW m \in S, NEW n \in S, rows[m] = rows[n]
               PROVE  m = n
    BY DEF RegisteredOnce
  <2>1. Lower[m] = Lower[n]
    BY DEF Fits
  <2>2. m \in Names /\ n \in Names
    BY <1>1
  <2>3. Fold[m] = Fold[n]
    BY <2>1, <2>2, NamesAssumption
  <2> QED
    BY <1>1, <2>3
<1>5. BindingsAreActive' /\ RosterIsCurrent' /\ ReporterListed'
  BY <1>0
  DEF RosterInv, BindingsAreActive, RosterIsCurrent, ReporterListed
<1> QED
  BY <1>3, <1>4, <1>5 DEF RosterInv

(* Every reachable state satisfies the inductive invariant. *)
THEOREM InvHolds == RosterSpec => []RosterInv
<1>1. RosterInv /\ [RosterNext]_rosterVars => RosterInv'
  <2> SUFFICES ASSUME RosterInv, [RosterNext]_rosterVars PROVE RosterInv'
    OBVIOUS
  <2>1. CASE RosterNext
    BY <2>1, RestartKeeps, SyncKeeps, PutMemberKeeps, BindingsKeep,
       RegistrationsKeep
    DEF RosterNext
  <2>2. CASE UNCHANGED rosterVars
    BY <2>2
    DEF rosterVars, RosterInv, RosterTypeOK, BindingsAreActive,
        RosterIsCurrent, ReporterListed, RegisteredOnce
  <2> QED
    BY <2>1, <2>2
<1> QED
  BY <1>1, InitHolds, PTL DEF RosterSpec

-----------------------------------------------------------------------------
(* The tables keep their types: rows of a roster or of the admin only. *)
THEOREM TypeCorrect == RosterSpec => []RosterTypeOK
BY InvHolds, PTL DEF RosterInv

(* No binding outlives the membership it stands for. *)
THEOREM BindingsAreActiveHolds == RosterSpec => []BindingsAreActive
BY InvHolds, PTL DEF RosterInv

(* The table is the last roster and what was added since. *)
THEOREM RosterIsCurrentHolds == RosterSpec => []RosterIsCurrent
BY InvHolds, PTL DEF RosterInv

(* An upload's entries are stored for different members. *)
THEOREM RegisteredOnceHolds == RosterSpec => []RegisteredOnce
BY InvHolds, PTL DEF RosterInv

(* The reporter's following uploads find an active row with the id sent. *)
THEOREM ReporterStaysActiveHolds == RosterSpec => []ReporterStaysActive
<1>1. RosterInv => ReporterStaysActive
  BY DEF RosterInv, ReporterListed, RosterIsCurrent, ReporterStaysActive
<1> QED
  BY <1>1, InvHolds, PTL

(* A row of the last roster has the id the roster gave it, which no other  *)
(* of its rows has; so two rows that clash are not both of that roster.    *)
LEMMA ClashLemma == RosterInv => ClashesAreAdded
<1> SUFFICES ASSUME RosterInv,
                    NEW m \in active, NEW n \in active,
                    m \notin added, n \notin added,
                    Fold[m] = Fold[n] \/ player[m] = player[n]
             PROVE  m = n
  BY DEF ClashesAreAdded
<1>1. m \in DOMAIN roster /\ n \in DOMAIN roster
  BY DEF RosterInv, RosterIsCurrent
<1>2. player[m] = roster[m] /\ player[n] = roster[n]
  BY <1>1 DEF RosterInv, RosterIsCurrent
<1>3. Unambiguous(roster)
  BY RosterIsFunction DEF RosterInv, RosterTypeOK
<1> QED
  BY <1>1, <1>2, <1>3 DEF Unambiguous

(* Names and ids are unique among the rows that a roster brought. *)
THEOREM ClashesAreAddedHolds == RosterSpec => []ClashesAreAdded
BY ClashLemma, InvHolds, PTL

(* A row without an id was added by hand, so an entry taken for a row of   *)
(* the roster carries that row's id; two entries of one player would need  *)
(* two rows of the roster with one id.                                     *)
THEOREM PlayerRegisteredOnceHolds == RosterSpec => PlayerRegisteredOnce
<1> DEFINE Once ==
      registered' # registered =>
        \A m, n \in DOMAIN registered' :
          m # n /\ registered'[m].id = registered'[n].id =>
            {registered'[m].member, registered'[n].member} \cap added # {}
<1>1. ASSUME RosterInv, RosterInv', PostRegistrations PROVE Once
  <2> PICK S \in Uploads : \E ids \in [S -> Players], rows \in [S -> active] :
             /\ \A n \in S : Fits(n, ids[n], rows[n])
             /\ registered' = [n \in S |-> [member |-> rows[n], id |-> ids[n]]]
    BY <1>1 DEF PostRegistrations
  <2> PICK ids \in [S -> Players], rows \in [S -> active] :
             /\ \A n \in S : Fits(n, ids[n], rows[n])
             /\ registered' = [n \in S |-> [member |-> rows[n], id |-> ids[n]]]
    OBVIOUS
  <2> SUFFICES ASSUME NEW m \in S, NEW n \in S, m # n, ids[m] = ids[n],
                      rows[m] \notin added, rows[n] \notin added
               PROVE  FALSE
    OBVIOUS
  <2>1. rows[m] # rows[n]
    BY <1>1 DEF RosterInv, RegisteredOnce
  <2>2. \A k \in {m, n} : player[rows[k]] = ids[k]
    <3> TAKE k \in {m, n}
    <3>1. rows[k] \in DOMAIN roster
      BY <1>1 DEF RosterInv, RosterIsCurrent
    <3>2. player[rows[k]] = roster[rows[k]]
      BY <1>1, <3>1 DEF RosterInv, RosterIsCurrent
    <3>3. roster[rows[k]] \in Players
      BY <1>1, <3>1, RosterIsFunction DEF RosterInv, RosterTypeOK
    <3> QED
      BY <3>2, <3>3, NamesAssumption DEF Fits
  <2>3. ids[m] # None
    BY NamesAssumption
  <2> QED
    BY <1>1, <2>1, <2>2, <2>3, ClashLemma DEF ClashesAreAdded
<1>2. ASSUME RosterInv, RosterInv', [RosterNext]_rosterVars PROVE Once
  <2>1. CASE registered' = registered
    BY <2>1
  <2>2. CASE PostRegistrations
    BY <1>1, <1>2, <2>2
  <2> QED
    BY <1>2, <2>1, <2>2
    DEF rosterVars, RosterNext, Restart, SyncRoster, PutMember, PutBinding,
        DeleteBinding
<1>3. RosterInv /\ RosterInv' /\ [RosterNext]_rosterVars => [Once]_rosterVars
  BY <1>2
<1> QED
  BY <1>3, InvHolds, PTL DEF RosterSpec, PlayerRegisteredOnce

(* Rosters keep the tokens of rows that exist; only the admin's PUT sets   *)
(* one.                                                                    *)
THEOREM TokenKeptHolds == RosterSpec => TokenKept
<1> DEFINE Kept == \A m \in known : token'[m] # token[m] => m \in added'
<1>1. ASSUME RosterInv, [RosterNext]_rosterVars PROVE Kept
  <2> SUFFICES ASSUME NEW m \in known, token'[m] # token[m]
               PROVE  m \in added'
    OBVIOUS
  <2>1. m \in Names /\ token \in [Names -> Tokens \cup {Sealed}]
    BY <1>1 DEF RosterInv, RosterTypeOK
  <2>2. CASE SyncRoster
    BY <2>1, <2>2 DEF SyncRoster, TokenAfter
  <2>3. CASE PutMember
    BY <2>1, <2>3 DEF PutMember
  <2>4. CASE UNCHANGED token
    BY <2>4
  <2> QED
    BY <1>1, <2>2, <2>3, <2>4
    DEF rosterVars, RosterNext, Restart, PutBinding, DeleteBinding,
        PostRegistrations
<1>2. RosterInv /\ [RosterNext]_rosterVars => [Kept]_rosterVars
  BY <1>1
<1> QED
  BY <1>2, InvHolds, PTL DEF RosterSpec, TokenKept

(* The member table holds what bindings, uploads and commands rely on.     *)
THEOREM RosterIsSoundHolds == RosterSpec => []RosterIsSound
<1>1. BindingsAreActive /\ RosterIsCurrent /\ ReporterStaysActive => RosterIsSound
  BY DEF RosterIsSound
<1> QED
  BY <1>1, BindingsAreActiveHolds, RosterIsCurrentHolds, ReporterStaysActiveHolds, PTL

-----------------------------------------------------------------------------
(* Uploads beside the tables. *)

(* An upload is no step of the tables, whenever it is stored, and every    *)
(* other request is one: the API with snapshots implements GuildRoster, so *)
(* that its theorems hold for it.                                          *)
THEOREM SnapshotsKeepRosters == SnapSpec => RosterSpec
<1>1. SnapInit => RosterInit
  BY DEF SnapInit
<1>2. [SnapNext]_snapVars => [RosterNext]_rosterVars
  <2> SUFFICES ASSUME [SnapNext]_snapVars PROVE RosterNext \/ UNCHANGED rosterVars
    OBVIOUS
  <2>1. CASE Begin \/ BeginWithToken \/ Store \/ Refuse
    BY <2>1 DEF Begin, BeginWithToken, Store, Refuse
  <2>2. CASE Membership \/ Reboot
    BY <2>2 DEF Membership, Reboot, RosterNext
  <2>3. CASE UNCHANGED snapVars
    BY <2>3 DEF snapVars
  <2> QED
    BY <2>1, <2>2, <2>3 DEF SnapNext
<1> QED
  BY <1>1, <1>2, PTL DEF SnapSpec, RosterSpec

(* No request deletes a member's row. *)
LEMMA RowsStay == RosterInv /\ [RosterNext]_rosterVars => known \subseteq known'
BY DEF RosterNext, Restart, SyncRoster, PutMember, PutBinding, DeleteBinding,
       PostRegistrations, Upserted, rosterVars

(* Who asks for an upload has a row. *)
LEMMA MembersAreKnown == RosterInv => active \subseteq known /\ known \subseteq Names
BY DEF RosterInv, RosterTypeOK

SnapInv == SnapTypeOK /\ CaptureCarried

LEMMA StoreKeeps ==
  RosterInv /\ SnapInv /\ Store => SnapInv'
<1> SUFFICES ASSUME RosterInv, SnapInv, Store PROVE SnapInv'
  OBVIOUS
<1> PICK s \in Slots, p \in Payloads :
      /\ upload[s] # Idle
      /\ Accepted(p)
      /\ latest' = [latest EXCEPT ![upload[s]] = Merged(upload[s], p)]
      /\ captured' = [captured EXCEPT ![upload[s]] = IF Full(p) THEN p.value ELSE @]
      /\ muddled' = IF Full(p) THEN muddled \ {upload[s]}
                    ELSE IF Legacy(p) THEN muddled ELSE muddled \cup {upload[s]}
      /\ upload' = [upload EXCEPT ![s] = Idle]
      /\ UNCHANGED rosterVars
  BY DEF Store
<1> DEFINE m == upload[s]
<1>1. m \in known /\ m \in Names /\ known' = known
  BY MembersAreKnown DEF SnapInv, SnapTypeOK, rosterVars
<1>2. p.value \in Values
  BY DEF Payloads
<1>3. Merged(m, p) \in {q \in Payloads : Accepted(q)}
  BY <1>1 DEF Merged, Carries, SnapInv, SnapTypeOK
<1> HIDE DEF m
<1>4. /\ latest' = [latest EXCEPT ![m] = Merged(m, p)]
      /\ captured' = [captured EXCEPT ![m] = IF Full(p) THEN p.value ELSE @]
      /\ muddled' = IF Full(p) THEN muddled \ {m}
                    ELSE IF Legacy(p) THEN muddled ELSE muddled \cup {m}
  BY DEF m
<1>5. SnapTypeOK'
  <2>1. upload' \in [Slots -> known' \cup {Idle}]
    BY <1>1 DEF SnapInv, SnapTypeOK
  <2>2. latest' \in [Names -> {q \in Payloads : Accepted(q)} \cup {None}]
    BY <1>1, <1>3, <1>4 DEF SnapInv, SnapTypeOK
  <2>3. captured' \in [Names -> Values \cup {None}]
    BY <1>1, <1>2, <1>4 DEF SnapInv, SnapTypeOK
  <2>4. muddled' \subseteq known'
    BY <1>1, <1>4 DEF SnapInv, SnapTypeOK
  <2> QED
    BY <2>1, <2>2, <2>3, <2>4 DEF SnapTypeOK
<1>6. CaptureCarried'
  <2> SUFFICES ASSUME NEW n \in Names, n \notin muddled', captured'[n] # None
               PROVE  latest'[n] # None /\ Full(latest'[n]) /\ latest'[n].value = captured'[n]
    BY DEF CaptureCarried, Full
  <2>1. CASE n # m
    <3>1. latest'[n] = latest[n] /\ captured'[n] = captured[n] /\ n \notin muddled
      BY <1>4, <2>1 DEF SnapInv, SnapTypeOK
    <3> QED
      BY <3>1 DEF SnapInv, CaptureCarried
  <2>2. CASE n = m /\ Full(p)
    <3>1. Merged(m, p) = p
      BY <2>2 DEF Merged, Carries, Full, Legacy
    <3>2. latest'[n] = p /\ captured'[n] = p.value
      BY <1>1, <1>4, <2>2, <3>1 DEF SnapInv, SnapTypeOK
    <3> QED
      BY <2>2, <3>2, SnapshotsAssumption
  <2>3. CASE n = m /\ ~Full(p)
    <3>1. Legacy(p) /\ n \notin muddled /\ captured'[n] = captured[n]
      BY <1>1, <1>4, <2>3 DEF SnapInv, SnapTypeOK
    <3>2. latest[n] # None /\ Full(latest[n]) /\ latest[n].value = captured[n]
      BY <3>1 DEF SnapInv, CaptureCarried
    <3>3. latest'[n] = latest[n]
      BY <1>1, <1>4, <2>3, <3>1, <3>2 DEF SnapInv, SnapTypeOK, Merged, Carries
    <3> QED
      BY <3>1, <3>2, <3>3
  <2> QED
    BY <2>1, <2>2, <2>3
<1> QED
  BY <1>5, <1>6 DEF SnapInv

(* Nothing but Store touches what is stored. *)
LEMMA OthersKeep ==
  RosterInv /\ SnapInv /\ [SnapNext]_snapVars /\ ~Store => SnapInv'
<1> SUFFICES ASSUME RosterInv, SnapInv, [SnapNext]_snapVars, ~Store PROVE SnapInv'
  OBVIOUS
<1>1. UNCHANGED <<latest, captured, muddled>>
  BY DEF SnapNext, Begin, BeginWithToken, Refuse, Membership, Reboot, snapVars
<1>2. known \subseteq known'
  <2>1. [SnapNext]_snapVars => [RosterNext]_rosterVars
    BY DEF SnapNext, Begin, BeginWithToken, Store, Refuse, Membership, Reboot, RosterNext, snapVars
  <2> QED
    BY <2>1, RowsStay
<1>3. upload' \in [Slots -> known' \cup {Idle}]
  <2>1. upload' \in [Slots -> known \cup {Idle}]
    BY MembersAreKnown
    DEF SnapNext, Begin, BeginWithToken, Refuse, Membership, Reboot, snapVars, SnapInv, SnapTypeOK
  <2> QED
    BY <1>2, <2>1
<1>4. SnapTypeOK'
  BY <1>1, <1>2, <1>3 DEF SnapInv, SnapTypeOK
<1>5. CaptureCarried'
  BY <1>1 DEF SnapInv, CaptureCarried
<1> QED
  BY <1>4, <1>5 DEF SnapInv

LEMMA SnapInvHolds == SnapSpec => [](RosterInv /\ SnapInv)
<1>1. SnapInit => SnapInv
  BY DEF SnapInit, SnapInv, SnapTypeOK, CaptureCarried
<1>2. RosterInv /\ SnapInv /\ [SnapNext]_snapVars => SnapInv'
  BY StoreKeeps, OthersKeep
<1> QED
  BY <1>1, <1>2, SnapshotsKeepRosters, InvHolds, PTL DEF SnapSpec

(* Requests in flight and rows are of members that have a row in the table.*)
THEOREM SnapTypeOKHolds == SnapSpec => []SnapTypeOK
<1>1. SnapInv => SnapTypeOK
  BY DEF SnapInv
<1> QED
  BY <1>1, SnapInvHolds, PTL

(* A full capture is carried on through whatever old clients send, however *)
(* many requests overtake each other, and through departures and restarts. *)
THEOREM CaptureCarriedHolds == SnapSpec => []CaptureCarried
<1>1. SnapInv => CaptureCarried
  BY DEF SnapInv
<1> QED
  BY <1>1, SnapInvHolds, PTL
-----------------------------------------------------------------------------
(* The guild week: capacities that only grow, runs made of a catalogue,    *)
(* the two files of a report, and a check that compares what it has read   *)
(* at five moments: while it rests, calm, it has read what there is now.   *)

\* Signups are for trials of the week, of their kind.
GameOK ==
  /\ week \in Weeks /\ room \in Nat
  /\ signup \in [Members -> [Kinds -> Trials \cup {Off}]]
  /\ \A m \in Members, k \in Kinds : signup[m][k] \in Of(k, SetOf[week]) \cup {Off}

\* A page has seen no more places than there are.
PageOK ==
  /\ page = [set |-> page.set, signup |-> page.signup, of |-> page.of, room |-> page.room]
  /\ page.set \in Weeks \cup {0} /\ page.room \in Nat /\ page.room <= room

\* Nor does the catalogue; it is of its own week's trials unless it is late.
CatalogOK ==
  catalog # Null =>
    /\ catalog.late \in BOOLEAN
    /\ ~catalog.late => DOMAIN catalog.cap = SetOf[catalog.week]
    /\ \A t \in DOMAIN catalog.cap : catalog.cap[t] \in Nat /\ catalog.cap[t] <= room

\* A run of the optimizer, stored or under way, keeps to its week and the rooms.
Suits(r, places) ==
  /\ r.number \in Nat \ {0} /\ r.late \in BOOLEAN
  /\ ~r.late => \A m \in Members : r.slot[m] # Off =>
       /\ r.slot[m] \in Of("skilling", SetOf[r.week])
       /\ Cardinality({n \in Members : r.slot[n] = r.slot[m]}) <= places
RunsOK ==
  /\ runs \in Nat
  /\ life = [k \in {"formal", "test"} |-> life[k]]
  /\ making = [p \in Makers |-> making[p]]
  /\ \A k \in {"formal", "test"} : life[k] # Null => Suits(life[k], room)
  /\ \A p \in Makers : making[p].at # "idle" =>
       making[p] = [at |-> making[p].at, run |-> making[p].run] /\ Suits(making[p].run, room)

\* Of two files that are not torn, the image is that of the only writer who is
\* between them or, if nobody is, of the manifest's run; and a look about to read the
\* image has met those whose image it can be.
FilesOK ==
  ~torn => /\ Drawing => Midway = {} /\ report.png = look.text
           /\ \A p \in Midway : Midway = {p} /\ report.png = making[p].run.number
           /\ ~Between => report.png = report.manifest
LookOK ==
  /\ look.at # "idle" => look = [at |-> look.at, text |-> look.text, image |-> look.image,
                                 met |-> look.met, sure |-> look.sure]
  /\ look.at = "png" /\ look.sure => report.png \in {look.text} \cup look.met
  /\ ShownIsFormal
ImageOK ==
  /\ torn \in BOOLEAN
  /\ report = [png |-> report.png, manifest |-> report.manifest]
  /\ calm => ~Between
  /\ FilesOK
  /\ LookOK

\* What a check would read and answer now.
Now(command) ==
  [command |-> command, catalog |-> catalog, regs |-> regs, formal |-> life["formal"],
   test |-> life["test"], combat |-> combat]
Chosen(command) ==
  Pick(Expected(Now(command)), life["formal"], life["test"],
       IF command = "signups" THEN report.manifest ELSE 0)

\* A check that nothing has changed under has what it has read, and has answered
\* what it would answer now.
CheckOK ==
  /\ calm \in BOOLEAN
  /\ check.at \in {"reading", "pick"} =>
       check = [at |-> check.at, command |-> check.command,
                read |-> [x \in DOMAIN Unread |-> check.read[x]], catalog |-> check.catalog,
                regs |-> check.regs, formal |-> check.formal, test |-> check.test,
                combat |-> check.combat]
  /\ calm /\ check.at = "reading" =>
       \A x \in DOMAIN Unread : check.read[x] => check[x] = Now(check.command)[x]
  /\ calm /\ check.at = "pick" =>
       \A x \in DOMAIN Unread : check[x] = Now(check.command)[x]
  /\ calm /\ check.at = "done" =>
       /\ check.wrong = Compared(Now(check.command), Chosen(check.command))
       /\ check.without = Uncovered(Now(check.command), Chosen(check.command))

WeeklyInv == GameOK /\ PageOK /\ CatalogOK /\ RunsOK /\ ImageOK /\ CheckOK

LEMMA WeeklyInitInv == WeeklyInit => WeeklyInv
<1> SUFFICES ASSUME WeeklyInit PROVE WeeklyInv
  OBVIOUS
<1>1. GameOK
  BY WeeksAssumption DEF WeeklyInit, GameOK, NoSignups, Off, Of
<1>2. PageOK /\ CatalogOK
  BY DEF WeeklyInit, PageOK, CatalogOK
<1>3. RunsOK
  BY DEF WeeklyInit, RunsOK, Unmade
<1>4. ImageOK
  BY DEF WeeklyInit, ImageOK, FilesOK, LookOK, ShownIsFormal, Midway, Drawing, Between, Unmade
<1>5. CheckOK
  BY DEF WeeklyInit, CheckOK
<1> QED
  BY <1>1, <1>2, <1>3, <1>4, <1>5 DEF WeeklyInv

\* The game goes on.
LEMMA WeeklyGame ==
  ASSUME GameOK, WeeklyNext
  PROVE  GameOK' /\ room <= room'
<1>0. room \in Nat
  BY DEF GameOK
<1>1. CASE SignUp
  <2>1. PICK m \in Members, k \in Kinds : \E t \in Of(k, SetOf[week]) \cup {Off} :
         signup' = [signup EXCEPT ![m][k] = t]
    BY <1>1 DEF SignUp
  <2>2. PICK t \in Of(k, SetOf[week]) \cup {Off} : signup' = [signup EXCEPT ![m][k] = t]
    BY <2>1
  <2>3. t \in Trials \cup {Off}
    BY WeeksAssumption DEF GameOK, Of
  <2>4. signup' \in [Members -> [Kinds -> Trials \cup {Off}]]
    BY <2>2, <2>3 DEF GameOK
  <2>5. \A n \in Members, l \in Kinds :
          signup'[n][l] = IF n = m /\ l = k THEN t ELSE signup[n][l]
    BY <2>2 DEF GameOK
  <2>6. week' = week /\ room' = room
    BY <1>1 DEF SignUp, inGame
  <2>7. \A n \in Members, l \in Kinds : signup'[n][l] \in Of(l, SetOf[week]) \cup {Off}
    BY <2>5 DEF GameOK
  <2> QED
    BY <1>0, <2>4, <2>6, <2>7 DEF GameOK
<1>2. CASE NewWeek
  BY <1>0, <1>2 DEF NewWeek, GameOK, NoSignups, Off, Of
<1>3. CASE Build
  BY <1>0, <1>3 DEF Build, GameOK
<1>4. CASE ~(SignUp \/ NewWeek \/ Build)
  <2>1. UNCHANGED inGame
    BY <1>4 DEF WeeklyNext, Capture, UploadNext, UploadCatalogue, UploadRegistrations, PutCombat,
         Generate, Save, Render, Manifest, LookUp, LookManifest, LookDraw, LookPair, LookImage,
         StartCheck, Answer, ReadFor
  <2> QED
    BY <1>0, <2>1 DEF GameOK, inGame
<1> QED
  BY <1>1, <1>2, <1>3, <1>4

LEMMA WeeklyPage ==
  ASSUME GameOK, PageOK, WeeklyNext
  PROVE  PageOK'
<1>0. room <= room' /\ room \in Nat /\ room' \in Nat
  BY WeeklyGame DEF GameOK
<1>1. CASE Capture
  <2>1. room' = room
    BY <1>1 DEF Capture, inGame
  <2>2. CASE page' = [set |-> week, signup |-> signup, of |-> week, room |-> room]
    BY <1>0, <2>1, <2>2 DEF PageOK, GameOK
  <2>3. CASE page' = [page EXCEPT !.signup = signup, !.of = week]
    BY <2>1, <2>3 DEF PageOK
  <2>4. CASE page' = [page EXCEPT !.set = week, !.room = room]
    BY <1>0, <2>1, <2>4 DEF PageOK, GameOK
  <2> QED
    BY <1>1, <2>2, <2>3, <2>4 DEF Capture
<1>2. CASE ~Capture
  <2>1. page' = page
    BY <1>2 DEF WeeklyNext, SignUp, NewWeek, Build, UploadNext, UploadCatalogue,
         UploadRegistrations, PutCombat, Generate, Save, Render, Manifest, LookUp,
         LookManifest, LookDraw, LookPair, LookImage, StartCheck, Answer, ReadFor
  <2> QED
    BY <1>0, <2>1 DEF PageOK
<1> QED
  BY <1>1, <1>2

\* A capacity is what the page saw, or what an earlier upload said.
LEMMA WeeklyCatalog ==
  ASSUME GameOK, PageOK, CatalogOK, WeeklyNext
  PROVE  CatalogOK'
<1>0. room <= room' /\ room \in Nat /\ room' \in Nat
  BY WeeklyGame DEF GameOK
<1>1. ASSUME NEW b \in BOOLEAN, UploadCatalogue(b) PROVE CatalogOK'
  <2> DEFINE sent == CataloguePayload(b)
             cap == [t \in DOMAIN sent |-> IF sent[t] = Null THEN Fallback(t) ELSE sent[t]]
  <2>1. /\ \A t \in DOMAIN cap : cap[t] # Null
        /\ catalog' = [week |-> week, cap |-> cap, late |-> page.set # week]
        /\ page.set # 0 /\ room' = room
    BY <1>1 DEF UploadCatalogue, inGame
  <2>2. DOMAIN sent = SetOf[page.set] /\ DOMAIN cap = SetOf[page.set]
    BY DEF CataloguePayload
  <2>3. ASSUME NEW t \in DOMAIN cap PROVE cap[t] \in Nat /\ cap[t] <= room
    <3>0. t \in SetOf[page.set] /\ t \in DOMAIN sent /\ cap[t] # Null
      BY <2>1, <2>2, <2>3
    <3>1. sent[t] = Null \/ sent[t] = page.room
      BY <3>0 DEF CataloguePayload
    <3>2. CASE sent[t] = Null
      <4>1. cap[t] = Fallback(t)
        BY <3>0, <3>2
      <4>2. catalog # Null /\ t \in DOMAIN catalog.cap /\ cap[t] = catalog.cap[t]
        BY <3>0, <4>1 DEF Fallback
      <4> QED
        BY <4>2 DEF CatalogOK
    <3>3. CASE sent[t] # Null
      BY <3>0, <3>1, <3>3 DEF PageOK
    <3> QED
      BY <3>2, <3>3
  <2> HIDE DEF sent, cap
  <2> QED
    BY <2>1, <2>2, <2>3 DEF CatalogOK
<1>2. CASE ~\E b \in BOOLEAN : UploadCatalogue(b)
  <2>1. catalog' = catalog
    BY <1>2 DEF WeeklyNext, SignUp, NewWeek, Build, Capture, UploadNext,
         UploadRegistrations, PutCombat, Generate, Save, Render, Manifest, LookUp,
         LookManifest, LookDraw, LookPair, LookImage, StartCheck, Answer, ReadFor, inApi
  <2> QED
    BY <1>0, <2>1 DEF CatalogOK
<1> QED
  BY <1>1, <1>2

\* More places do not matter to an assignment that fits.
LEMMA StillSuits ==
  ASSUME NEW r, Suits(r, room), room \in Nat, room' \in Nat, room <= room'
  PROVE  Suits(r, room')
<1> SUFFICES ASSUME ~r.late, NEW m \in Members, r.slot[m] # Off
             PROVE  Cardinality({n \in Members : r.slot[n] = r.slot[m]}) <= room'
  BY DEF Suits
<1>1. Cardinality({n \in Members : r.slot[n] = r.slot[m]}) <= room
  BY DEF Suits
<1>2. Cardinality({n \in Members : r.slot[n] = r.slot[m]}) \in Nat
  BY WeeksAssumption, FS_Subset, FS_CardinalityType
<1> QED
  BY <1>1, <1>2

LEMMA WeeklyRuns ==
  ASSUME GameOK, CatalogOK, RunsOK, WeeklyNext
  PROVE  RunsOK'
<1>0. room <= room' /\ room \in Nat /\ room' \in Nat
  BY WeeklyGame DEF GameOK
<1>1. \A r : Suits(r, room) => Suits(r, room')
  BY <1>0, StillSuits
<1>2. ASSUME NEW p \in Makers, Generate(p) PROVE RunsOK'
  <2>1. /\ catalog # Null /\ making[p] = Unmade /\ runs' = runs + 1
        /\ UNCHANGED <<life, room>>
    BY <1>2 DEF Generate, inApi, inGame
  <2>2. PICK f \in [Members -> Of("skilling", DOMAIN catalog.cap) \cup {Off}] :
         /\ Within(f, catalog.cap)
         /\ making' = [making EXCEPT ![p] =
              [at |-> "save", run |-> [number |-> runs + 1, week |-> catalog.week,
                                       slot |-> f, late |-> catalog.late]]]
    BY <1>2 DEF Generate
  <2> DEFINE run == [number |-> runs + 1, week |-> catalog.week, slot |-> f,
                     late |-> catalog.late]
  <2>3. Suits(run, room)
    <3>1. run.number \in Nat \ {0} /\ run.late \in BOOLEAN
      BY <2>1 DEF RunsOK, CatalogOK
    <3>2. ASSUME ~run.late, NEW m \in Members, run.slot[m] # Off
          PROVE  /\ run.slot[m] \in Of("skilling", SetOf[run.week])
                 /\ Cardinality({n \in Members : run.slot[n] = run.slot[m]}) <= room
      <4>1. DOMAIN catalog.cap = SetOf[catalog.week] /\ f[m] # Off
        BY <2>1, <3>2 DEF CatalogOK
      <4>2. f[m] \in Of("skilling", DOMAIN catalog.cap) /\ f[m] \in DOMAIN catalog.cap
        BY <4>1 DEF Of
      <4>3. Cardinality({n \in Members : f[n] = f[m]}) <= catalog.cap[f[m]]
        BY <2>2, <4>2 DEF Within
      <4>4. catalog.cap[f[m]] \in Nat /\ catalog.cap[f[m]] <= room
        BY <2>1, <4>2 DEF CatalogOK
      <4>5. Cardinality({n \in Members : f[n] = f[m]}) \in Nat
        BY WeeksAssumption, FS_Subset, FS_CardinalityType
      <4>6. Cardinality({n \in Members : f[n] = f[m]}) <= room
        BY <1>0, <4>3, <4>4, <4>5
      <4> QED
        BY <4>1, <4>2, <4>6
    <3> QED
      BY <3>1, <3>2 DEF Suits
  <2>4. Suits(run, room') /\ making' = [making EXCEPT ![p] = [at |-> "save", run |-> run]]
    BY <1>1, <2>2, <2>3
  <2> HIDE DEF run
  <2>5. making' = [q \in Makers |-> making'[q]]
    BY <2>4 DEF RunsOK
  <2>6. ASSUME NEW q \in Makers, making'[q].at # "idle"
        PROVE  making'[q] = [at |-> making'[q].at, run |-> making'[q].run] /\ Suits(making'[q].run, room')
    <3>1. CASE q = p
      <4>1. making'[q] = [at |-> "save", run |-> run]
        BY <2>4, <3>1 DEF RunsOK
      <4> QED
        BY <2>4, <4>1
    <3>2. CASE q # p
      <4>1. making'[q] = making[q]
        BY <2>4, <3>2 DEF RunsOK
      <4> QED
        BY <1>1, <2>6, <4>1 DEF RunsOK
    <3> QED
      BY <3>1, <3>2
  <2> QED
    BY <1>1, <2>1, <2>5, <2>6 DEF RunsOK
<1>3. ASSUME NEW p \in Makers, Save(p) \/ Render(p) \/ Manifest(p)
      PROVE  RunsOK'
  <2>1. making[p].at # "idle" /\ runs' = runs
    BY <1>3 DEF Save, Render, Manifest, Midway
  <2>2. \/ making' = [making EXCEPT ![p] = Unmade]
        \/ making' = [making EXCEPT ![p].at = "render"]
        \/ making' = [making EXCEPT ![p].at = "manifest"]
    BY <1>3 DEF Save, Render, Manifest
  <2>3. life' = life \/ life' = [life EXCEPT ![KindMade(p)] = making[p].run]
    BY <1>3 DEF Save, Render, Manifest, inApi
  <2>4. making[p] = [at |-> making[p].at, run |-> making[p].run] /\ Suits(making[p].run, room)
    BY <2>1 DEF RunsOK
  <2>5. making' = [q \in Makers |-> making'[q]]
    BY <2>2 DEF RunsOK
  <2>6. ASSUME NEW q \in Makers, making'[q].at # "idle"
        PROVE  making'[q] = [at |-> making'[q].at, run |-> making'[q].run] /\ Suits(making'[q].run, room)
    <3>1. CASE q = p
      <4>1. making'[q] = [making[p] EXCEPT !.at = "render"]
            \/ making'[q] = [making[p] EXCEPT !.at = "manifest"]
        BY <2>2, <2>6, <3>1 DEF RunsOK, Unmade
      <4>2. making'[q] = [at |-> "render", run |-> making[p].run]
            \/ making'[q] = [at |-> "manifest", run |-> making[p].run]
        BY <2>4, <4>1
      <4> QED
        BY <2>4, <4>2
    <3>2. CASE q # p
      <4>1. making'[q] = making[q]
        BY <2>2, <3>2 DEF RunsOK
      <4> QED
        BY <2>6, <4>1 DEF RunsOK
    <3> QED
      BY <3>1, <3>2
  <2>7. ASSUME NEW k \in {"formal", "test"}, life'[k] # Null PROVE Suits(life'[k], room)
    BY <2>3, <2>4, <2>7 DEF RunsOK
  <2>8. life' = [k \in {"formal", "test"} |-> life'[k]]
    BY <2>3 DEF RunsOK
  <2> QED
    BY <1>1, <2>1, <2>5, <2>6, <2>7, <2>8 DEF RunsOK
<1>4. CASE ~\E p \in Makers : Generate(p) \/ Save(p) \/ Render(p) \/ Manifest(p)
  <2>1. UNCHANGED <<runs, making, life>>
    BY <1>4 DEF WeeklyNext, SignUp, NewWeek, Build, Capture, UploadNext, UploadCatalogue,
         UploadRegistrations, PutCombat, LookUp, LookManifest, LookDraw, LookPair, LookImage,
         StartCheck, Answer, ReadFor, inApi, bot
  <2> QED
    BY <1>1, <2>1 DEF RunsOK
<1> QED
  BY <1>2, <1>3, <1>4

\* Nobody is between the files, or as many as before, and they rest.
LEMMA ImageRests ==
  ASSUME ImageOK, UNCHANGED <<report, torn, look>>, Midway' = Midway,
         \A p \in Midway : making'[p] = making[p],
         calm' = FALSE \/ calm' = calm \/ calm' = ~Between
  PROVE  ImageOK'
<1>1. Drawing' = Drawing /\ Between' = Between
  BY DEF Drawing, Between
<1>2. FilesOK'
  BY <1>1 DEF ImageOK, FilesOK
<1>3. LookOK'
  BY DEF ImageOK, LookOK, ShownIsFormal
<1>4. calm' => ~Between'
  <2>1. CASE calm' = FALSE
    BY <2>1
  <2>2. CASE calm' = calm
    BY <1>1, <2>2 DEF ImageOK
  <2>3. CASE calm' = ~Between
    BY <1>1, <2>3
  <2> QED
    BY <2>1, <2>2, <2>3
<1> QED
  BY <1>2, <1>3, <1>4 DEF ImageOK

\* Who puts the image alone vouches for it.
LEMMA MakerPutsImage ==
  ASSUME ImageOK, RunsOK, NEW p \in Makers, Render(p),
         making' = [making EXCEPT ![p].at = "manifest"], PutFirst(making[p].run.number),
         look' = IF look.at = "png"
                 THEN [look EXCEPT !.met = @ \cup {making[p].run.number}] ELSE look
  PROVE  ImageOK'
<1> DEFINE n == making[p].run.number
<1>1. report' = [png |-> n, manifest |-> report.manifest] /\ torn' = Between /\ calm' = FALSE
  BY DEF PutFirst, Order, ImageOK
<1>2. making[p].at = "render" /\ making[p] = [at |-> making[p].at, run |-> making[p].run]
  BY DEF Render, RunsOK
<1>3. making'[p] = [at |-> "manifest", run |-> making[p].run]
      /\ \A q \in Makers \ {p} : making'[q] = making[q]
  BY <1>2 DEF RunsOK
<1>4. Midway' = Midway \cup {p}
  BY <1>3 DEF Midway
<1>5. look'.at = look.at /\ look'.text = look.text /\ look'.sure = look.sure
      /\ (look.at # "png" => look' = look)
      /\ (look.at = "png" => look' = [at |-> look.at, text |-> look.text, image |-> look.image,
                                      met |-> look.met \cup {n}, sure |-> look.sure])
  <2>1. CASE look.at = "png"
    <3>1. look = [at |-> look.at, text |-> look.text, image |-> look.image,
                  met |-> look.met, sure |-> look.sure]
      BY <2>1 DEF ImageOK, LookOK
    <3>2. look' = [look EXCEPT !.met = @ \cup {n}]
      BY <2>1
    <3> HIDE DEF n
    <3> QED
      BY <2>1, <3>1, <3>2
  <2>2. CASE look.at # "png"
    BY <2>2
  <2> QED
    BY <2>1, <2>2
<1>6. FilesOK'
  <2> SUFFICES ASSUME ~Between
               PROVE  /\ ~Drawing' /\ Midway' = {p} /\ report'.png = making'[p].run.number
                      /\ Between'
    BY <1>1 DEF FilesOK
  <2> QED
    BY <1>1, <1>3, <1>4, <1>5 DEF Between, Drawing
<1>7. LookOK'
  <2>1. report'.png = n
    BY <1>1
  <2>2. ShownIsFormal'
    BY <1>5 DEF ImageOK, LookOK, ShownIsFormal
  <2>3. look'.at = "png" => n \in look'.met
    BY <1>5
  <2>4. look'.at # "idle" => look' = [at |-> look'.at, text |-> look'.text,
                                      image |-> look'.image, met |-> look'.met,
                                      sure |-> look'.sure]
    BY <1>5 DEF ImageOK, LookOK
  <2> HIDE DEF n
  <2> QED
    BY <2>1, <2>2, <2>3, <2>4 DEF LookOK
<1> HIDE DEF n
<1>8. Between \in BOOLEAN
  BY DEF Between, Drawing
<1> QED
  BY <1>1, <1>6, <1>7, <1>8 DEF ImageOK

\* Who puts the manifest, or breaks off, leaves the image alone.
LEMMA ManifestLeavesImage ==
  ASSUME ImageOK, NEW n, PutSecond(n) \/ BreakOff
  PROVE  /\ report' = [png |-> report.png, manifest |-> report'.manifest]
         /\ calm' = FALSE /\ torn' \in BOOLEAN
         /\ torn' \/ (torn' = torn /\ report'.manifest = n)
<1>1. report = [png |-> report.png, manifest |-> report.manifest] /\ torn \in BOOLEAN
  BY DEF ImageOK
<1>2. CASE PutSecond(n)
  BY <1>1, <1>2 DEF PutSecond, Order
<1>3. CASE BreakOff
  BY <1>1, <1>3 DEF BreakOff, Order
<1> QED
  BY <1>2, <1>3

LEMMA MakerPutsManifest ==
  ASSUME ImageOK, RunsOK, NEW p \in Makers, Manifest(p)
  PROVE  ImageOK'
<1>0. /\ p \in Midway /\ look' = look /\ making' = [making EXCEPT ![p] = Unmade]
      /\ PutSecond(making[p].run.number) \/ BreakOff
  BY DEF Manifest
<1> DEFINE n == making[p].run.number
<1>1. /\ report' = [png |-> report.png, manifest |-> report'.manifest]
      /\ calm' = FALSE /\ torn' \in BOOLEAN
      /\ torn' \/ (torn' = torn /\ report'.manifest = n)
  BY <1>0, ManifestLeavesImage
<1>2. Midway' = Midway \ {p} /\ \A q \in Makers \ {p} : making'[q] = making[q]
  <2>1. making'[p].at = "idle" /\ \A q \in Makers \ {p} : making'[q] = making[q]
    BY <1>0 DEF RunsOK, Unmade
  <2> QED
    BY <2>1 DEF Midway
<1>3. FilesOK'
  <2> SUFFICES ASSUME ~torn' PROVE FilesOK'
    BY DEF FilesOK
  <2>1. Midway = {p} /\ report.png = n /\ ~Drawing
    BY <1>0, <1>1 DEF ImageOK, FilesOK
  <2>2. report'.png = n /\ report'.manifest = n /\ Midway' = {} /\ ~Drawing'
    BY <1>0, <1>1, <1>2, <2>1 DEF Drawing
  <2> HIDE DEF n
  <2> QED
    BY <2>2 DEF FilesOK
<1>4. LookOK'
  <2>1. report'.png = report.png
    BY <1>1
  <2> QED
    BY <1>0, <2>1 DEF ImageOK, LookOK, ShownIsFormal
<1> HIDE DEF n
<1> QED
  BY <1>1, <1>3, <1>4 DEF ImageOK

\* A maker's other steps leave the files alone, and put nobody between them.
LEMMA MakerRests ==
  ASSUME ImageOK, RunsOK, NEW p \in Makers,
         \/ Generate(p) \/ Save(p)
         \/ Render(p) /\ making' = [making EXCEPT ![p] = Unmade]
            /\ UNCHANGED <<report, torn, look, calm>>
  PROVE  ImageOK'
<1>1. /\ UNCHANGED <<report, torn, look>> /\ p \notin Midway
      /\ calm' = FALSE \/ calm' = calm
  BY DEF Generate, Save, Render, Midway, Unmade
<1>2. /\ making'[p].at # "manifest"
      /\ \A q \in Makers \ {p} : making'[q] = making[q]
  <2>1. CASE Generate(p)
    BY <2>1 DEF Generate, RunsOK
  <2>2. CASE Save(p)
    <3>1. \/ making' = [making EXCEPT ![p] = Unmade]
          \/ making' = [making EXCEPT ![p].at = "render"]
      BY <2>2 DEF Save
    <3>2. making[p].at = "save" /\ making[p] = [at |-> making[p].at, run |-> making[p].run]
      BY <2>2 DEF Save, RunsOK
    <3> QED
      BY <3>1, <3>2 DEF RunsOK, Unmade
  <2>3. CASE making' = [making EXCEPT ![p] = Unmade]
    BY <2>3 DEF RunsOK, Unmade
  <2> QED
    BY <2>1, <2>2, <2>3
<1>3. Midway' = Midway
  BY <1>1, <1>2 DEF Midway
<1>4. \A q \in Midway : making'[q] = making[q]
  BY <1>1, <1>2 DEF Midway
<1> QED
  BY <1>1, <1>3, <1>4, ImageRests

LEMMA LookImageOK ==
  ASSUME ImageOK, LookUp \/ LookManifest \/ LookDraw \/ LookPair \/ LookImage
  PROVE  ImageOK'
<1>0. making' = making /\ Midway' = Midway
  BY DEF LookUp, LookManifest, LookDraw, LookPair, LookImage, Midway, bot
<1>1. ASSUME look.at # "idle"
      PROVE  look = [at |-> look.at, text |-> look.text, image |-> look.image,
                     met |-> look.met, sure |-> look.sure]
  BY <1>1 DEF ImageOK, LookOK
<1>2. ASSUME UNCHANGED <<report, torn, calm>>, ~Drawing, ~Drawing', LookOK'
      PROVE  ImageOK'
  <2>1. Between' = Between
    BY <1>0, <1>2 DEF Between
  <2>2. FilesOK'
    BY <1>0, <1>2, <2>1 DEF ImageOK, FilesOK
  <2> QED
    BY <1>2, <2>1, <2>2 DEF ImageOK
<1>3. CASE LookUp
  BY <1>2, <1>3 DEF LookUp, LookOK, ShownIsFormal, Drawing, bot
<1>4. CASE LookManifest
  <2>1. UNCHANGED <<report, torn, calm>> /\ look.at = "manifest"
    BY <1>4 DEF LookManifest, bot
  <2>2. CASE report.manifest = look.text /\ look' = [look EXCEPT !.at = "png", !.met = Halves,
                                                                 !.sure = ~torn]
    <3>1. look' = [at |-> "png", text |-> look.text, image |-> look.image, met |-> Halves,
                   sure |-> ~torn]
      BY <1>1, <2>1, <2>2
    <3>2. ASSUME ~torn PROVE report.png \in {look.text} \cup Halves
      <4>1. CASE Midway = {}
        BY <2>1, <2>2, <3>2, <4>1 DEF ImageOK, FilesOK, Between, Drawing
      <4>2. CASE Midway # {}
        BY <3>2, <4>2 DEF ImageOK, FilesOK, Halves
      <4> QED
        BY <4>1, <4>2
    <3>3. LookOK'
      BY <2>1, <3>1, <3>2 DEF LookOK, ShownIsFormal
    <3> QED
      BY <1>2, <2>1, <3>1, <3>3 DEF Drawing
  <2>3. CASE look' = [look EXCEPT !.at = "draw"]
    <3>1. look' = [at |-> "draw", text |-> look.text, image |-> look.image, met |-> look.met,
                   sure |-> look.sure]
      BY <1>1, <2>1, <2>3
    <3> QED
      BY <1>2, <2>1, <3>1 DEF LookOK, ShownIsFormal, Drawing
  <2> QED
    BY <1>4, <2>2, <2>3 DEF LookManifest
<1>5. CASE LookDraw
  <2>1. look.at = "draw"
    BY <1>5 DEF LookDraw
  <2>2. CASE PutFirst(look.text) /\ look' = [look EXCEPT !.at = "pair"]
    <3>1. look' = [at |-> "pair", text |-> look.text, image |-> look.image, met |-> look.met,
                   sure |-> look.sure]
      BY <1>1, <2>1, <2>2
    <3>2. report' = [png |-> look.text, manifest |-> report.manifest] /\ torn' = Between
          /\ calm' = FALSE
      BY <2>2 DEF PutFirst, Order, ImageOK
    <3>3. Between \in BOOLEAN /\ (~Between => Midway' = {})
      BY <1>0 DEF Between, Drawing
    <3> QED
      BY <3>1, <3>2, <3>3 DEF ImageOK, FilesOK, LookOK, ShownIsFormal, Between, Drawing
  <2>3. CASE look' = [at |-> "idle"] /\ UNCHANGED <<report, torn, calm>>
    BY <1>2, <2>1, <2>3 DEF LookOK, ShownIsFormal, Drawing
  <2> QED
    BY <1>5, <2>2, <2>3 DEF LookDraw
<1>6. CASE LookPair
  <2>0. look.at = "pair"
    BY <1>6 DEF LookPair, Drawing
  <2>1. PutSecond(look.text) \/ BreakOff
    BY <1>6 DEF LookPair
  <2>2. /\ report' = [png |-> report.png, manifest |-> report'.manifest]
        /\ calm' = FALSE /\ torn' \in BOOLEAN
        /\ torn' \/ (torn' = torn /\ report'.manifest = look.text)
    BY <2>1, ManifestLeavesImage
  <2>3. \/ look' = [look EXCEPT !.at = "shown", !.image = look.text]
        \/ look' = [at |-> "idle"]
    BY <1>6 DEF LookPair
  <2>4. \/ look' = [at |-> "shown", text |-> look.text, image |-> look.text, met |-> look.met,
                    sure |-> look.sure]
        \/ look' = [at |-> "idle"]
    BY <1>1, <2>0, <2>3
  <2>5. LookOK' /\ ~Drawing'
    BY <2>4 DEF LookOK, ShownIsFormal, Drawing
  <2>6. FilesOK'
    <3> SUFFICES ASSUME ~torn' PROVE FilesOK'
      BY DEF FilesOK
    <3>1. Midway' = {} /\ report.png = look.text /\ report'.manifest = look.text
      BY <1>0, <2>0, <2>2 DEF ImageOK, FilesOK, Drawing
    <3>2. report'.png = report.png
      BY <2>2
    <3> QED
      BY <2>5, <3>1, <3>2 DEF FilesOK
  <2> QED
    BY <2>2, <2>5, <2>6 DEF ImageOK
<1>7. CASE LookImage
  <2>1. look.at = "png" /\ UNCHANGED <<report, torn, calm>>
    BY <1>7 DEF LookImage, bot
  <2>2. look' = [at |-> "shown", text |-> look.text, image |-> report.png, met |-> look.met,
                 sure |-> look.sure]
    BY <1>1, <1>7, <2>1 DEF LookImage
  <2>3. LookOK'
    BY <2>1, <2>2 DEF ImageOK, LookOK, ShownIsFormal
  <2> QED
    BY <1>2, <2>1, <2>2, <2>3 DEF Drawing
<1> QED
  BY <1>3, <1>4, <1>5, <1>6, <1>7

LEMMA WeeklyImage ==
  ASSUME RunsOK, ImageOK, WeeklyNext
  PROVE  ImageOK'
<1>1. ASSUME NEW p \in Makers, Render(p) PROVE ImageOK'
  <2>1. \/ /\ PutFirst(making[p].run.number)
           /\ making' = [making EXCEPT ![p].at = "manifest"]
           /\ look' = IF look.at = "png"
                      THEN [look EXCEPT !.met = @ \cup {making[p].run.number}] ELSE look
        \/ making' = [making EXCEPT ![p] = Unmade] /\ UNCHANGED <<report, torn, look, calm>>
    BY <1>1 DEF Render
  <2> QED
    BY <1>1, <2>1, MakerPutsImage, MakerRests
<1>2. ASSUME NEW p \in Makers, Generate(p) \/ Save(p) \/ Manifest(p) PROVE ImageOK'
  BY <1>2, MakerRests, MakerPutsManifest
<1>3. CASE LookUp \/ LookManifest \/ LookDraw \/ LookPair \/ LookImage
  BY <1>3, LookImageOK
<1>4. CASE ~(LookUp \/ LookManifest \/ LookDraw \/ LookPair \/ LookImage
             \/ \E p \in Makers : Generate(p) \/ Save(p) \/ Render(p) \/ Manifest(p))
  <2>1. UNCHANGED <<report, torn, look, making>>
        /\ (calm' = FALSE \/ calm' = calm \/ calm' = ~Between)
    BY <1>4 DEF WeeklyNext, SignUp, NewWeek, Build, Capture, UploadNext, UploadCatalogue,
         UploadRegistrations, PutCombat, StartCheck, Answer, ReadFor, bot
  <2>2. Midway' = Midway
    BY <2>1 DEF Midway
  <2> QED
    BY <2>1, <2>2, ImageRests
<1> QED
  BY <1>1, <1>2, <1>3, <1>4

\* A check rests while others work, and is spoilt by what it has read changing.
LEMMA CheckRests ==
  ASSUME CheckOK, check' = check, calm' = FALSE \/ (calm' = calm /\ UNCHANGED <<inApi, report>>)
  PROVE  CheckOK'
<1>1. CASE calm' = FALSE
  BY <1>1 DEF CheckOK
<1>2. CASE calm' = calm /\ UNCHANGED <<inApi, report>>
  <2>1. \A command : Now(command)' = Now(command)
    BY <1>2 DEF Now, inApi
  <2>2. \A command : Chosen(command)' = Chosen(command)
    BY <1>2 DEF Chosen, Now, inApi
  <2>3. UNCHANGED <<check, calm>>
    BY <1>2
  <2> QED
    BY <2>1, <2>2, <2>3 DEF CheckOK
<1> QED
  BY <1>1, <1>2

LEMMA CheckStarts ==
  ASSUME StartCheck
  PROVE  CheckOK'
<1>1. PICK c \in {"signups", "cover"} :
         check' = [at |-> "reading", command |-> c, read |-> Unread, catalog |-> Null,
                   regs |-> regs, formal |-> Null, test |-> Null, combat |-> Null]
  BY DEF StartCheck
<1>2. calm' \in BOOLEAN
  BY DEF StartCheck, Between, Drawing
<1>3. \A x \in DOMAIN Unread : ~check'.read[x]
  BY <1>1 DEF Unread
<1>4. [x \in DOMAIN Unread |-> check'.read[x]] = Unread
  BY <1>1 DEF Unread
<1> QED
  BY <1>1, <1>2, <1>3, <1>4 DEF CheckOK

LEMMA CheckReads ==
  ASSUME CheckOK, NEW x \in DOMAIN Unread, ReadFor(x)
  PROVE  CheckOK'
<1>0. DOMAIN Unread = {"catalog", "regs", "formal", "test", "combat"}
  BY DEF Unread
<1>1. /\ check.at = "reading" /\ UNCHANGED <<inApi, report, calm>>
  BY DEF ReadFor, bot
<1> DEFINE read == [y \in DOMAIN Unread |-> IF y = x THEN TRUE ELSE check.read[y]]
           at == IF \A y \in DOMAIN Unread \ {x} : check.read[y] THEN "pick" ELSE "reading"
           V(y) == IF y = x THEN Now(check.command)[y] ELSE check[y]
<1>2. check = [at |-> "reading", command |-> check.command,
               read |-> [y \in DOMAIN Unread |-> check.read[y]], catalog |-> check.catalog,
               regs |-> check.regs, formal |-> check.formal, test |-> check.test,
               combat |-> check.combat]
  BY <1>1 DEF CheckOK
<1>3. check' = [at |-> at, command |-> check.command, read |-> read, catalog |-> V("catalog"),
                regs |-> V("regs"), formal |-> V("formal"), test |-> V("test"),
                combat |-> V("combat")]
  <2> DEFINE c == [check EXCEPT !.read[x] = TRUE,
                     !.at = IF \A y \in DOMAIN Unread \ {x} : check.read[y] THEN "pick" ELSE @]
  <2>1. c = [at |-> at, command |-> check.command, read |-> read, catalog |-> check.catalog,
             regs |-> check.regs, formal |-> check.formal, test |-> check.test,
             combat |-> check.combat]
    <3>1. check.read = [y \in DOMAIN Unread |-> check.read[y]]
      BY <1>2
    <3>2. [check.read EXCEPT ![x] = TRUE] = read
      BY <3>1
    <3> DEFINE Parts == {"at", "command", "read", "catalog", "regs", "formal", "test", "combat"}
               merged == [y \in Parts |-> IF y = "read" THEN read ELSE IF y = "at" THEN at
                                          ELSE check[y]]
    <3>3. DOMAIN check = Parts /\ check = [y \in Parts |-> check[y]]
      BY <1>2
    <3>4. c = merged
      BY <1>1, <3>2, <3>3
    <3> HIDE DEF c, read, at
    <3>5. merged = [at |-> at, command |-> check.command, read |-> read, catalog |-> check.catalog,
                    regs |-> check.regs, formal |-> check.formal, test |-> check.test,
                    combat |-> check.combat]
      OBVIOUS
    <3> QED
      BY <3>4, <3>5
  <2>2. check' = CASE x = "catalog" -> [c EXCEPT !.catalog = catalog]
                   [] x = "regs"    -> [c EXCEPT !.regs = regs]
                   [] x = "formal"  -> [c EXCEPT !.formal = life["formal"]]
                   [] x = "test"    -> [c EXCEPT !.test = life["test"]]
                   [] x = "combat"  -> [c EXCEPT !.combat = combat]
    BY DEF ReadFor
  <2> HIDE DEF c, at, read
  <2>3. CASE x = "catalog"
    BY <2>1, <2>2, <2>3 DEF Now
  <2>4. CASE x = "regs"
    BY <2>1, <2>2, <2>4 DEF Now
  <2>5. CASE x = "formal"
    BY <2>1, <2>2, <2>5 DEF Now
  <2>6. CASE x = "test"
    BY <2>1, <2>2, <2>6 DEF Now
  <2>7. CASE x = "combat"
    BY <2>1, <2>2, <2>7 DEF Now
  <2> QED
    BY <1>0, <2>3, <2>4, <2>5, <2>6, <2>7
<1>4. \A command : Now(command)' = Now(command)
  BY <1>1 DEF Now, inApi
<1>5. /\ check'.at = at /\ check'.command = check.command /\ check'.read = read
      /\ \A y \in DOMAIN Unread : check'[y] = V(y)
  <2> HIDE DEF V, at, read
  <2> QED
    BY <1>0, <1>3
<1>6. \A y \in DOMAIN Unread : calm /\ check.read[y] => check[y] = Now(check.command)[y]
  BY <1>1 DEF CheckOK
<1>7. \A y \in DOMAIN Unread : calm /\ read[y] => check'[y] = Now(check.command)[y]
  BY <1>5, <1>6
<1>8. at = "pick" => \A y \in DOMAIN Unread : read[y]
  OBVIOUS
<1>9. check' = [at |-> check'.at, command |-> check'.command,
                read |-> [y \in DOMAIN Unread |-> check'.read[y]], catalog |-> check'.catalog,
                regs |-> check'.regs, formal |-> check'.formal, test |-> check'.test,
                combat |-> check'.combat]
  <2>1. [y \in DOMAIN Unread |-> read[y]] = read
    OBVIOUS
  <2> HIDE DEF V, at, read
  <2> QED
    BY <1>3, <2>1
<1>10. at \in {"pick", "reading"}
  OBVIOUS
<1>11. calm' = calm /\ calm \in BOOLEAN
  BY <1>1 DEF CheckOK
<1> HIDE DEF V, at, read
<1> QED
  BY <1>4, <1>5, <1>7, <1>8, <1>9, <1>10, <1>11 DEF CheckOK

LEMMA CheckAnswers ==
  ASSUME ImageOK, CheckOK, Answer
  PROVE  CheckOK'
<1>1. check.at = "pick" /\ UNCHANGED <<inApi, report, calm>>
  BY DEF Answer, bot
<1> DEFINE Published(onDisk) == IF check.command = "signups" THEN onDisk ELSE 0
           published == Published(report.manifest)
           Choice(onDisk) == Pick(Expected(check), check.formal, check.test, Published(onDisk))
           pick == Choice(report.manifest)
<1>2. /\ check'.at = "done" /\ check'.command = check.command
      /\ calm => /\ check'.wrong = Compared(check, pick)
                 /\ check'.without = Uncovered(check, pick)
  <2>1. PICK onDisk \in {report.manifest} \cup (IF Between THEN {0} ELSE {}) :
          /\ check'.at = "done" /\ check'.command = check.command
          /\ check'.wrong = Compared(check, Choice(onDisk))
          /\ check'.without = Uncovered(check, Choice(onDisk))
    BY DEF Answer
  <2>2. calm => onDisk = report.manifest
    BY <2>1 DEF ImageOK
  <2> HIDE DEF Choice
  <2> QED
    BY <2>1, <2>2
<1>3. ASSUME calm
      PROVE  /\ check.catalog = catalog /\ check.regs = regs /\ check.formal = life["formal"]
             /\ check.test = life["test"] /\ check.combat = combat
  BY <1>1, <1>3 DEF CheckOK, Unread, Now
<1>4. ASSUME calm
      PROVE  /\ Compared(check, pick) = Compared(Now(check.command), Chosen(check.command))
             /\ Uncovered(check, pick) = Uncovered(Now(check.command), Chosen(check.command))
  <2>1. Expected(check) = Expected(Now(check.command))
    BY <1>3, <1>4 DEF Expected, Now
  <2>2. pick = Chosen(check.command)
    BY <1>3, <1>4, <2>1 DEF Chosen
  <2>3. \A r : Compared(check, r) = Compared(Now(check.command), r)
    <3> DEFINE now == Now(check.command)
    <3>1. check.catalog = now.catalog /\ check.regs = now.regs /\ check.combat = now.combat
      BY <1>3, <1>4 DEF Now
    <3> HIDE DEF now
    <3>2. \A r : Compared(check, r) = Compared(now, r)
      BY <3>1, Zenon DEF Compared
    <3> QED
      BY <3>2 DEF now
  <2>4. \A r : Uncovered(check, r) = Uncovered(Now(check.command), r)
    BY <1>3, <1>4 DEF Uncovered, Now
  <2> QED
    BY <2>2, <2>3, <2>4
<1>5. \A command : Now(command)' = Now(command) /\ Chosen(command)' = Chosen(command)
  BY <1>1 DEF Now, Chosen, inApi
<1> HIDE DEF pick
<1> QED
  BY <1>1, <1>2, <1>4, <1>5 DEF CheckOK

LEMMA WeeklyCheck ==
  ASSUME ImageOK, CheckOK, WeeklyNext
  PROVE  CheckOK'
<1>1. CASE StartCheck
  BY <1>1, CheckStarts
<1>2. CASE \E x \in DOMAIN Unread : ReadFor(x)
  BY <1>2, CheckReads
<1>3. CASE Answer
  BY <1>3, CheckAnswers
<1>4. CASE SignUp \/ NewWeek \/ UploadNext \/ UploadRegistrations \/ PutCombat \/ LookPair
           \/ \E p \in Makers : Save(p) \/ Manifest(p)
  <2>1. check' = check /\ calm' = FALSE
    BY <1>4 DEF SignUp, NewWeek, UploadNext, UploadCatalogue, UploadRegistrations, PutCombat,
         Manifest, LookPair, Save, PutSecond, BreakOff
  <2> QED
    BY <2>1, CheckRests
<1>5. CASE LookDraw \/ \E p \in Makers : Render(p)
  <2>1. check' = check /\ (calm' = FALSE \/ UNCHANGED <<calm, report, inApi>>)
    BY <1>5 DEF LookDraw, Render, PutFirst
  <2> QED
    BY <2>1, CheckRests
<1>6. CASE Build \/ Capture \/ LookUp \/ LookManifest \/ LookImage \/ \E p \in Makers : Generate(p)
  <2>1. UNCHANGED <<check, calm, report, inApi>>
    BY <1>6 DEF Build, Capture, LookUp, LookManifest, LookImage, Generate, bot
  <2> QED
    BY <2>1, CheckRests
<1> QED
  BY <1>1, <1>2, <1>3, <1>4, <1>5, <1>6 DEF WeeklyNext

LEMMA WeeklyNextInv == WeeklyInv /\ [WeeklyNext]_weeklyVars => WeeklyInv'
<1> SUFFICES ASSUME GameOK, PageOK, CatalogOK, RunsOK, ImageOK, CheckOK,
                    [WeeklyNext]_weeklyVars
             PROVE  WeeklyInv'
  BY DEF WeeklyInv
<1>1. CASE WeeklyNext
  BY <1>1, WeeklyGame, WeeklyPage, WeeklyCatalog, WeeklyRuns, WeeklyImage, WeeklyCheck
     DEF WeeklyInv
<1>2. CASE UNCHANGED weeklyVars
  <2>1. UNCHANGED <<week, signup, room, page, catalog, regs, life, combat, runs, making, report,
                    torn, look, check, calm>>
    BY <1>2 DEF weeklyVars, inGame, inApi, bot
  <2>2. GameOK' /\ PageOK' /\ CatalogOK' /\ RunsOK'
    BY <2>1 DEF GameOK, PageOK, CatalogOK, RunsOK
  <2>3. ImageOK'
    <3>1. Midway' = Midway
      BY <2>1 DEF Midway
    <3> QED
      BY <2>1, <3>1, ImageRests
  <2>4. CheckOK'
    BY <2>1, CheckRests DEF inApi
  <2> QED
    BY <2>2, <2>3, <2>4 DEF WeeklyInv
<1> QED
  BY <1>1, <1>2

LEMMA WeeklyInvHolds == WeeklySpec => []WeeklyInv
BY WeeklyInitInv, WeeklyNextInv, PTL DEF WeeklySpec

\* One of two runs is the newest.
LEMMA NewestOfTwo ==
  ASSUME NEW a, NEW b, NEW S, S \subseteq {a, b}, S # {},
         \A r \in S : r.number \in Nat
  PROVE  Newest(S) \in S
<1>1. \E r \in S : \A q \in S : r.number >= q.number
  <2>1. CASE \E r \in S : S = {r}
    BY <2>1
  <2>2. CASE S = {a, b}
    BY <2>2
  <2> QED
    BY <2>1, <2>2
<1> QED
  BY <1>1 DEF Newest

\* With current rows, a member's registration is the member's signup.
LEMMA RegisteredIsSignup ==
  ASSUME GameOK, CatalogOK, CatalogueIsCurrent, RowsAreCurrent, NEW m \in Members,
         NEW k \in Kinds
  PROVE  Registered(regs, Of(k, Active(regs, catalog)), m) = signup[m][k]
<1>1. Of(k, Active(regs, catalog)) = Of(k, SetOf[week])
  <2>1. catalog # Null /\ catalog.week = week /\ DOMAIN catalog.cap = SetOf[week]
    BY DEF CatalogueIsCurrent, CatalogOK
  <2>2. SetOf[week] \subseteq Trials
    BY WeeksAssumption DEF GameOK
  <2>3. \A t \in Of(k, SetOf[week]) : regs[t] # Null /\ regs[t].week = week
    BY DEF RowsAreCurrent
  <2> QED
    BY <2>1, <2>2, <2>3 DEF Of, Active
<1> DEFINE mine == {t \in Of(k, SetOf[week]) : m \in regs[t].members}
<1>2. mine = {t \in Of(k, SetOf[week]) : signup[m][k] = t}
  BY DEF RowsAreCurrent
<1>3. Registered(regs, Of(k, Active(regs, catalog)), m)
        = IF mine = {} THEN Off ELSE CHOOSE t \in mine : \A u \in mine : t >= u
  BY <1>1 DEF Registered
<1>4. signup[m][k] \in Of(k, SetOf[week]) \cup {Off} /\ Of(k, SetOf[week]) \subseteq Nat \ {0}
  BY WeeksAssumption DEF GameOK, Of
<1> HIDE DEF mine
<1>5. CASE signup[m][k] = Off
  <2>1. mine = {}
    BY <1>2, <1>4, <1>5 DEF Off
  <2> QED
    BY <1>3, <1>5, <2>1
<1>6. CASE signup[m][k] # Off
  <2>1. mine = {signup[m][k]} /\ signup[m][k] \in Nat
    BY <1>2, <1>4, <1>6
  <2>2. (CHOOSE t \in mine : \A u \in mine : t >= u) = signup[m][k]
    BY <2>1
  <2> QED
    BY <1>3, <2>1, <2>2
<1> QED
  BY <1>5, <1>6

\* What a check would answer now is right, when what it reads is up to date.
LEMMA AnswerIsTrue ==
  ASSUME GameOK, CatalogOK, RunsOK, CatalogueIsCurrent
  PROVE  /\ /\ RowsAreCurrent /\ OfThisWeek # {}
            /\ \A r \in Stored : r.number = report.manifest => r.week = week
            => Compared(Now("signups"), Chosen("signups"))["skilling"]
                 = {m \in Members : InForce.slot[m] # signup[m]["skilling"]}
         /\ \A pick : RowsAreCurrent /\ combat # Null
            => Compared(Now("signups"), pick)["combat"]
                 = {m \in Members : combat.slot[m] # signup[m]["combat"]}
         /\ OfThisWeek # {} /\ combat # Null
            => Uncovered(Now("cover"), Chosen("cover"))
                 = {m \in Members : Newest(OfThisWeek).slot[m] = Off /\ combat.slot[m] = Off}
<1> DEFINE Preferred(n) == {r \in Stored : r.number = n}
<1>0. /\ \A r \in Stored : r.number \in Nat \ {0}
      /\ catalog # Null /\ catalog.week = week
  BY DEF Stored, RunsOK, Suits, CatalogueIsCurrent
<1>1. \A command : Expected(Now(command)) = week
  BY <1>0 DEF Expected, Now
<1>2. \A S \in SUBSET OfThisWeek : S # {} => Newest(S) \in S
  <2>1. /\ OfThisWeek \subseteq {life["formal"], life["test"]}
        /\ \A r \in OfThisWeek : r.number \in Nat
    BY <1>0 DEF OfThisWeek, Stored
  <2> QED
    BY <2>1, NewestOfTwo
<1>3. \A n : Preferred(n) \subseteq OfThisWeek /\ OfThisWeek # {} =>
        Pick(week, life["formal"], life["test"], n)
          = IF Preferred(n) # {} THEN Newest(Preferred(n)) ELSE Newest(OfThisWeek)
  <2> SUFFICES ASSUME NEW n, Preferred(n) \subseteq OfThisWeek, OfThisWeek # {}
               PROVE  Pick(week, life["formal"], life["test"], n)
          = IF Preferred(n) # {} THEN Newest(Preferred(n)) ELSE Newest(OfThisWeek)
    OBVIOUS
  <2>1. {r \in {life["formal"], life["test"]} \ {Null} : r.week = week} = OfThisWeek
    BY DEF OfThisWeek, Stored
  <2>2. {r \in {life["formal"], life["test"]} \ {Null} : r.number = n} = Preferred(n)
    BY DEF Stored
  <2>3. Preferred(n) \cap OfThisWeek = Preferred(n)
    OBVIOUS
  <2> HIDE DEF Preferred
  <2> QED
    BY <2>1, <2>2, <2>3 DEF Pick
<1>4. ASSUME RowsAreCurrent, OfThisWeek # {},
             \A r \in Stored : r.number = report.manifest => r.week = week
      PROVE  Compared(Now("signups"), Chosen("signups"))["skilling"]
               = {m \in Members : InForce.slot[m] # signup[m]["skilling"]}
  <2>1. Preferred(report.manifest) = {r \in OfThisWeek : r.number = report.manifest}
    BY <1>4 DEF OfThisWeek
  <2>2. Chosen("signups") = InForce
    <3>1. Chosen("signups") = Pick(week, life["formal"], life["test"], report.manifest)
      BY <1>1 DEF Chosen
    <3>2. Chosen("signups") = IF Preferred(report.manifest) # {}
                              THEN Newest(Preferred(report.manifest)) ELSE Newest(OfThisWeek)
      BY <1>3, <1>4, <2>1, <3>1
    <3> QED
      BY <2>1, <3>2 DEF InForce
  <2>3. InForce # Null
    <3>1. InForce \in OfThisWeek
      <4> DEFINE seen == {r \in OfThisWeek : r.number = report.manifest}
      <4>1. seen # {} => Newest(seen) \in seen
        BY <1>2
      <4> QED
        BY <1>2, <1>4, <4>1 DEF InForce
    <3> QED
      BY <3>1 DEF OfThisWeek, Stored
  <2>4. \A m \in Members :
          Registered(regs, Of("skilling", Active(regs, catalog)), m) = signup[m]["skilling"]
    BY <1>4, RegisteredIsSignup DEF Kinds
  <2>5. Compared(Now("signups"), Chosen("signups"))["skilling"]
          = {m \in Members : SlotIn(InForce, m)
               # Registered(regs, Of("skilling", Active(regs, catalog)), m)}
    BY <1>0, <2>2 DEF Compared, Now, Kinds
  <2> QED
    BY <2>3, <2>4, <2>5 DEF SlotIn
<1>5. ASSUME NEW pick, RowsAreCurrent, combat # Null
      PROVE  Compared(Now("signups"), pick)["combat"]
               = {m \in Members : combat.slot[m] # signup[m]["combat"]}
  <2>1. \A m \in Members :
          Registered(regs, Of("combat", Active(regs, catalog)), m) = signup[m]["combat"]
    BY <1>5, RegisteredIsSignup DEF Kinds
  <2>2. Compared(Now("signups"), pick)["combat"]
          = {m \in Members : SlotIn(combat, m)
               # Registered(regs, Of("combat", Active(regs, catalog)), m)}
    BY <1>0 DEF Compared, Now, Kinds
  <2> QED
    BY <1>5, <2>1, <2>2 DEF SlotIn
<1>6. ASSUME OfThisWeek # {}, combat # Null
      PROVE  Uncovered(Now("cover"), Chosen("cover"))
               = {m \in Members : Newest(OfThisWeek).slot[m] = Off /\ combat.slot[m] = Off}
  <2>1. Preferred(0) = {}
    BY <1>0
  <2>2. Chosen("cover") = Pick(week, life["formal"], life["test"], 0)
    BY <1>1 DEF Chosen
  <2>3. Chosen("cover") = Newest(OfThisWeek)
    BY <1>3, <1>6, <2>1, <2>2
  <2>4. Newest(OfThisWeek) # Null
    BY <1>2, <1>6 DEF OfThisWeek, Stored
  <2> QED
    BY <1>6, <2>3, <2>4 DEF Uncovered, SlotIn, Now
<1> QED
  BY <1>4, <1>5, <1>6

\* The commands that compare assignments with signups, or look for members without
\* one, name the right members if their sources were up to date and rested.
THEOREM CheckIsTrueHolds == WeeklySpec => []CheckIsTrue
<1>1. WeeklyInv => CheckIsTrue
  <2> SUFFICES ASSUME GameOK, CatalogOK, RunsOK, CheckOK, check.at = "done", calm,
                      CatalogueIsCurrent
               PROVE
        /\ check.command = "signups" /\ RowsAreCurrent /\ OfThisWeek # {}
             /\ (\A r \in Stored : r.number = report.manifest => r.week = week)
             => check.wrong["skilling"] =
                  {m \in Members : InForce.slot[m] # signup[m]["skilling"]}
        /\ check.command = "signups" /\ RowsAreCurrent /\ combat # Null /\ combat.week = week
             => check.wrong["combat"] =
                  {m \in Members : combat.slot[m] # signup[m]["combat"]}
        /\ check.command = "cover" /\ OfThisWeek # {} /\ combat # Null /\ combat.week = week
             => check.without =
                  {m \in Members : Newest(OfThisWeek).slot[m] = Off /\ combat.slot[m] = Off}
    BY DEF WeeklyInv, CheckIsTrue
  <2>1. /\ check.wrong = Compared(Now(check.command), Chosen(check.command))
        /\ check.without = Uncovered(Now(check.command), Chosen(check.command))
    BY DEF CheckOK
  <2> QED
    BY <2>1, AnswerIsTrue
<1> QED
  BY <1>1, WeeklyInvHolds, PTL

\* The image under a life assignment's text is that assignment's, or that of a run
\* whose writer was at work while the command read, never one that had been replaced
\* before or is still to come, unless two writers overlapped or one broke off and none
\* began alone since.
THEOREM ShownIsFormalHolds == WeeklySpec => []ShownIsFormal
<1>1. WeeklyInv => ShownIsFormal
  BY DEF WeeklyInv, ImageOK, LookOK
<1> QED
  BY <1>1, WeeklyInvHolds, PTL

\* A stored assignment keeps to the trials of its week and to the places they have,
\* whatever capacities were carried over from earlier weeks.
THEOREM AssignmentsFitHolds == WeeklySpec => []AssignmentsFit
<1>1. WeeklyInv => AssignmentsFit
  <2> SUFFICES ASSUME RunsOK, NEW r \in Stored PROVE Suits(r, room)
    BY DEF WeeklyInv, Suits, AssignmentsFit
  <2> QED
    BY DEF RunsOK, Stored
<1> QED
  BY <1>1, WeeklyInvHolds, PTL
=============================================================================
