---------------------------- MODULE GuildRoster ----------------------------
(***************************************************************************)
(* The membership tables of the guild API (apps/api/server.mjs): the rows  *)
(* of members, their player ids and upload tokens, the QQ bindings, and    *)
(* the combat (or skilling) trial registrations last uploaded.             *)
(*                                                                         *)
(* Every handler reads its body first and then runs to its answer without  *)
(* giving up the thread, so a handler is one action.  Requests refused     *)
(* without a change of state are stuttering steps.  Names differ from      *)
(* their folded forms, since the code compares names in two ways: by       *)
(* toLocaleLowerCase within an upload and by SQLite's lower(), which folds *)
(* ASCII only, against the table.                                          *)
(***************************************************************************)
EXTENDS Naturals, FiniteSets

CONSTANTS
  Names,          \* member ids, as spelled
  Players,        \* the game's player ids
  Tokens,         \* upload tokens the admin gives out
  Fold,           \* toLocaleLowerCase("en-US")
  Lower,          \* SQLite's lower()
  ReporterLists,  \* the reporter lists the server may be started with
  GuardFrom,      \* active rows from which a roster may not shrink at will (10)
  None,           \* no player id: a row no roster has named yet
  Sealed          \* a random token that nobody was told

ASSUME NamesAssumption ==
  /\ ReporterLists \subseteq (SUBSET Names) \ {{}}
  /\ Fold \in [Names -> Names] /\ Lower \in [Names -> Names]
  /\ \A m, n \in Names : Lower[m] = Lower[n] => Fold[m] = Fold[n]
  /\ None \notin Players /\ Sealed \notin Tokens

VARIABLES
  reporters,   \* guildConfig.reporters of the running server
  known,       \* the names with a row in members
  active,      \* the rows with active = 1
  player,      \* game_player_id
  token,       \* member_token
  bound,       \* the members with a row in qq_bindings
  registered,  \* the registrations last stored, by the name uploaded
  roster,      \* the members of the last row of roster_syncs, with their ids
  reporter,    \* its reporter_member_id
  added        \* history: rows activated otherwise since that sync

rosterVars == <<reporters, known, active, player, token, bound, registered,
                roster, reporter, added>>

(* A roster or an upload may not name a player or a folded name twice. *)
Unambiguous(r) ==
  \A m, n \in DOMAIN r : r[m] = r[n] \/ Fold[m] = Fold[n] => m = n

Rosters == {r \in UNION {[S -> Players] : S \in SUBSET Names} : Unambiguous(r)}

(* sanitizeTrialRegistrations compares the names of a kind, not the ids. *)
Uploads == {S \in SUBSET Names : \A m, n \in S : Fold[m] = Fold[n] => m = n}

-----------------------------------------------------------------------------
Nobody == [m \in {} |-> None]

(* initialize() on an empty database, and ensureRegisteredGuilds. *)
RosterInit ==
  /\ reporters \in ReporterLists
  /\ known = reporters /\ active = reporters
  /\ player = [m \in Names |-> None]
  /\ token = [m \in Names |-> Sealed]
  /\ bound = {}
  /\ registered = Nobody /\ roster = Nobody /\ reporter = None
  /\ added = reporters

(* The server starts again, perhaps with another TMD reporter list: rows   *)
(* that exist are left as they are, those of new reporters are active.     *)
Missing(R) == R \ known

(* INSERT ... ON CONFLICT: a row is inserted where there is none. *)
Upserted(S) == known \cup S

Restart ==
  \E R \in ReporterLists :
    /\ reporters' = R
    /\ known' = Upserted(R)
    /\ active' = active \cup Missing(R)
    /\ added' = added \cup (R \ known)
    /\ UNCHANGED <<player, token, bound, registered, roster, reporter>>

(* A roster too small beside a table that is large already is refused. *)
TooSmall(r) ==
  /\ Cardinality(active) >= GuardFrom
  /\ 4 * Cardinality(DOMAIN r) < 3 * Cardinality(active)

(* DELETE FROM qq_bindings of the members that are no longer active. *)
BindingsLeft(r) == bound \cap DOMAIN r

(* The upsert keeps the token of a row that exists. *)
TokenAfter(m) == IF m \in known THEN token[m] ELSE Sealed

PlayerAfterMutant(r, m) ==
  IF m \in DOMAIN r \ known THEN r[m] ELSE player[m]

PlayerAfter(r, m) == IF m \in DOMAIN r THEN r[m] ELSE player[m]

(* POST .../roster *)
SyncRoster ==
  \E r \in Rosters : \E who \in DOMAIN r \cap reporters :
    /\ ~TooSmall(r)
    /\ active' = DOMAIN r
    /\ known' = Upserted(DOMAIN r)
    /\ player' = [m \in Names |-> PlayerAfter(r, m)]
    /\ token' = [m \in Names |-> TokenAfter(m)]
    /\ bound' = BindingsLeft(r)
    /\ roster' = r /\ reporter' = who
    /\ added' = {}
    /\ UNCHANGED <<reporters, registered>>

(* PUT .../admin/guilds/:guild/members: the row is active from now on and  *)
(* keeps the player id it has.                                             *)
PutMember ==
  \E m \in Names, t \in Tokens :
    /\ known' = Upserted({m})
    /\ active' = active \cup {m}
    /\ token' = [token EXCEPT ![m] = t]
    /\ added' = added \cup {m}
    /\ UNCHANGED <<reporters, player, bound, registered, roster, reporter>>

Bindable(m) == m \in active

(* PUT .../qq-bindings/:qq: the member is looked up after the body is read. *)
PutBinding ==
  \E m \in Names :
    /\ Bindable(m)
    /\ bound' = bound \cup {m}
    /\ UNCHANGED <<reporters, known, active, player, token, registered,
                   roster, reporter, added>>

(* DELETE .../qq-bindings/by-member/:member *)
DeleteBinding ==
  \E m \in bound :
    /\ bound' = bound \ {m}
    /\ UNCHANGED <<reporters, known, active, player, token, registered,
                   roster, reporter, added>>

FitsMutant(n, id, m) == m \in active /\ Lower[m] = Lower[n]

(* An entry is taken for an active row whose name differs at most in case  *)
(* and whose player id is the entry's, or is not known yet.                *)
Fits(n, id, m) ==
  /\ m \in active /\ Lower[m] = Lower[n]
  /\ player[m] \in {None, id}

(* POST .../trial-registrations, for the trials of one kind. *)
PostRegistrations ==
  /\ reporters \cap active # {}
  /\ \E S \in Uploads : \E ids \in [S -> Players], rows \in [S -> active] :
       /\ \A n \in S : Fits(n, ids[n], rows[n])
       /\ registered' = [n \in S |-> [member |-> rows[n], id |-> ids[n]]]
  /\ UNCHANGED <<reporters, known, active, player, token, bound,
                 roster, reporter, added>>

RosterNext ==
  \/ Restart \/ SyncRoster \/ PutMember \/ PutBinding \/ DeleteBinding
  \/ PostRegistrations

RosterSpec == RosterInit /\ [][RosterNext]_rosterVars

-----------------------------------------------------------------------------
Registration == [member : Names, id : Players]

(* Every table holds what its columns allow. *)
RosterTypeOK ==
  /\ reporters \in ReporterLists
  /\ known \subseteq Names /\ active \subseteq known /\ bound \subseteq known
  /\ player \in [Names -> Players \cup {None}]
  /\ token \in [Names -> Tokens \cup {Sealed}]
  /\ registered \in UNION {[S -> Registration] : S \in SUBSET Names}
  /\ roster \in Rosters
  /\ reporter \in Names \cup {None}
  /\ added \subseteq active

(* No member who has left is bound to a QQ number, though a roster may     *)
(* remove members between any two admin requests.                          *)
BindingsAreActive == bound \subseteq active

(* The table is what the last roster said, with its player ids, and the    *)
(* members added by hand or by a start since: neither a restart nor a      *)
(* binding brings back a member whom a roster removed.                     *)
RosterIsCurrent ==
  /\ active = DOMAIN roster \cup added
  /\ \A m \in DOMAIN roster : player[m] = roster[m]

(* Whoever sent the last roster is active under the id sent, so that the   *)
(* uploads that follow it in the userscript's round are not refused.       *)
ReporterStaysActive ==
  reporter # None =>
    /\ reporter \in active
    /\ player[reporter] = roster[reporter]

(* The member table holds what the rest of the API relies on.              *)
RosterIsSound == BindingsAreActive /\ RosterIsCurrent /\ ReporterStaysActive

(* Two active rows that differ in case only, or that are one player, are   *)
(* there because somebody added one by hand after the last roster.         *)
ClashesAreAdded ==
  \A m, n \in active :
    /\ m # n
    /\ Fold[m] = Fold[n] \/ (player[m] = player[n] /\ player[m] # None)
    => m \in added \/ n \in added

(* The entries of a stored upload are different members, although their    *)
(* names were compared before the table's spelling replaced them.          *)
RegisteredOnce ==
  \A m, n \in DOMAIN registered :
    m # n => registered[m].member # registered[n].member

(* The upload does not compare player ids, yet no player is stored twice   *)
(* in it, unless under a row added by hand after the last roster.          *)
PlayerRegisteredOnce ==
  [][registered' # registered =>
       \A m, n \in DOMAIN registered' :
         m # n /\ registered'[m].id = registered'[n].id =>
           {registered'[m].member, registered'[n].member} \cap added # {}
    ]_rosterVars

(* A member's token survives rosters and restarts: only the admin's PUT,   *)
(* which adds the member, replaces it.                                     *)
TokenKept ==
  [][\A m \in known : token'[m] # token[m] => m \in added']_rosterVars
=============================================================================
