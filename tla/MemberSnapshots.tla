-------------------------- MODULE MemberSnapshots --------------------------
(***************************************************************************)
(* The snapshots that members upload, beside the membership tables of      *)
(* GuildRoster.  The two upload handlers are the only ones that look at    *)
(* the tables before they have read the body: an upload is accepted in one *)
(* step and stored in another, and rosters, requests and other uploads may *)
(* come between.                                                           *)
(*                                                                         *)
(* Of a snapshot only what the merge with the previous one tells apart is  *)
(* kept: which of the permanent-buff fields it has, whether it is flagged  *)
(* as a full capture, and a value for what they hold.                      *)
(***************************************************************************)
EXTENDS GuildRoster

CONSTANTS
  Slots,    \* requests in flight at a time
  Fields,   \* houseRooms, achievements, shrines
  Values,   \* contents of those fields
  Idle      \* a slot with no request

Flags == {"unset", "false", "true"}  \* permanentBuffsCaptured

VARIABLES
  upload,    \* the member of each request in flight
  latest,    \* the payload last stored for each member
  captured,  \* history: the contents of the last full capture stored
  muddled    \* history: the members who since stored something that is
             \* neither a full capture nor what an old client sends

snapVars == <<rosterVars, upload, latest, captured, muddled>>

Payloads == [fields : SUBSET Fields, flag : Flags, value : Values]

ASSUME SnapshotsAssumption == None \notin Payloads /\ None \notin Values /\ Idle \notin Names

(* sanitizeMemberSnapshot refuses a flag that the fields do not bear out. *)
Accepted(p) == p.flag = "true" => p.fields = Fields

Full(p) == p.flag = "true" /\ p.fields = Fields

(* What an old client sends: no field and no flag. *)
Legacy(p) == p.fields = {} /\ p.flag = "unset"

CarriesMutant(m, p) == FALSE

(* mergeMemberSnapshot and previousPermanentBuffs: the latest row, if it   *)
(* is a full capture, lends its fields to what an old client sends.        *)
Carries(m, p) == Legacy(p) /\ latest[m] # None /\ Full(latest[m])

Merged(m, p) == IF Carries(m, p) THEN latest[m] ELSE p

-----------------------------------------------------------------------------
SnapInit ==
  /\ RosterInit
  /\ upload = [s \in Slots |-> Idle]
  /\ latest = [m \in Names |-> None]
  /\ captured = [m \in Names |-> None]
  /\ muddled = {}

(* The public route asks for an active member. *)
Begin ==
  \E s \in Slots, m \in active :
    /\ upload[s] = Idle
    /\ upload' = [upload EXCEPT ![s] = m]
    /\ UNCHANGED <<rosterVars, latest, captured, muddled>>

(* The other route asks for the member's token as well. *)
BeginWithToken ==
  \E s \in Slots, m \in active, t \in Tokens :
    /\ upload[s] = Idle
    /\ token[m] = t
    /\ upload' = [upload EXCEPT ![s] = m]
    /\ UNCHANGED <<rosterVars, latest, captured, muddled>>

(* The body is there: sanitize, merge with the latest row, store, whatever *)
(* has become of the member since the request was accepted.                *)
Store ==
  \E s \in Slots, p \in Payloads : LET m == upload[s] IN
    /\ m # Idle
    /\ Accepted(p)
    /\ latest' = [latest EXCEPT ![m] = Merged(m, p)]
    /\ captured' = [captured EXCEPT ![m] = IF Full(p) THEN p.value ELSE @]
    /\ muddled' = IF Full(p) THEN muddled \ {m}
                  ELSE IF Legacy(p) THEN muddled ELSE muddled \cup {m}
    /\ upload' = [upload EXCEPT ![s] = Idle]
    /\ UNCHANGED rosterVars

(* The body is refused, or never arrives. *)
Refuse ==
  \E s \in Slots :
    /\ upload[s] # Idle
    /\ upload' = [upload EXCEPT ![s] = Idle]
    /\ UNCHANGED <<rosterVars, latest, captured, muddled>>

Membership ==
  /\ SyncRoster \/ PutMember \/ PutBinding \/ DeleteBinding \/ PostRegistrations
  /\ UNCHANGED <<upload, latest, captured, muddled>>

(* A crash loses the requests in flight; the tables are on disk. *)
Reboot ==
  /\ Restart
  /\ upload' = [s \in Slots |-> Idle]
  /\ UNCHANGED <<latest, captured, muddled>>

SnapNext == Begin \/ BeginWithToken \/ Store \/ Refuse \/ Membership \/ Reboot

SnapSpec == SnapInit /\ [][SnapNext]_snapVars

-----------------------------------------------------------------------------
(* Requests and rows are of members that have a row in the table, and a    *)
(* payload flagged as a full capture has every field.                      *)
SnapTypeOK ==
  /\ upload \in [Slots -> known \cup {Idle}]
  /\ latest \in [Names -> {p \in Payloads : Accepted(p)} \cup {None}]
  /\ captured \in [Names -> Values \cup {None}]
  /\ muddled \subseteq known

(* While a member's clients send full captures or none at all, the latest  *)
(* row holds the last capture: through both routes, with requests that     *)
(* overtake each other, and over a departure and a return. Something       *)
(* partial replaces the capture: it is not merged with it.                 *)
CaptureCarried ==
  \A m \in Names \ muddled :
    captured[m] # None =>
      /\ latest[m] # None
      /\ Full(latest[m])
      /\ latest[m].value = captured[m]
=============================================================================
