---------------------------- MODULE MCPluginSync ----------------------------
(* Two characters of one account.  A behaviour looks at highlights, at     *)
(* uploads, or at one kind of highlights with an upload that is given up   *)
(* before it asks the API; behind that it touches nothing they use.  Of    *)
(* uploads alone: two that may overlap while the game changes once and all *)
(* that is taken in has a known owner, or one at a time while the game     *)
(* changes twice, or once if an owner is not known; or one at a time and a *)
(* request it gave up, while the game changes once.                        *)
EXTENDS PluginSync

CONSTANTS a, b, life
VARIABLE focus

MCPosts == <<"weekly">>

\* a plays; the caches are b's.
MCInit ==
    /\ SyncInit /\ focus \in {"overlaps", "changes", "late", "highlights", "together"}
    /\ present = a /\ gear[a] = 1 /\ gear[b] = 1
    /\ cache = [of |-> b, pieces |-> 1]

MCUpload == focus # "highlights" /\ focus' = focus

MCNext ==
    /\ \/ CaptureNext
       \/ MCUpload /\ UploadNext
       \/ focus \in {"highlights", "together"} /\ MarkNext
    /\ focus = "overlaps" => moves' <= 1 /\ ~state'.stray
    /\ focus = "late" => moves' <= 1 /\ ~state'.stray /\ call'[2] = Idle
    /\ focus # "late" => adrift' = {}
    /\ focus = "changes" => call'[2] = Idle /\ (state'.stray => moves' <= 1)
    /\ focus = "together" =>
         /\ moves' <= 1 /\ wire' = <<>> /\ call'[2] = Idle
         /\ ~state'.stray /\ ~running'
         /\ ~mark'[life].fetching /\ mark'[life].shown = Nobody
    /\ focus' = focus

MCVars == <<syncVars, focus>>

MCSpec == MCInit /\ [][MCNext]_MCVars
=============================================================================
