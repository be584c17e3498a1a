--------------------------- MODULE MCTrialCombat ---------------------------
(* A small party, which can do to the enemy and to itself what there is to *)
(* do; the queue that holds the events of such fights, on a few events;    *)
(* and the images of a plan found by such fights, on their way to the      *)
(* chat.  They share no variable, so each behaviour follows one of them.   *)
EXTENDS TrialCombat, EventQueue, ReportAssets

CONSTANT p1
VARIABLE focus

\* Every effect, on one side or the other: p1 controls, its friends heal and
\* revive, the enemies control and make bleed.
TrialSkills ==
  [u \in Units |-> CASE u = p1 -> {"harm", "stun", "blind", "silence"}
                     [] u \in Players \ {p1} -> {"heal", "revive", "spend", "buff"}
                     [] u \in Monsters -> {"stun", "blind", "silence", "bleed"}]

\* Negative priorities are legal.
MCPriority == {-1, 0}

\* Three events that differ: by the priority at one instant, and by the instant
\* though the priority says otherwise; two of the five cancelled at a time.
FewEvents ==
    /\ \A i \in 1..Len(heap) : heap[i].timeNs = 1 => heap[i].priority = -1
    /\ Cardinality(cancelled) <= 2

\* An upload writes the directory of the API, the pipeline its own and the bot's:
\* while one is at work the other rests, perhaps half way.  The two images are taken
\* in the order of the manifest, but by the copy; of the uploads u1 is the first.
ImagesInTurn ==
    /\ (\E u \in Sendings : sending[u].step = "write") => pipeline.step = "idle"
    /\ pipeline.step = "render" => pipeline.left # {"i1"}
    /\ \A r \in Readers : reader[r].left # {"i1"}
    /\ \A u \in Sendings : sending[u].left # {"i1"}
    /\ sending["u1"].step = "idle" => sending["u2"].step = "idle"

Bounded == FewEvents /\ ImagesInTurn

\* A command that shows images changes nothing: nothing need follow its answer.
OneAnswer == \E r \in Readers : reader[r].step \notin {"replied", "refused"}

MCInit ==
    /\ TrialInit /\ Init /\ ReportInit
    /\ focus \in {"fight", "queue", "images"}
    /\ focus # "images" => target = BotDir
MCNext ==
    \/ focus = "fight" /\ TrialNext /\ UNCHANGED <<heapVars, reportVars, focus>>
    \/ focus = "queue" /\ Next /\ UNCHANGED <<vars, reportVars, focus>>
    \/ focus = "images" /\ ReportNext /\ UNCHANGED <<vars, heapVars, focus>>
MCSpec == MCInit /\ [][MCNext]_<<vars, heapVars, reportVars, focus>>
=============================================================================
