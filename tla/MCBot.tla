-------------------------------- MODULE MCBot --------------------------------
(***************************************************************************)
(* Two small instances for TLC, one of them at a time (part): two commands *)
(* that the bot handles together while a roster may come in, and the       *)
(* deliveries of answers under a daily quota.                              *)
(***************************************************************************)
EXTENDS BotCommands, ReplyDelivery, TLC

CONSTANTS d1, d2, d3, g1

VARIABLE part

MCRoom == d1 :> g1 @@ d2 :> g1 @@ d3 :> Private
MCReplies ==
  d1 :> << [pieces |-> 2, followups |-> 1] >>
  @@ d2 :> << [pieces |-> 1, followups |-> 0], [pieces |-> 1, followups |-> 0] >>
  @@ d3 :> << [pieces |-> 1, followups |-> 0] >>

\* "Ann" is what a user may type for ann. The two shields are one too many.
MCNames == {"ann", "Ann", "bob", "cid"}
MCFold == [n \in MCNames |-> IF n = "Ann" THEN "ann" ELSE n]
G(place, attack, weapon, days) ==
  [place |-> place, listed |-> TRUE, uploaded |-> TRUE, attack |-> attack, defense |-> 100,
   builds |-> {"shield", "bow"}, weapon |-> weapon, days |-> days, carded |-> FALSE]
MCGear == [n \in MCNames |->
            CASE n = "ann" -> G(1, 110, 12, 7)
              [] n = "Ann" -> [G(4, 0, 0, 0) EXCEPT !.listed = FALSE]
              [] n = "bob" -> G(2, 120, 11, 8)
              [] n = "cid" -> [G(3, 109, 0, 0) EXCEPT !.uploaded = FALSE]]

MCSender == "m1" :> "amy" @@ "m2" :> "ben"

B(qq, type) == [qq |-> qq, type |-> type]
Bindings == [n \in MCNames |-> CASE n = "ann" -> B("amy", "shield")
                                 [] n = "bob" -> B("ben", "shield")
                                 [] OTHER -> Unbound]

\* What amy sends, who is an administrator of a trusted group, and ben, who is none.
ByAmy == { <<"rebind", "Ann", "ben", "bow">>, <<"rebind", "cid", "ben">>,
           <<"unbind", "bob">>, <<"unbind">>, <<"bind", "cid", "ben", "bow">>,
           <<"aura", "Ann", "speed", "9">>, <<"start-assignment">>, <<"help">>, <<>> }
         \cup {<<r>> : r \in Reports}
ByBen == { <<"bind", "ann", "amy", "bow">>, <<"bind", "Ann", "bow">>, <<"bind", "cid", "shield">>,
           <<"bind", "cid", "staff">>, <<"aura", "speed", "9">>, <<"aura", "bob", "speed", "9">>,
           <<"aura", "ann", "speed", "9">>, <<"aura", "speed", "0">>, <<"unbind", "ann">>,
           <<"retired-exclusion", "bob">>, <<"guild-roster">>, <<"profession-distribution">>,
           <<"start-assignment">>, <<"help">>, <<"hello">> }
MCSays == "m1" :> ByAmy @@ "m2" :> ByBen

MCInit ==
  /\ ReplyInit
  /\ \/ /\ part = "commands"
        /\ BotInitFrom({"ann", "bob"}, Bindings)
     \/ /\ part = "replies"
        /\ BotInitFrom({}, Bindings)
        /\ text = [m \in Messages |-> <<"help">>]

MCNext ==
  \/ part = "commands" /\ BotNext /\ UNCHANGED vars
  \/ part = "replies" /\ ReplyNext /\ UNCHANGED botVars

allVars == <<vars, botVars, part>>
MCSpec == MCInit /\ [][MCNext /\ UNCHANGED part]_allVars

\* The fairness of FairReplySpec.
MCFairSpec ==
  /\ MCSpec
  /\ \A d \in Deliveries : WF_vars(Step(d)) /\ WF_vars(SendFails(d))
=============================================================================
