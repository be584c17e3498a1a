----------------------------- MODULE PluginState -----------------------------
(***************************************************************************)
(* What the guild's userscript knows of the character in play: the object  *)
(* state of wi-guild-trial-sync.user.js (the exporter for the other guild  *)
(* is the same code), filled from the page's React tree, the game's caches *)
(* in localStorage and the packets seen on its WebSocket.  All three may   *)
(* speak of another character of the account, or of none.                  *)
(*                                                                         *)
(* A loadout is the number of its pieces of equipment, which is what       *)
(* loadoutRichness ranks it by; 0 is a loadout of which only the name is   *)
(* known.  Every character has one.                                        *)
(***************************************************************************)
EXTENDS Naturals

CONSTANTS
    Characters,  \* the characters of one account
    Nobody,
    MaxPieces,   \* bound: pieces of equipment in a loadout
    MaxSheet     \* bound: versions of the guild's lists

ASSUME CharactersAssumption ==
    Nobody \notin Characters /\ MaxPieces \in Nat /\ MaxSheet \in Nat

Someone == Characters \cup {Nobody}

VARIABLES
    present,      \* who plays, says Game Core or else the URL
    gear,         \* the pieces in each character's loadout, in the game
    sheet,        \* the guild's lists in the game: roster, trials, signups
    cache         \* what init_character_data, initClientData and, apart from
                  \* these, characterSkills hold of some character

game == <<present, gear, sheet, cache>>

Blank == [char |-> Nobody, loads |-> [c \in Characters |-> 0], skills |-> FALSE,
          own |-> FALSE, sheet |-> 0, stray |-> FALSE]

HasCharacterData(s) ==
    s.char # Nobody \/ s.skills \/ \E c \in Characters : s.loads[c] > 0

(* What applyCharacterData is given: the character it names, if any, whose *)
(* loadout it holds, whether skills, the guild's name and its lists.       *)
View(who, of, pieces, skills, guild, version) ==
    [who |-> who, of |-> of, pieces |-> pieces, skills |-> skills,
     guild |-> guild, sheet |-> version, packet |-> FALSE]
Nothing == View(Nobody, Nobody, 0, FALSE, "none", 0)

Ignored(d) == d.who # Nobody /\ d.who # present

\* Mutant: the state is not cleared for another character.
ResetsMutant(s, d) == FALSE
Resets(s, d) == d.who # Nobody /\ s.char # Nobody /\ d.who # s.char

(* confirmedTmdGuild: the own guild, once seen, is not given up for        *)
(* another's name, and another's is as good as none.                       *)
OwnAfter(own, guild) == own \/ guild = "own"

(* loadoutOwnerId: a loadout names its owner.  loadouts_updated packets    *)
(* are merged without the question.                                        *)
LoadoutKept(d) ==
    d.of # Nobody /\ (d.packet \/ d.of = IF d.who # Nobody THEN d.who ELSE present)

(* mergeLoadouts: the richer one of two views of a loadout.                *)
MergeLoadouts(loads, of, pieces) ==
    [loads EXCEPT ![of] = IF pieces >= @ THEN pieces ELSE @]

Applied(s, d) ==
    IF Ignored(d) THEN s
    ELSE LET old == IF Resets(s, d) THEN Blank ELSE s IN
         [char   |-> IF d.who # Nobody THEN d.who ELSE old.char,
          loads  |-> IF LoadoutKept(d)
                     THEN MergeLoadouts(old.loads, d.of, d.pieces) ELSE old.loads,
          skills |-> old.skills \/ d.skills,
          own    |-> OwnAfter(old.own, d.guild),
          sheet  |-> IF d.sheet > 0 THEN d.sheet ELSE old.sheet,
          \* history: something was taken in that names no character and is
          \* not known to be of the one the state is about
          stray  |-> \/ old.stray
                     \/ /\ d.who = Nobody /\ LoadoutKept(d)
                        /\ d.pieces > 0 /\ old.char # d.of]

-----------------------------------------------------------------------------
(* Where views come from.                                                  *)

(* Game Core and the React tree: the character in play, all of it or as    *)
(* yet its name only, and what alts and guild tiles have left behind.      *)
CoreViews ==
    {Nothing, View(present, present, 0, FALSE, "none", 0),
     View(present, present, gear[present], TRUE, "own", sheet)}
Leftovers ==
    {Nothing, View(Nobody, Nobody, 0, FALSE, "foreign", 0)}
      \cup {View(c, c, gear[c], TRUE, "own", 0) : c \in Characters}
      \cup {View(Nobody, c, gear[c], FALSE, "none", 0) : c \in Characters}

(* hydrateFromLiveGame *)
Live(s) == {Applied(Applied(s, v), w) : v \in CoreViews, w \in Leftovers}

(* hydrateFromGameCache: characterSkills does not say whose they are.      *)
Cached(s) ==
    LET t == Applied(s, View(cache.of, cache.of, cache.pieces, TRUE, "none", 0))
    IN  [t EXCEPT !.skills = TRUE]

LiveThenCache(s) == {Cached(t) : t \in Live(s)}
CacheThenLive(s) == Live(Cached(s))

(* recordPacket: packets of the game's socket, by themselves and relayed   *)
(* by the page bridge, which also answers with what the page knows.        *)
Packet(who, of, pieces, skills, guild, version) ==
    [View(who, of, pieces, skills, guild, version) EXCEPT !.packet = TRUE]
InitPacket == Packet(present, present, gear[present], TRUE, "own", sheet)
BridgeState == [InitPacket EXCEPT !.packet = FALSE]
LoadoutPacket == Packet(Nobody, present, gear'[present], FALSE, "none", 0)
GuildPacket == Packet(Nobody, Nobody, 0, FALSE, "own", sheet')
=============================================================================
