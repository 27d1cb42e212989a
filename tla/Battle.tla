------------------------------ MODULE Battle ------------------------------
(***************************************************************************)
(* The battles of one game server (gmsv/battle/battle.c): who enters one   *)
(* and how, from the side of the players; the commands they are waited     *)
(* for; the ways out (flight, defeat, the timeouts, the end, a logout);    *)
(* and the battles of those who watch, each linked behind the one it       *)
(* shows.  A character knows its battle by an index and the battle its     *)
(* characters by their seats, and each is changed by a dozen functions.    *)
(*                                                                         *)
(* Enemies and pets are left out, and with them whether a battle against   *)
(* enemies is won: it may be, after any turn.                              *)
(***************************************************************************)
EXTENDS Party, SequencesExt

CONSTANTS Battle,  \* BattleArray
          SideMax, \* BATTLE_PLAYER_MAX
          TurnMax  \* bound: those who flee, fall or rise in one turn

ASSUME BattleAssumption ==
    None \notin Battle /\ SideMax \in Nat /\ SideMax >= PartyMax
    /\ TurnMax \in Nat

VARIABLES bat,     \* BattleArray: [mode, type, hurry, seat, next, before]
          cmode,   \* CHAR_WORKBATTLEMODE
          cindex,  \* CHAR_WORKBATTLEINDEX
          down,    \* characters with CHAR_ISDIE
          watch    \* characters with CHAR_WORKBATTLEWATCH

battleVars == <<bat, cmode, cindex, down, watch>>

BattleMode == {"NONE", "INIT", "BATTLE", "FINISH", "WATCHBC", "WATCHPRE", "WATCHWAIT", "WATCHMOVIE"}
BattleType == {"P_vs_E", "P_vs_P", "WATCH"}
CharMode   == {"NONE", "INIT", "C_WAIT", "C_OK", "RESCUE", "FINAL", "WATCHINIT"}

(* The seats of side 0, and after them those of side 1.                    *)
Seat == 1 .. 2 * SideMax
Side(s) == s * SideMax + 1 .. (s + 1) * SideMax

(* A battle not in use; its type is set anew whenever it is taken.         *)
Unused == [mode |-> "NONE", type |-> "P_vs_E", hurry |-> FALSE,
           seat |-> [i \in Seat |-> None], next |-> None, before |-> None]

BattleTypes ==
    /\ \A b \in Battle :
          /\ bat[b].mode \in BattleMode /\ bat[b].type \in BattleType
          /\ bat[b].hurry \in BOOLEAN
          /\ bat[b].seat \in [Seat -> Char \union {None}]
          /\ {bat[b].next, bat[b].before} \subseteq Battle \union {None}
          /\ bat[b].mode = "NONE" => bat[b] = Unused
    /\ cmode \in [Char -> CharMode]
    /\ cindex \in [Char -> Battle \union {None}]
    /\ down \subseteq on /\ watch \subseteq on

BattleStart ==
    /\ bat = [b \in Battle |-> Unused]
    /\ cmode = [c \in Char |-> "NONE"]
    /\ cindex = [c \in Char |-> None]
    /\ down = {}
    /\ watch = {}

(***************************************************************************)
(* The functions, on the battles as they stand                             *)
(***************************************************************************)
Field == [bat |-> bat, cmode |-> cmode, cindex |-> cindex, down |-> down, watch |-> watch]
FieldBecomes(F) == /\ bat' = F.bat
                   /\ cmode' = F.cmode /\ cindex' = F.cindex
                   /\ down' = F.down /\ watch' = F.watch

With(F, b, B) == [F EXCEPT !.bat = [F.bat EXCEPT ![b] = B]]
ModeOf(F, D, m) == [F EXCEPT !.cmode = [c \in Char |-> IF c \in D THEN m ELSE F.cmode[c]]]
Seated(F, b, I) == {F.bat[b].seat[i] : i \in I} \intersect on

(* The battles of the watchers of b: pNext and so on to the end, the least *)
(* set that nothing leads out of.                                          *)
Onward(F, S) == {F.bat[d].next : d \in S} \ {None}
Chain(F, b) ==
    {d \in Battle : \A S \in SUBSET Battle : Onward(F, S \union {b}) \subseteq S => d \in S}

(* BATTLE_NewEntry, BATTLE_WatchNewEntry (m = WATCHINIT): the first seat   *)
(* of the side.                                                            *)
CanEnter(F, b, s) ==
    /\ F.bat[b].mode # "NONE"
    /\ F.bat[b].type = "P_vs_E" => s = 0
    /\ \E i \in Side(s) : F.bat[b].seat[i] = None

Enter(F, c, b, s, m) ==
    LET i == FirstOf({j \in Side(s) : F.bat[b].seat[j] = None})
        B == [F.bat[b] EXCEPT !.seat = [F.bat[b].seat EXCEPT ![i] = c]]
    IN  [bat |-> [F.bat EXCEPT ![b] = B],
         cmode |-> [F.cmode EXCEPT ![c] = m], cindex |-> [F.cindex EXCEPT ![c] = b],
         down |-> F.down,
         watch |-> IF m = "WATCHINIT" THEN F.watch \union {c} ELSE F.watch \ {c}]

EnterPartyOfAnyMode(F, c, b, s, m) ==
    LET entered[i \in Place] ==
          IF i = 0 THEN Enter(F, c, b, s, m)
          ELSE IF pslot[c][i] \in on THEN Enter(entered[i - 1], pslot[c][i], b, s, m)
          ELSE entered[i - 1]
    IN  entered[PartyMax - 1]

(* BATTLE_PartyNewEntry, BATTLE_WatchPartyNewEntry: c and, in the order of *)
(* its places, the members that are in no battle.                          *)
EnterIfFree(F, c, b, s, m) ==
    IF c \in on /\ F.cmode[c] = "NONE" THEN Enter(F, c, b, s, m) ELSE F

EnterParty(F, c, b, s, m) ==
    LET entered[i \in Place] ==
          IF i = 0 THEN Enter(F, c, b, s, m)
          ELSE EnterIfFree(entered[i - 1], pslot[c][i], b, s, m)
    IN  entered[PartyMax - 1]

(* BATTLE_Exit of everybody in D: each leaves the first seat it has on     *)
(* either side; without one it keeps its mode and its index.               *)
Exit(F, D, b) ==
    LET seat == F.bat[b].seat
        left == {i \in Seat : /\ seat[i] \in D
                              /\ \A s \in {0, 1} : \A j \in Side(s) :
                                    i \in Side(s) /\ j < i => seat[j] # seat[i]}
        gone == {seat[i] : i \in left}
        B    == [F.bat[b] EXCEPT !.seat = [i \in Seat |-> IF i \in left THEN None ELSE seat[i]]]
    IN  IF F.bat[b].mode = "NONE" THEN F
        ELSE [bat    |-> [F.bat EXCEPT ![b] = B],
              cmode  |-> [c \in Char |-> IF c \in gone THEN "FINAL" ELSE F.cmode[c]],
              cindex |-> [c \in Char |-> IF c \in gone THEN None ELSE F.cindex[c]],
              down   |-> F.down \ gone, watch |-> F.watch]

(* CHAR_DischargeParty of those, in the order of their seats.              *)
DischargeIf(P, c, D) == IF c \in D THEN Discharge(P, c) ELSE P

DischargeAll(P, F, D, b) ==
    LET out[i \in 0 .. 2 * SideMax] ==
          IF i = 0 THEN P ELSE DischargeIf(out[i - 1], F.bat[b].seat[i], D)
    IN  out[2 * SideMax]

(* BATTLE_WatchLink, BATTLE_WatchUnLink                                    *)
Link(F, top, b) ==
    LET n == F.bat[top].next
    IN  [F EXCEPT !.bat = [d \in Battle |->
           CASE d = top -> [F.bat[d] EXCEPT !.next = b]
             [] d = b   -> [F.bat[d] EXCEPT !.before = top, !.next = n]
             [] d = n /\ d # b /\ d # top -> [F.bat[d] EXCEPT !.before = b]
             [] OTHER   -> F.bat[d]]]

DeleteLinked(F, b) == With(F, b, Unused)

(* BATTLE_DeleteBattle, BATTLE_WatchUnLink: what is before b and what is   *)
(* next to it are joined.                                                  *)
Delete(F, b) ==
    LET p == F.bat[b].before
        n == F.bat[b].next
    IN  [F EXCEPT !.bat = [d \in Battle |->
           CASE d = b -> Unused
             [] d = p /\ d # b -> [F.bat[d] EXCEPT !.next = n]
             [] d = n /\ d # b /\ d # p -> [F.bat[d] EXCEPT !.before = p]
             [] OTHER -> F.bat[d]]]

(* BATTLE_PreCommandSeq: the watchers are shown how it stands, and         *)
(* everybody is asked for a command.                                       *)
PreCommand(F, b) ==
    LET shown == [F EXCEPT !.bat = [d \in Battle |->
                    IF d \in Chain(F, b) THEN [F.bat[d] EXCEPT !.mode = "WATCHPRE"] ELSE F.bat[d]]]
    IN  ModeOf(shown, Seated(F, b, Seat), "C_WAIT")

(***************************************************************************)
(* Into a battle                                                           *)
(***************************************************************************)
(* BATTLE_CreateBattle: the search goes on from where the last one ended,  *)
(* any battle not in use.                                                  *)
Create(F, b, type, mode) ==
    With(F, b, [mode |-> mode, type |-> type, hurry |-> FALSE,
                seat |-> [i \in Seat |-> None], next |-> None, before |-> None])
Unwanted(b) == bat[b].mode = "NONE"

(* lssproto_EN_recv, BATTLE_CreateVsEnemy: an encounter, of c and its      *)
(* party.                                                                  *)
Encounter(c, b) ==
    /\ c \in on /\ pmode[c] # "CLIENT" /\ cmode[c] = "NONE"
    /\ Unwanted(b)
    /\ FieldBecomes(EnterParty(Create(Field, b, "P_vs_E", "INIT"), c, b, 0, "INIT"))
    /\ UNCHANGED partyVars

(* lssproto_DU_recv or its window, BATTLE_CreateVsPlayer: t is challenged, *)
(* or the leader of t.                                                     *)
Parent(c) == CASE pmode[c] = "LEADER" -> c
               [] pmode[c] = "CLIENT" -> pslot[c][0]
               [] pmode[c] = "NONE"   -> None

Duel(c, t, b) ==
    LET e == IF pmode[t] = "CLIENT" THEN pslot[t][0] ELSE t
    IN  /\ c \in on /\ pmode[c] # "CLIENT" /\ cmode[c] = "NONE"
        /\ t \in on \ {c} /\ cmode[t] = "NONE"
        /\ e \in on /\ cmode[e] = "NONE"
        /\ Parent(c) # None => Parent(c) # Parent(e)
        /\ Unwanted(b)
        /\ FieldBecomes(EnterParty(EnterParty(Create(Field, b, "P_vs_P", "INIT"),
                                              c, b, 0, "INIT"), e, b, 1, "INIT"))
        /\ UNCHANGED partyVars

(* BATTLE_RescueTry or its window, BATTLE_RescueEntry.  Of a t whose mode  *)
(* is FINAL the index is -1: what lies before BattleArray is read, and c   *)
(* is refused, then or by BATTLE_RescueEntry.                              *)
Rescue(c, t) ==
    /\ c \in on /\ pmode[c] = "NONE" /\ cmode[c] = "NONE"
    /\ t \in on \ {c} /\ cmode[t] # "NONE"
    /\ cindex[t] # None /\ bat[cindex[t]].type = "P_vs_E"
    /\ CanEnter(Field, cindex[t], 0)
    /\ FieldBecomes(Enter(Field, c, cindex[t], 0, "RESCUE"))
    /\ UNCHANGED partyVars

(* BATTLE_WatchTry or its window, BATTLE_WatchEntry: a battle of its own   *)
(* for c and its party, linked behind that of t.                           *)
Watch(c, t, b) ==
    /\ c \in on /\ cmode[c] = "NONE"
    /\ t \in on \ {c} /\ cmode[t] \notin {"NONE", "FINAL"} /\ cindex[t] # None
    /\ Unwanted(b)
    /\ FieldBecomes(EnterParty(Link(Create(Field, b, "WATCH", "WATCHBC"), cindex[t], b),
                               c, b, 0, "WATCHINIT"))
    /\ UNCHANGED partyVars

(***************************************************************************)
(* From the client                                                         *)
(***************************************************************************)
(* BattleCommandDispach, any command that is carried out in a turn.        *)
Command(c) ==
    /\ c \in on
    /\ cindex[c] # None /\ cmode[c] # "NONE"
    /\ cmode' = [cmode EXCEPT ![c] = "C_OK"]
    /\ UNCHANGED <<bat, cindex, down, watch, partyVars>>

(* ... and the command of a watcher to go, BATTLE_WatchStop.               *)
WatchStop(c) ==
    /\ c \in on
    /\ cindex[c] # None /\ cmode[c] # "NONE" /\ c \in watch
    /\ FieldBecomes(Exit(Field, {c}, cindex[c]))
    /\ PartyBecomes(Discharge(PartyNow, c))
    /\ UNCHANGED on

(* lssproto_EO_recv, BattleEncountOut: the client, told of the end, is     *)
(* back on the map, and a member follows its leader into the next battle,  *)
(* if it is let in (BATTLE_RescueParentTry).  The handler does not look at *)
(* the mode: that the client sends EO once it is told of the end, and not  *)
(* before, is an assumption about the client.                              *)
Out(c) == [Field EXCEPT !.cmode = [cmode EXCEPT ![c] = "NONE"],
                        !.cindex = [cindex EXCEPT ![c] = None], !.watch = watch \ {c}]

EncountOut(c) ==
    /\ c \in on /\ cmode[c] = "FINAL"
    /\ UNCHANGED partyVars
    /\ \/ FieldBecomes(Out(c))
       \/ LET l == pslot[c][0]
          IN  /\ pmode[c] = "CLIENT"
              /\ cmode[l] \notin {"NONE", "FINAL"}
              /\ cindex[l] # None /\ bat[cindex[l]].type # "P_vs_P"
              /\ CanEnter(Field, cindex[l], 0)
              /\ FieldBecomes(Enter(Out(c), c, cindex[l], 0, "RESCUE"))

(***************************************************************************)
(* BATTLE_Loop, one battle of it                                           *)
(***************************************************************************)
Fighting(b) == bat[b].mode = "BATTLE"

(* BATTLE_Init                                                             *)
Begin(b) ==
    /\ bat[b].mode = "INIT"
    /\ FieldBecomes(PreCommand(With(Field, b, [bat[b] EXCEPT !.mode = "BATTLE"]), b))
    /\ UNCHANGED partyVars

(* BATTLE_CommandWait: whoever is in the battle only by its seat leaves.   *)
(* late: two minutes after a first command was seen, those who have given  *)
(* none are put out, of the battle and their parties.  over: the same,     *)
(* down or not, once the time of the turn is over (BATTLE_TimeOutCheck).   *)
Waiting(b) == {c \in Seated(Field, b, Seat) : cmode[c] = "C_WAIT"}
Strays(b)  == {c \in Seated(Field, b, Seat) \ down : cmode[c] \in {"NONE", "FINAL"}}
PutOut(b, late, over) == IF over THEN Waiting(b)
                         ELSE IF late THEN Waiting(b) \ down ELSE {}
Late(b) == bat[b].hurry /\ Waiting(b) \ down # {}
Given(b) == \E c \in Seated(Field, b, Seat) \ down : cmode[c] = "C_OK"

Ready(b, late) == /\ late \/ Waiting(b) \subseteq down
                  /\ \A d \in Chain(Field, b) : bat[d].mode = "WATCHMOVIE"

(* The watchers who came since the last turn are shown the battle.         *)
Polled(b, late, over) ==
    LET F == Exit(Field, Strays(b) \union PutOut(b, late, over), b)
        C == Chain(Field, b)
    IN  [F EXCEPT !.bat = [d \in Battle |->
           CASE d = b -> [F.bat[d] EXCEPT !.hurry = F.bat[d].hurry \/ Given(b)]
             [] d \in C \ {b} /\ F.bat[d].mode = "WATCHBC" -> [F.bat[d] EXCEPT !.mode = "WATCHPRE"]
             [] OTHER -> F.bat[d]]]

Poll(b, late) ==
    /\ Fighting(b)
    /\ late => Late(b)
    /\ ~Ready(b, late)
    /\ FieldBecomes(Polled(b, late, FALSE))
    /\ PartyBecomes(DischargeAll(PartyNow, Field, PutOut(b, late, FALSE), b))
    /\ UNCHANGED on

(* BATTLE_Battling: of those who were there before the turn some flee, or  *)
(* are thrown out by a blow, and some fall or rise again.                  *)
Fighters(F, b) == {c \in Seated(F, b, Seat) : F.cmode[c] # "RESCUE"}
Fought(F, b, gone, turned) ==
    LET G == Exit(F, gone, b)
    IN  [G EXCEPT !.down = (G.down \ turned) \union (turned \ G.down)]

(* The end: nobody is up on a side of players, or the enemies are beaten;  *)
(* a side with nobody up goes on if somebody is about to rise again.       *)
Up(F, b, s) == Seated(F, b, Side(s)) \ F.down
MayEnd(F, b)  == \/ F.bat[b].type = "P_vs_E"
                 \/ \E s \in {0, 1} : Up(F, b, s) = {}
MustEnd(F, b) == \/ Seated(F, b, Side(0)) = {}
                 \/ F.bat[b].type = "P_vs_P" /\ Seated(F, b, Side(1)) = {}

(* BATTLE_OnlyRescue: where only helpers are up those who are down leave.  *)
(* For side 1 the flag is set only when side 0 has somebody left: it is    *)
(* read all the same.                                                      *)
Fallen(F, b, s) == Seated(F, b, Side(s)) \intersect F.down
OnlyHelpers(F, b, s) == \A c \in Up(F, b, s) : F.cmode[c] = "RESCUE"
Unset(F, b, s) == s = 1 /\ Up(F, b, 0) = {}
MayClear(F, b, s)  == Fallen(F, b, s) # {} /\ (OnlyHelpers(F, b, s) \/ Unset(F, b, s))
MustClear(F, b, s) == Fallen(F, b, s) # {} /\ Up(F, b, s) # {} /\ OnlyHelpers(F, b, s)
                      /\ ~Unset(F, b, s)
Cleared(F, b, S) == Exit(F, UNION {Fallen(F, b, s) : s \in S}, b)

ToClear(F, b) == {S \in SUBSET {0, 1} : \A s \in {0, 1} : (s \in S => MayClear(F, b, s))
                                                      /\ (MustClear(F, b, s) => s \in S)}

(* BATTLE_Command, when the turn is on.                                    *)
Turn(b, late, over, end) ==
    LET P == Polled(b, late, over)
    IN  /\ Fighting(b)
        /\ late => Late(b)
        /\ IF over THEN Waiting(b) # {} \/ ~Ready(b, late) ELSE Ready(b, late)
        /\ UNCHANGED on
        /\ \E gone, turned \in SUBSET Fighters(P, b) :
              /\ gone \intersect turned = {} /\ Cardinality(gone \union turned) <= TurnMax
              /\ LET F == Fought(P, b, gone, turned)
                 IN
                  /\ end => MayEnd(F, b)
                  /\ MustEnd(F, b) => end
                  /\ PartyBecomes(DischargeAll(PartyNow, Field, PutOut(b, late, over) \union gone, b))
                  /\ \E S \in ToClear(F, b) :
                        LET G == PreCommand(Cleared(F, b, S), b)
                        IN  FieldBecomes(With(G, b, [G.bat[b] EXCEPT
                                                       !.hurry = FALSE,
                                                       !.mode = IF end THEN "FINISH" ELSE "BATTLE"]))

(* A battle of watchers is over as soon as nobody is left in it.           *)
Deserted(b) == bat[b].type = "WATCH" /\ bat[b].mode # "NONE" /\ Up(Field, b, 0) = {}

(* BATTLE_WatchPre                                                         *)
WatchPre(b) ==
    /\ bat[b].mode = "WATCHPRE" /\ ~Deserted(b)
    /\ LET F == With(Field, b, [bat[b] EXCEPT !.mode = "WATCHWAIT"])
       IN  FieldBecomes(ModeOf(F, {c \in Seated(F, b, Side(0)) : cmode[c] # "WATCHINIT"}, "C_WAIT"))
    /\ UNCHANGED partyVars

(* BATTLE_WatchWait                                                        *)
WatchWait(b, over) ==
    /\ bat[b].mode = "WATCHWAIT" /\ ~Deserted(b)
    /\ LET F == Exit(Field, PutOut(b, FALSE, over), b)
       IN  FieldBecomes(With(F, b, [F.bat[b] EXCEPT !.mode = "WATCHMOVIE"]))
    /\ PartyBecomes(DischargeAll(PartyNow, Field, PutOut(b, FALSE, over), b))
    /\ UNCHANGED on

(* BATTLE_Finish: everybody leaves, and everybody who watches; of the      *)
(* battles of the watchers only the first is deleted, since it is no more  *)
(* linked to the next one after that.                                      *)
WatchersOut(F, b) ==
    LET C == Chain(F, b)
        D == {c \in Char : F.cindex[c] \in C /\ c \in Seated(F, F.cindex[c], Side(0))}
    IN  [bat |-> [d \in Battle |-> IF d \in C
                    THEN [F.bat[d] EXCEPT !.seat = [i \in Seat |->
                            IF i \in Side(0) THEN None ELSE F.bat[d].seat[i]]]
                    ELSE F.bat[d]],
         cmode |-> [c \in Char |-> IF c \in D THEN "FINAL" ELSE F.cmode[c]],
         cindex |-> [c \in Char |-> IF c \in D THEN None ELSE F.cindex[c]],
         down |-> F.down \ D, watch |-> F.watch]

Finish(b) ==
    /\ bat[b].mode = "FINISH" \/ Deserted(b)
    /\ LET F == Exit(Field, Seated(Field, b, Seat), b)
           G == WatchersOut(F, b)
           n == F.bat[b].next
       IN  FieldBecomes(IF bat[b].type = "WATCH" THEN Delete(F, b)
                        ELSE IF n = None THEN Delete(F, b) ELSE Delete(Delete(G, n), b))
    /\ UNCHANGED partyVars

(***************************************************************************)
(* Coming and going                                                        *)
(***************************************************************************)
(* The work area is zero, and so the index is that of the first battle:    *)
(* there nobody has a seat for c, and it is taken for no battle here.      *)
BattleLogin(c) ==
    /\ cmode' = [cmode EXCEPT ![c] = "NONE"]
    /\ cindex' = [cindex EXCEPT ![c] = None]
    /\ UNCHANGED <<bat, down, watch>>

(* CHAR_logout, what it does to battles; the record is gone afterwards.    *)
BattleLogout(c) ==
    LET F == IF cindex[c] = None THEN Field ELSE Exit(Field, {c}, cindex[c])
    IN  /\ bat' = F.bat
        /\ cmode' = [F.cmode EXCEPT ![c] = "NONE"]
        /\ cindex' = [F.cindex EXCEPT ![c] = None]
        /\ down' = F.down \ {c}
        /\ watch' = F.watch \ {c}

BattleNext ==
    \/ \E c \in Char :
          \/ Command(c) \/ WatchStop(c) \/ EncountOut(c)
          \/ \E b \in Battle : Encounter(c, b)
          \/ \E t \in Char : Rescue(c, t)
          \/ \E t \in Char, b \in Battle : Duel(c, t, b) \/ Watch(c, t, b)
    \/ \E b \in Battle :
          \/ Begin(b) \/ WatchPre(b) \/ Finish(b)
          \/ \E over \in BOOLEAN : WatchWait(b, over)
          \/ \E late \in BOOLEAN : Poll(b, late)
          \/ \E late, over, end \in BOOLEAN : ~(late /\ over) /\ Turn(b, late, over, end)

(***************************************************************************)
(* Properties                                                              *)
(***************************************************************************)
(* Characters and battles tell the same story: who is in a battle has one  *)
(* seat, in the battle of its index, and nobody else has one: neither who  *)
(* has left, nor who took over an index, nor who is back on the map.       *)
BattleAgrees ==
    /\ \A b \in Battle, i \in Seat :
          LET c == bat[b].seat[i]
          IN  c # None => /\ c \in on /\ cmode[c] \notin {"NONE", "FINAL"}
                          /\ cindex[c] = b
                          /\ \A j \in Seat : bat[b].seat[j] = c => i = j
    /\ \A c \in on : cmode[c] \notin {"NONE", "FINAL"} =>
          cindex[c] # None /\ c \in Seated(Field, cindex[c], Seat)

(* The links of the watchers' battles: both ways, between battles in use,  *)
(* from one that is fought to those that show it; and nobody is left       *)
(* watching a battle that is over.                                         *)
LinksAgree ==
    \A b \in Battle :
       /\ bat[b].next # None => /\ bat[bat[b].next].before = b
                                /\ bat[bat[b].next].type = "WATCH"
                                /\ bat[b].mode # "NONE"
       /\ bat[b].before # None => bat[bat[b].before].next = b /\ bat[b].mode # "NONE"
       /\ b \notin Chain(Field, b)
       /\ (bat[b].type = "WATCH" /\ Seated(Field, b, Seat) # {}) => bat[b].before # None
=============================================================================
