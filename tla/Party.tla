------------------------------- MODULE Party -------------------------------
(***************************************************************************)
(* The parties of one game server (gmsv/char/char_party.c): a leader keeps *)
(* its members in slots 1 .. PartyMax - 1 of its work area and itself in   *)
(* slot 0, a member keeps its leader in slot 0.  Nothing else says who is  *)
(* with whom, and an index left behind names whoever logs in under it.     *)
(*                                                                         *)
(* Buses and airplanes, the parties whose leader is not a player, are left *)
(* out, as is the script that leaves a leader alone in its party.          *)
(***************************************************************************)
EXTENDS Integers

CONSTANTS Char,     \* indices of player characters
          None,     \* -1
          PartyMax  \* CHAR_PARTYMAX

ASSUME PartyAssumption == None \notin Char /\ PartyMax \in Nat /\ PartyMax >= 2

VARIABLES on,     \* indices in use: CHAR_CHECKINDEX
          pmode,  \* CHAR_WORKPARTYMODE
          pslot   \* CHAR_WORKPARTYINDEX1 ...

partyVars == <<on, pmode, pslot>>

PMode == {"NONE", "LEADER", "CLIENT"}
Place == 0 .. PartyMax - 1
Member == 1 .. PartyMax - 1
NoSlots == [i \in Place |-> None]
Parties == [mode : [Char -> PMode], slot : [Char -> [Place -> Char \union {None}]]]

PartyTypes ==
    /\ on \subseteq Char
    /\ pmode \in [Char -> PMode]
    /\ pslot \in [Char -> [Place -> Char \union {None}]]

PartyInit ==
    /\ on = {}
    /\ pmode = [c \in Char |-> "NONE"]
    /\ pslot = [c \in Char |-> NoSlots]

(***************************************************************************)
(* The functions, on the parties as they stand: several may be called in   *)
(* one handler.                                                            *)
(***************************************************************************)
PartyNow == [mode |-> pmode, slot |-> pslot]
PartyBecomes(P) == pmode' = P.mode /\ pslot' = P.slot

(* CHAR_getPartyIndex(t, 0), or t itself when t is in no party.            *)
LeaderOf(P, t) ==
    CASE P.mode[t] = "NONE"   -> t
      [] P.mode[t] = "LEADER" -> P.slot[t][0]
      [] P.mode[t] = "CLIENT" -> IF P.slot[t][0] \in on THEN P.slot[P.slot[t][0]][0]
                                 ELSE None

(* CHAR_getEmptyPartyArray: the first free place.                          *)
EmptyPlaces(P, l) == {i \in Member : P.slot[l][i] = None}
FirstOf(I) == CHOOSE i \in I : \A j \in I : i <= j

(* CHAR_JoinParty_Main: c joins the party of t.                            *)
JoinMain(P, c, t) ==
    LET l == LeaderOf(P, t)
        p == FirstOf(EmptyPlaces(P, l))
    IN  [mode |-> [P.mode EXCEPT ![l] = "LEADER", ![c] = "CLIENT"],
         slot |-> [P.slot EXCEPT ![l] = [[P.slot[l] EXCEPT ![0] = l] EXCEPT ![p] = c],
                                 ![c] = [P.slot[c] EXCEPT ![0] = l]]]

(* CHAR_DischargeParty of a leader: everyone in its places, itself in the  *)
(* first, is put in no party.                                              *)
Members(P, l) == {P.slot[l][i] : i \in Place} \intersect on

Disband(P, l) ==
    [mode |-> [x \in Char |-> IF x \in Members(P, l) THEN "NONE" ELSE P.mode[x]],
     slot |-> [x \in Char |-> IF x = l THEN NoSlots
                              ELSE IF x \in Members(P, l) THEN [P.slot[x] EXCEPT ![0] = None]
                              ELSE P.slot[x]]]

(* ... and of a member: the leader's party ends with its last member, and  *)
(* the leader keeps itself in its slot 0.                                  *)
WithoutPlace(P, l, c) ==
    LET mine == {i \in Place : P.slot[l][i] = c}
    IN  IF mine = {} THEN P.slot[l] ELSE [P.slot[l] EXCEPT ![FirstOf(mine)] = None]

Leave(P, c) ==
    LET l    == P.slot[c][0]
        rest == WithoutPlace(P, l, c)
        last == \A i \in Member : rest[i] \notin on
    IN  IF l \notin on THEN [P EXCEPT !.mode = [P.mode EXCEPT ![c] = "NONE"]]
        ELSE [mode |-> [P.mode EXCEPT ![c] = "NONE", ![l] = IF last THEN "NONE" ELSE P.mode[l]],
              slot |-> [P.slot EXCEPT ![c] = [P.slot[c] EXCEPT ![0] = None], ![l] = rest]]

Discharge(P, c) == CASE P.mode[c] = "LEADER" -> Disband(P, c)
                     [] P.mode[c] = "CLIENT" -> Leave(P, c)
                     [] P.mode[c] = "NONE"   -> P

(***************************************************************************)
(* The operations                                                          *)
(***************************************************************************)
(* CHAR_LoginBesideSetWorkInt, the index being any not in use.             *)
PartyLogin(c) ==
    /\ c \notin on
    /\ on' = on \union {c}
    /\ pmode' = [pmode EXCEPT ![c] = "NONE"]
    /\ pslot' = [pslot EXCEPT ![c] = NoSlots]

PartyLogoutStays(c) ==
    /\ c \in on
    /\ on' = on \ {c}
    /\ UNCHANGED <<pmode, pslot>>

(* CHAR_logout, what it does to parties.                                   *)
PartyLogout(c) ==
    /\ c \in on
    /\ PartyBecomes(Discharge(PartyNow, c))
    /\ on' = on \ {c}

(* CHAR_JoinParty, when one player in front will do, or the one that was   *)
(* chosen of several, which CHAR_JoinParty_WindowResult asks for again.    *)
JoinParty(c, t) ==
    /\ c \in on /\ pmode[c] = "NONE"
    /\ t \in on \ {c}
    /\ LeaderOf(PartyNow, t) \in on
    /\ EmptyPlaces(PartyNow, LeaderOf(PartyNow, t)) # {}
    /\ PartyBecomes(JoinMain(PartyNow, c, t))
    /\ UNCHANGED on

(* lssproto_PR_recv, request 0, and every CHAR_DischargePartyNoMsg of the  *)
(* scripts.                                                                *)
LeaveParty(c) ==
    /\ c \in on
    /\ PartyBecomes(Discharge(PartyNow, c))
    /\ UNCHANGED on

(* lssproto_KTEAM_recv: the leader sends the member in place i away.  The  *)
(* places end one too late: behind the last is an object index, which may  *)
(* be the index of anybody.                                                *)
Kickable == 0 .. PartyMax

Kick(c, i) ==
    /\ c \in on /\ pmode[c] = "LEADER"
    /\ \E x \in on : /\ i \in Place => x = pslot[c][i]
                     /\ pmode[x] # "LEADER"
                     /\ PartyBecomes(Discharge(PartyNow, x))
    /\ UNCHANGED on

(* NPC_PairUserAndWarp: two players leave their parties and make one.      *)
MakePair(c, t) ==
    /\ c \in on /\ t \in on \ {c}
    /\ PartyBecomes(JoinMain(Discharge(Discharge(PartyNow, c), t), c, t))
    /\ UNCHANGED on

PartyNext ==
    \E c \in Char :
       \/ PartyLogin(c) \/ PartyLogout(c) \/ LeaveParty(c)
       \/ \E i \in Kickable : Kick(c, i)
       \/ \E t \in Char : JoinParty(c, t) \/ MakePair(c, t)

PartySpec == PartyInit /\ [][PartyNext]_partyVars

(***************************************************************************)
(* Properties                                                              *)
(***************************************************************************)
MemberAgrees(c) ==
    LET l == pslot[c][0]
    IN  /\ l \in on \ {c} /\ pmode[l] = "LEADER"
        /\ \E i \in Member : pslot[l][i] = c
        /\ \A i \in Member : pslot[c][i] = None

LeaderAgrees(l) ==
    /\ pslot[l][0] = l
    /\ \E i \in Member : pslot[l][i] # None
    /\ \A i \in Member : pslot[l][i] # None =>
          /\ pslot[l][i] \in on \ {l}
          /\ pmode[pslot[l][i]] = "CLIENT" /\ pslot[pslot[l][i]][0] = l
          /\ \A j \in Member : pslot[l][j] = pslot[l][i] => i = j

(* Leader and members tell the same story: a member is in one place of one *)
(* leader, who leads somebody; no place names a character that has left,   *)
(* was put out, or whose index has passed to another player.               *)
PartyAgrees ==
    \A c \in Char :
       IF c \in on
       THEN CASE pmode[c] = "CLIENT" -> MemberAgrees(c)
              [] pmode[c] = "LEADER" -> LeaderAgrees(c)
              [] pmode[c] = "NONE"   -> \A i \in Member : pslot[c][i] = None
       ELSE pmode[c] = "NONE"
=============================================================================
