------------------------------- MODULE MCPlay -------------------------------
(***************************************************************************)
(* Each execution takes one part of the play, so that no part carries the  *)
(* states of the others:                                                   *)
(*   "trades"   three players trade, over two lists, with one thing;                      *)
(*   "parties"  two join and leave parties in between, over one list;      *)
(*   "fight"    parties, duels and encounters, one battle at a time;       *)
(*   "fights"   the same of two players, in two battles nobody falls in;   *)
(*   "watch"    an encounter nobody falls in, who watches it and those.    *)
(***************************************************************************)
EXTENDS Play, TLC

VARIABLE part

Symmetry == Permutations(Char) \union Permutations(Fd)
              \union Permutations(Battle) \union Permutations(TradeIndex)

Parts == {"trades", "parties", "fight", "fights", "watch"}

Trading == TradeNext /\ UNCHANGED <<partyVars, battleVars>>
Battles == BattleNext /\ UNCHANGED tradeVars

InUse(B)   == {b \in Battle : B[b].mode # "NONE"}
Watched(B) == {b \in Battle : B[b].type = "WATCH"}

AllNext ==
    /\ UNCHANGED part
    /\ \/ /\ part = "trades"
          /\ ComeOrGo \/ Trading
          /\ Cardinality({<<l, i>> \in TradeIndex \X {1, 2} : list'[l].shown[i] > 0}) <= 1
       \/ /\ part = "parties"
          /\ ComeOrGo \/ Partying \/ Trading
          /\ Cardinality({l \in TradeIndex : list'[l].use}) <= 1 /\ Cardinality(on') <= 2
       \/ /\ part \in {"fight", "fights", "watch"}
          /\ ComeOrGo \/ Partying \/ Battles
          /\ CASE part = "fight"  -> Cardinality(InUse(bat')) <= 1
               [] part = "fights" -> down' = {} /\ Cardinality(on') <= 2 /\ Watched(bat') = {}
               [] part = "watch"  -> /\ down' = {}
                                     /\ Cardinality(InUse(bat') \ Watched(bat')) <= 1
                                     /\ \A b \in Battle : bat'[b].type # "P_vs_P"
                                     /\ \A c \in Char : cmode'[c] = "RESCUE" =>
                                           bat'[cindex'[c]].type = "WATCH"

AllInit == PlayInit /\ part \in Parts
AllSpec == AllInit /\ [][AllNext]_<<playVars, part>>
=============================================================================
