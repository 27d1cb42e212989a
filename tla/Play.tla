-------------------------------- MODULE Play --------------------------------
(***************************************************************************)
(* Players on one game server: their parties, their battles and their      *)
(* trades, which share the index under which a character plays.  A login   *)
(* takes an index and a connection, a logout gives both back, and what     *)
(* parties, battles and trade lists remember of them must not pass to the  *)
(* next player.                                                            *)
(***************************************************************************)
EXTENDS Trade

playVars == <<partyVars, battleVars, tradeVars>>

PlayInit == PartyInit /\ BattleStart /\ TradeInit

(* CHAR_login                                                              *)
Login(c, f) == PartyLogin(c) /\ BattleLogin(c) /\ TradeLogin(c, f)

(* CHAR_logout: out of the battle, then out of the party.                  *)
Logout(c) == BattleLogout(c) /\ PartyLogout(c) /\ TradeLogout(c)

(* Parties are joined and made outside battles, of the leader or the pair: *)
(* the one who joins is not asked.                                         *)
Partying ==
    /\ UNCHANGED <<battleVars, tradeVars>>
    /\ \E c \in Char :
          \/ LeaveParty(c)
          \/ \E i \in Kickable : Kick(c, i)
          \/ \E t \in Char : /\ JoinParty(c, t)
                             /\ cmode[LeaderOf(PartyNow, t)] = "NONE"
          \/ \E t \in Char : MakePair(c, t) /\ cmode[c] = "NONE" /\ cmode[t] = "NONE"

ComeOrGo == \E c \in Char : Logout(c) \/ \E f \in Fd : Login(c, f)

PlayNext ==
    \/ ComeOrGo
    \/ Partying
    \/ BattleNext /\ UNCHANGED tradeVars
    \/ TradeNext /\ UNCHANGED <<partyVars, battleVars>>

PlaySpec == PlayInit /\ [][PlayNext]_playVars

(* The type invariant of the three.                                        *)
PlayTypes == PartyTypes /\ BattleTypes /\ TradeTypes
=============================================================================
