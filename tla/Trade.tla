------------------------------- MODULE Trade -------------------------------
(***************************************************************************)
(* The trades of one game server (gmsv/char/trade.c).  A trade list names  *)
(* two characters with their connections and holds what each has shown;    *)
(* each connection keeps the number of its list and whether its player has *)
(* confirmed; each character has a trade mode.  The three are changed one  *)
(* by one, from either side, and a list outlives the players it names.     *)
(*                                                                         *)
(* What is shown is counted: items and pets take the next free place of    *)
(* the side, a sum of gold counts as one thing more.                       *)
(***************************************************************************)
EXTENDS Battle

CONSTANTS Fd,        \* client connections
          TradeIndex,  \* TradeList
          MaxShown   \* bound: places of a side, 15 items and 5 pets in the code

ASSUME TradeAssumption ==
    None \notin Fd /\ None \notin TradeIndex /\ MaxShown \in Nat

VARIABLES fd,     \* getfdFromCharaIndex
          tmode,  \* CHAR_WORKTRADEMODE
          conf,   \* confirm_key of the character's connection
          mylist, \* tradelist of the character's connection
          list,   \* TradeList
          word    \* history: what lay on the table when c pressed for the last time

tradeVars == <<fd, tmode, conf, mylist, list, word>>

TradeMode == {"FREE", "TRADING", "LOCK"}
FreeList  == [use |-> FALSE, who |-> <<None, None>>, fd |-> <<None, None>>, shown |-> <<0, 0>>]

TradeTypes ==
    /\ fd \in [Char -> Fd \union {None}]
    /\ \A c \in Char : c \in on <=> fd[c] # None
    /\ tmode \in [Char -> TradeMode] /\ conf \in [Char -> BOOLEAN]
    /\ mylist \in [Char -> TradeIndex \union {None}]
    /\ \A l \in TradeIndex :
          /\ list[l].use \in BOOLEAN
          /\ \A i \in {1, 2} : /\ list[l].who[i] \in Char \union {None}
                               /\ list[l].fd[i] \in Fd \union {None}
                               /\ list[l].shown[i] \in 0 .. MaxShown

TradeInit ==
    /\ fd = [c \in Char |-> None]
    /\ tmode = [c \in Char |-> "FREE"] /\ conf = [c \in Char |-> FALSE]
    /\ mylist = [c \in Char |-> None]
    /\ list = [l \in TradeIndex |-> FreeList]
    /\ word = [c \in Char |-> None]

(***************************************************************************)
(* The functions, on the trades as they stand                              *)
(***************************************************************************)
Trades == [mode |-> tmode, conf |-> conf, my |-> mylist, list |-> list]

TradesBecome(T) ==
    /\ tmode' = T.mode /\ conf' = T.conf /\ mylist' = T.my /\ list' = T.list
    /\ word' = [c \in Char |-> IF T.mode[c] # "LOCK" THEN None
                               ELSE IF tmode[c] = "LOCK" THEN word[c]
                               ELSE list[mylist[c]].shown]

NamesIn(T, l) == {T.list[l].who[1], T.list[l].who[2]}

ResetListOnly(T, L) ==
    [T EXCEPT !.list = [l \in TradeIndex |-> IF l \in L THEN FreeList ELSE T.list[l]]]

(* TRADE_ResetTradeList of those lists: whoever plays under an index named *)
(* there loses the number of its list, of this one or of another.          *)
ResetList(T, L) ==
    [T EXCEPT !.list = [l \in TradeIndex |-> IF l \in L THEN FreeList ELSE T.list[l]],
              !.my = [c \in Char |-> IF \E l \in L : c \in NamesIn(T, l) /\ c \in on THEN None
                                     ELSE T.my[c]]]

(* TRADE_CheckTradeListUser                                                *)
Swept(T) ==
    ResetList(T, {l \in TradeIndex :
                    T.list[l].use /\ \E c \in NamesIn(T, l) : c \notin on \/ T.mode[c] = "FREE"})

(* TRADE_getMyTarget: both must still be on the connections of the list.   *)
MySides(l, c) == {i \in {1, 2} : list[l].who[i] = c /\ list[l].fd[i] = fd[c]}

Target(c) ==
    LET l == mylist[c]
    IN  IF l = None THEN None
        ELSE IF ~list[l].use \/ MySides(l, c) = {} THEN None
        ELSE LET i == 3 - FirstOf(MySides(l, c))
                 t == list[l].who[i]
             IN  IF t \in on \ {c} /\ list[l].fd[i] = fd[t] THEN t ELSE None

(* TRADE_Close by c: the partner is let go first; without one the client   *)
(* must have named, by f, a connection on which somebody plays.            *)
Freed(T, D) == [T EXCEPT !.mode = [c \in Char |-> IF c \in D THEN "FREE" ELSE T.mode[c]],
                         !.conf = [c \in Char |-> c \notin D /\ T.conf[c]]]

Closed(c, f) ==
    IF Target(c) = None /\ \A x \in on : fd[x] # f THEN Trades
    ELSE LET T == Freed(Trades, {c, Target(c)})
         IN  IF mylist[c] = None THEN T ELSE ResetList(T, {mylist[c]})

(***************************************************************************)
(* The operations                                                          *)
(***************************************************************************)
(* TRADE_Search: t is the one player in front of c who will trade; a list  *)
(* is taken, or, when all are in use, those of nobody are given back.      *)
Unbound(c) == c \in on /\ pmode[c] = "NONE" /\ cmode[c] = "NONE"

Search(c, t) ==
    /\ Unbound(c) /\ tmode[c] = "FREE"
    /\ t # c /\ Unbound(t) /\ tmode[t] = "FREE"
    /\ UNCHANGED fd
    /\ \/ \E l \in TradeIndex :
             /\ ~list[l].use
             /\ TradesBecome([mode |-> [tmode EXCEPT ![c] = "TRADING", ![t] = "TRADING"],
                              conf |-> [conf EXCEPT ![c] = FALSE, ![t] = FALSE],
                              my   |-> [mylist EXCEPT ![c] = l, ![t] = l],
                              list |-> [list EXCEPT ![l] =
                                          [use |-> TRUE, who |-> <<c, t>>,
                                           fd |-> <<fd[c], fd[t]>>, shown |-> <<0, 0>>]]])
       \/ /\ \A l \in TradeIndex : list[l].use
          /\ TradesBecome(Swept(Trades))

(* A game master has the lists of nobody given back (chatmagic.c).         *)
CheckTradeListUser == TradesBecome(Swept(Trades)) /\ UNCHANGED fd

(* TRADE_Close: for the client, and for every TRADE_ShowItem that finds no *)
(* partner or refuses what is shown.                                       *)
CloseTrade(c, f) ==
    /\ c \in on
    /\ TradesBecome(Closed(c, f))
    /\ UNCHANGED fd

(* TRADE_ShowItem, of two who are each other's partners.                   *)
Dealing(c, t) == /\ Target(c) = t /\ t # None /\ Target(t) = c
                 /\ Unbound(c) /\ Unbound(t)

(* ... i, g, p: TRADE_addSomeTradeList.                                    *)
PutDown(l, i) == [list EXCEPT ![l] = [list[l] EXCEPT !.shown = [list[l].shown EXCEPT ![i] = @ + 1]]]

ShowAnyTime(c, t) ==
    /\ Dealing(c, t)
    /\ LET l == mylist[c]
           i == FirstOf({j \in {1, 2} : list[l].who[j] = c})
       IN  /\ list[l].shown[i] < MaxShown
           /\ TradesBecome([Trades EXCEPT !.list = PutDown(l, i)])
    /\ UNCHANGED fd

ShowNoRoom(c, t) ==
    /\ Dealing(c, t)
    /\ ~conf[c] /\ tmode[c] = "TRADING"
    /\ LET l == mylist[c]
           i == FirstOf({j \in {1, 2} : list[l].who[j] = c})
       IN  TradesBecome([Trades EXCEPT !.list = PutDown(l, i)])
    /\ UNCHANGED fd

Show(c, t) ==
    /\ Dealing(c, t)
    /\ ~conf[c] /\ tmode[c] = "TRADING"
    /\ LET l == mylist[c]
           i == FirstOf({j \in {1, 2} : list[l].who[j] = c})
       IN  /\ list[l].shown[i] < MaxShown
           /\ TradesBecome([Trades EXCEPT !.list = PutDown(l, i)])
    /\ UNCHANGED fd

(* ... c: what c has shown is what it gives.                               *)
Confirm(c, t) ==
    /\ Dealing(c, t)
    /\ TradesBecome([Trades EXCEPT !.conf = [conf EXCEPT ![c] = TRUE]])
    /\ UNCHANGED fd

(* ... k: with the second one the things change hands (TRADE_SwapItem), or *)
(* do not; either way both are free, and the list is kept.                 *)
Press(c, t) ==
    /\ Dealing(c, t)
    /\ conf[c] /\ conf[t] /\ tmode[c] # "LOCK"
    /\ TradesBecome([Trades EXCEPT !.mode =
                       IF tmode[t] = "LOCK" THEN [tmode EXCEPT ![c] = "FREE", ![t] = "FREE"]
                       ELSE [tmode EXCEPT ![c] = "LOCK"]])
    /\ UNCHANGED fd

(* CONNECT_initOne and the login on that connection                        *)
TradeLogin(c, f) ==
    /\ \A x \in on : fd[x] # f
    /\ fd' = [fd EXCEPT ![c] = f]
    /\ tmode' = [tmode EXCEPT ![c] = "FREE"]
    /\ conf' = [conf EXCEPT ![c] = FALSE]
    /\ mylist' = [mylist EXCEPT ![c] = None]
    /\ UNCHANGED <<list, word>>

(* With the character its connection goes; the list stays as it is.        *)
TradeLogout(c) ==
    /\ fd' = [fd EXCEPT ![c] = None]
    /\ tmode' = [tmode EXCEPT ![c] = "FREE"]
    /\ conf' = [conf EXCEPT ![c] = FALSE]
    /\ mylist' = [mylist EXCEPT ![c] = None]
    /\ word' = [word EXCEPT ![c] = None]
    /\ UNCHANGED list

TradeNext ==
    \/ CheckTradeListUser
    \/ \E c \in Char :
          \/ \E f \in Fd : CloseTrade(c, f)
          \/ \E t \in Char : Search(c, t) \/ Show(c, t) \/ Confirm(c, t) \/ Press(c, t)

(***************************************************************************)
(* Properties                                                              *)
(***************************************************************************)
(* A player whose connection holds the number of a list is named in that   *)
(* list, once, and with that connection: a list that was given back, to    *)
(* whom it may be lent next, is nobody's any more.                         *)
ListsAgree ==
    \A c \in on : mylist[c] # None =>
       /\ list[mylist[c]].use
       /\ Cardinality({i \in {1, 2} : list[mylist[c]].who[i] = c}) = 1
       /\ MySides(mylist[c], c) # {}

(* Between the pressing of the one and of the other nothing on the table   *)
(* changes: what changes hands is what each has seen.                      *)
SwapAsConfirmed ==
    \A c \in on :
       tmode[c] = "LOCK" /\ (\E t \in on : Target(c) = t /\ Target(t) = c)
          => word[c] = list[mylist[c]].shown
=============================================================================
