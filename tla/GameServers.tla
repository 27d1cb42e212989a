---------------------------- MODULE GameServers ----------------------------
(***************************************************************************)
(* The table gs[] of saac/main.c: which game server, by name, is behind    *)
(* which connection, and the account locks held under its name.  A line    *)
(* that cannot be dispatched closes the connection and keeps the entry;    *)
(* the accept of the next turn comes before the loop finds that out, so    *)
(* that the next connection may find the entry of the last one.            *)
(*                                                                         *)
(* Connections are numbered as their slots; TcpStruct has their buffers.   *)
(* An account lock is the name it is held under: LockTable has the rest.   *)
(***************************************************************************)
EXTENDS Integers

CONSTANTS MaxSlot,  \* slots 1 .. MaxSlot: MAXCONNECTION - 1
          Name      \* names of game servers

ASSUME GameServersAssumption == MaxSlot \in Nat \ {0}

Slot == 1 .. MaxSlot

(* No name is the empty set, a name is the set of it.                      *)
NoName == {}
NameOrNone == {NoName} \union {{n} : n \in Name}

VARIABLES link,   \* the connection of each slot
          slot,   \* gs[]: [use, name]
          peer,   \* what the process at the other end was last let in as
          locks,  \* names under which some account is locked
          turn,   \* the slot the loop comes to, 0 for the accept
          odd     \* exceptional events so far

slotVars == <<link, slot, peer, locks, turn, odd>>

(* A connection whose peer is gone is read to its end; one that accept()   *)
(* failed for stays in use and has nothing to read.                        *)
Link == {"free", "open", "gone", "dead"}
Odd  == {"toolong", "undispatched"}
Blank == [use |-> FALSE, name |-> NoName]

SlotTypes ==
    /\ link \in [Slot -> Link]
    /\ slot \in [Slot -> [use : BOOLEAN, name : NameOrNone]]
    /\ peer \in [Slot -> NameOrNone]
    /\ locks \subseteq Name
    /\ turn \in 0 .. MaxSlot
    /\ odd \subseteq Odd

SlotInit ==
    /\ link = [c \in Slot |-> "free"]
    /\ slot = [c \in Slot |-> Blank]
    /\ peer = [c \in Slot |-> NoName]
    /\ locks = {}
    /\ turn = 0
    /\ odd = {}

(***************************************************************************)
(* The accept of a turn                                                    *)
(***************************************************************************)
FirstFreeSlot(c) == /\ link[c] = "free"
                    /\ \A d \in Slot : d < c => link[d] # "free"

(* accept1 and gs[newti].use = 1; the name is the one that is there.       *)
Connect(c) ==
    /\ turn = 0
    /\ FirstFreeSlot(c)
    /\ link' = [link EXCEPT ![c] = "open"]
    /\ slot' = [slot EXCEPT ![c] = [use |-> TRUE, name |-> slot[c].name]]
    /\ peer' = [peer EXCEPT ![c] = NoName]
    /\ turn' = 1
    /\ UNCHANGED <<locks, odd>>

ConnectFails(c) ==
    /\ turn = 0
    /\ FirstFreeSlot(c)
    /\ link' = [link EXCEPT ![c] = "dead"]
    /\ peer' = [peer EXCEPT ![c] = NoName]
    /\ turn' = 1
    /\ UNCHANGED <<slot, locks, odd>>

NobodyConnects ==
    /\ turn = 0
    /\ turn' = 1
    /\ UNCHANGED <<link, slot, peer, locks, odd>>

(* The process behind c stops, or its machine does.                        *)
PeerStops(c) ==
    /\ link[c] = "open"
    /\ link' = [link EXCEPT ![c] = "gone"]
    /\ UNCHANGED <<slot, peer, locks, turn, odd>>

(***************************************************************************)
(* The line of slot c                                                      *)
(***************************************************************************)
GoOnTooFar(c) == turn' = c + 1

GoOn(c) == turn' = IF c = MaxSlot THEN 0 ELSE c + 1

HasLine(c) == turn = c /\ link[c] \in {"open", "gone"} /\ slot[c].use

NoLineAt(c) ==
    /\ turn = c
    /\ slot[c].use => link[c] \in {"open", "dead"}
    /\ GoOn(c)
    /\ UNCHANGED <<link, slot, peer, locks, odd>>

(* login_game_server: refused, whatever slot it is, when a slot in use has *)
(* the name.  A game server asks once, first of all, and exits if refused. *)
Duplicate(n) == \E d \in Slot : slot[d].use /\ slot[d].name = {n}

LoginServerUnchecked(c, n) ==
    /\ HasLine(c)
    /\ peer[c] = NoName
    /\ slot' = [slot EXCEPT ![c] = [use |-> slot[c].use, name |-> {n}]]
    /\ peer' = [peer EXCEPT ![c] = {n}]
    /\ locks' = locks \ {n}
    /\ GoOn(c)
    /\ UNCHANGED <<link, odd>>

LoginServer(c, n) ==
    /\ HasLine(c)
    /\ peer[c] = NoName
    /\ ~Duplicate(n)
    /\ slot' = [slot EXCEPT ![c] = [use |-> slot[c].use, name |-> {n}]]
    /\ peer' = [peer EXCEPT ![c] = {n}]
    /\ locks' = locks \ {n}
    /\ GoOn(c)
    /\ UNCHANGED <<link, odd>>

LoginRefused(c, n) ==
    /\ HasLine(c)
    /\ peer[c] = NoName
    /\ Duplicate(n)
    /\ GoOn(c)
    /\ UNCHANGED <<link, slot, peer, locks, odd>>

(* A load is granted, to a server let in or not yet: the account is locked *)
(* under the name of the slot.  Session follows the locks in no name.      *)
LoadGranted(c) ==
    /\ HasLine(c)
    /\ locks' = locks \union slot[c].name
    /\ GoOn(c)
    /\ UNCHANGED <<link, slot, peer, odd>>

(* The last account locked under the name is unlocked.                     *)
LastUnlocked(c) ==
    /\ HasLine(c)
    /\ locks' = locks \ slot[c].name
    /\ GoOn(c)
    /\ UNCHANGED <<link, slot, peer, odd>>

(* logout_game_server; a connection not in use stays so.                   *)
LogoutSlot(c) ==
    /\ slot' = [slot EXCEPT ![c] = Blank]
    /\ link' = [link EXCEPT ![c] = "free"]
    /\ peer' = [peer EXCEPT ![c] = NoName]

(* A line that cannot be dispatched.                                       *)
Undispatched(c) ==
    /\ HasLine(c)
    /\ link' = [link EXCEPT ![c] = "free"]
    /\ peer' = [peer EXCEPT ![c] = NoName]
    /\ odd' = odd \union {"undispatched"}
    /\ GoOn(c)
    /\ UNCHANGED <<slot, locks>>

(* A line that is too long: the server is logged out, its locks stay.      *)
TooLong(c) ==
    /\ HasLine(c)
    /\ LogoutSlot(c)
    /\ odd' = odd \union {"toolong"}
    /\ GoOn(c)
    /\ UNCHANGED locks

(* The end of the stream, or no connection behind an entry in use: every   *)
(* account locked under the name is unlocked, then the server logged out.  *)
EndOfStreamKeepsLocks(c) ==
    /\ turn = c
    /\ slot[c].use /\ link[c] \in {"gone", "free"}
    /\ LogoutSlot(c)
    /\ GoOn(c)
    /\ UNCHANGED <<locks, odd>>

EndOfStream(c) ==
    /\ turn = c
    /\ slot[c].use /\ link[c] \in {"gone", "free"}
    /\ locks' = locks \ slot[c].name
    /\ LogoutSlot(c)
    /\ GoOn(c)
    /\ UNCHANGED odd

SlotNext ==
    \/ NobodyConnects
    \/ \E c \in Slot :
          \/ Connect(c) \/ ConnectFails(c) \/ PeerStops(c)
          \/ NoLineAt(c) \/ LoadGranted(c) \/ LastUnlocked(c)
          \/ Undispatched(c) \/ TooLong(c) \/ EndOfStream(c)
          \/ \E n \in Name : LoginServer(c, n) \/ LoginRefused(c, n)

SlotSpec == SlotInit /\ [][SlotNext]_slotVars

(***************************************************************************)
(* Properties                                                              *)
(***************************************************************************)
(* Two connections are never let in under one name, and a slot bears the   *)
(* name its process was let in under, also when it inherited another's.    *)
OneServerPerName ==
    /\ \A c, d \in Slot : peer[c] = peer[d] /\ peer[c] # NoName => c = d
    /\ \A c \in Slot : peer[c] # NoName => slot[c] = [use |-> TRUE, name |-> peer[c]]

(* Accounts locked under a name have a slot that will release them (or the *)
(* server itself): none is left to an operator, unless a server was thrown *)
(* out for a line too long or impossible.                                  *)
LocksHaveServer ==
    odd = {} => \A n \in locks : \E c \in Slot : peer[c] = {n}

(* The locks of a server that is and stays in are released by its own      *)
(* lines only: not by another's login, nor by the end of another's stream. *)
ReleasedByOwner ==
    [][\A c \in Slot : \A n \in locks \ locks' :
          (peer[c] = {n} /\ peer'[c] = {n}) => (turn = c /\ turn' # c)]_slotVars
=============================================================================
