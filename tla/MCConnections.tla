--------------------------- MODULE MCConnections ---------------------------
(***************************************************************************)
(* The two halves of a connection to the account server, in one run: its   *)
(* buffers (TcpStruct) and the game server behind it (GameServers).  What  *)
(* TcpStruct keeps of gs[] is which slots are in use, what GameServers     *)
(* keeps of a connection is whether it is open, so each is driven by an    *)
(* execution of its own.                                                   *)
(*                                                                         *)
(* Five buffers of two cells serve two connections; the first one's lines  *)
(* are two cells, and right, the second one's are three, and too long.     *)
(***************************************************************************)
EXTENDS TcpStruct, GameServers

MCInside == <<0, 1>>

VARIABLE part

AllInit == /\ Init /\ SlotInit
           /\ part \in {"buffers", "servers"}

AllNext == \/ part = "buffers" /\ Next /\ UNCHANGED <<slotVars, part>>
           \/ part = "servers" /\ SlotNext /\ UNCHANGED <<vars, part>>

(* The loop of TcpStruct turns where it is driven.                         *)
AllSpec ==
    /\ AllInit
    /\ [][AllNext]_<<vars, slotVars, part>>
    /\ part = "buffers" => Turning
=============================================================================
