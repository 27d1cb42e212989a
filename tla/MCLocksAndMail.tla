--------------------------- MODULE MCLocksAndMail ---------------------------
(***************************************************************************)
(* Two tables of the account server that share no state, in one run: the   *)
(* account locks (LockTable) and the mail (Mail).  An execution drives one *)
(* of them, the other stays as it starts.                                  *)
(*                                                                         *)
(* Locks: two of the three accounts share a bucket, so a list grows, is    *)
(* full, is partly freed and is searched past stale nodes.  Mail: two      *)
(* letters from one player to another, who is in at first, or not and has  *)
(* the second letter's sender not in its address book.                     *)
(***************************************************************************)
EXTENDS LockTable, Mail, TLC

CONSTANTS a1, a2, a3, s1, s2, g1, g2

MCHash == (a1 :> 0) @@ (a2 :> 0) @@ (a3 :> 1)

MCFrom    == <<"ann", "ann">>
MCTo      == <<"bob", "bob">>
MCDir     == [p \in Player |-> 0]
MCStarts  == {[here |-> (g1 :> {"ann"}) @@ (g2 :> {"bob"}), strange |-> {}],
              [here |-> (g1 :> {"ann"}) @@ (g2 :> {}), strange |-> {2}]}

VARIABLE part

AllInit == /\ Init /\ MailInit
           /\ part \in {"locks", "mail"}

AllNext == \/ part = "locks" /\ Next /\ UNCHANGED <<mailVars, part>>
           \/ part = "mail" /\ MailNext /\ UNCHANGED <<vars, part>>

AllSpec == AllInit /\ [][AllNext]_<<vars, mailVars, part>> /\ Drained
=============================================================================
