------------------------------ MODULE LockMap ------------------------------
(***************************************************************************)
(* What the account server (SAAC) promises about account locks: each       *)
(* account is held by at most one game server (GMSV), a lock request on a  *)
(* held account is refused, an unlock frees it, and a game server that     *)
(* goes away frees all it held.  LockTable implements this with the hashed *)
(* node lists of saac/lock.c.                                              *)
(***************************************************************************)
CONSTANTS Account,   \* account names (cdkey), the empty one not among them
          Server,    \* names of game servers
          EmptyId,   \* the empty account name: no lock can name it
          Free       \* "held by nobody"

VARIABLES holder,    \* holder[a]: the server that holds a's lock, or Free
          reply      \* the last call, the account it named, and its answer

lmvars == <<holder, reply>>

Reply == [op : {"none", "lock", "unlock", "ask", "reset"},
          id : Account \union {EmptyId}, ok : BOOLEAN]

Answer(op, id, ok) == reply' = [op |-> op, id |-> id, ok |-> ok]

LMTypeOK == /\ holder \in [Account -> Server \union {Free}]
            /\ reply \in Reply

LMInit == /\ holder = [a \in Account |-> Free]
          /\ reply = [op |-> "none", id |-> EmptyId, ok |-> FALSE]

(* A lock is granted only on a free account...                             *)
Grant(a, s) == /\ holder[a] = Free
               /\ holder' = [holder EXCEPT ![a] = s]
               /\ Answer("lock", a, TRUE)

(* ...and may be refused even then (no memory), changing nothing.          *)
Refuse(a) == Answer("lock", a, FALSE) /\ UNCHANGED holder

(* An unlock fails exactly when there is nothing to unlock.                *)
Release(a) == /\ holder' = [holder EXCEPT ![a] = Free]
              /\ Answer("unlock", a, holder[a] # Free)

Ask(a) == Answer("ask", a, holder[a] # Free) /\ UNCHANGED holder

(* The empty account: cannot be locked or unlocked, counts as locked.      *)
Empty == /\ \E op \in {"lock", "unlock", "ask"} : Answer(op, EmptyId, op = "ask")
         /\ UNCHANGED holder

ReleaseServer(s) ==
    /\ holder' = [a \in Account |-> IF holder[a] = s THEN Free ELSE holder[a]]
    /\ Answer("reset", EmptyId, TRUE)

LMNext == \/ \E a \in Account : \/ \E s \in Server : Grant(a, s)
                                \/ Refuse(a)
                                \/ Release(a)
                                \/ Ask(a)
          \/ Empty
          \/ \E s \in Server : ReleaseServer(s)

LMSpec == LMInit /\ [][LMNext]_lmvars
=============================================================================
