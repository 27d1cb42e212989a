----------------------------- MODULE LockTable -----------------------------
(***************************************************************************)
(* The lock table of the account server: saac/lock.c, and lockUser and     *)
(* isLocked of saac/char.c which are its callers' way in.  An account      *)
(* hashes to a bucket; a bucket is a list of nodes, searched from its      *)
(* head, that only grows.  SAAC is single-threaded: a call is one action.  *)
(* What a node carries for its reader only (name, password, process,       *)
(* deadline) is left out.                                                  *)
(***************************************************************************)
EXTENDS Integers, Sequences

CONSTANTS Account, Server, EmptyId, Free,
          Bucket,    \* the 256 list heads of userlock[]
          HashOf,    \* getHash(id) & 0xff
          GrowBy,    \* nodes added when a list has no free node: 32
          MaxNodes   \* nodes of one list that calloc can provide

ASSUME LockTableAssumption ==
    /\ HashOf \in [Account -> Bucket]
    /\ GrowBy \in Nat \ {0}
    /\ MaxNodes \in Nat \ {0}
    /\ Free \notin Server
    /\ EmptyId \notin Account

VARIABLES userlock,  \* userlock[b]: the node list of bucket b
          reply      \* the last call, the account it named, and its answer

vars == <<userlock, reply>>

Node == [use : BOOLEAN, cdkey : Account \union {EmptyId}, server : Server \union {Free}]

(* calloc'ed or cleared: every field zero.                                 *)
BlankNode == [use |-> FALSE, cdkey |-> EmptyId, server |-> Free]

Lock_Init == userlock = [b \in Bucket |-> <<BlankNode>>]

Init == /\ Lock_Init
        /\ reply = [op |-> "none", id |-> EmptyId, ok |-> FALSE]

Answer(op, id, ok) == reply' = [op |-> op, id |-> id, ok |-> ok]

(***************************************************************************)
(* lock.c                                                                  *)
(***************************************************************************)
(* Changed forms of a definition, here and below, are named for what they  *)
(* leave out or mix up; no action of Next uses them.                       *)
HoldsStale(n, a) == n.cdkey = a

Holds(n, a) == n.use /\ n.cdkey = a

isMemLocked(a) ==
    LET list == userlock[HashOf[a]]
    IN  \E i \in DOMAIN list : Holds(list[i], a)

(* The first node of the list that satisfies the search is list[i].        *)
FirstFree(list, i) ==
    /\ ~list[i].use
    /\ \A j \in DOMAIN list : j < i => list[j].use

FirstHolding(list, i, a) ==
    /\ Holds(list[i], a)
    /\ \A j \in DOMAIN list : j < i => ~Holds(list[j], a)

Blanks(k) == [i \in 1 .. k |-> BlankNode]

(* The list InsertMemLock fills a node of: the bucket's, extended when all *)
(* its nodes are in use.                                                   *)
GrownList(list) ==
    IF \E i \in DOMAIN list : ~list[i].use THEN list ELSE list \o Blanks(GrowBy)

InsertMemLockSwapped(a, s) ==
    LET list == GrownList(userlock[HashOf[a]])
    IN  /\ Len(list) <= MaxNodes
        /\ \E i \in DOMAIN list :
              /\ FirstFree(list, i)
              /\ userlock' = [userlock EXCEPT ![HashOf[a]] =
                    [list EXCEPT ![i] = [use |-> TRUE, cdkey |-> s, server |-> a]]]

InsertMemLock(a, s) ==
    LET list == GrownList(userlock[HashOf[a]])
    IN  /\ Len(list) <= MaxNodes
        /\ \E i \in DOMAIN list :
              /\ FirstFree(list, i)
              /\ userlock' = [userlock EXCEPT ![HashOf[a]] =
                    [list EXCEPT ![i] = [use |-> TRUE, cdkey |-> a, server |-> s]]]

(* calloc fails after k of the new nodes: they stay linked, nothing is     *)
(* inserted.                                                               *)
InsertMemLockNoMemory(a, k) ==
    LET list == userlock[HashOf[a]]
    IN  /\ \A i \in DOMAIN list : list[i].use
        /\ Len(list) + k <= MaxNodes
        /\ userlock' = [userlock EXCEPT ![HashOf[a]] = list \o Blanks(k)]

DeleteMemLock(a) ==
    LET list == userlock[HashOf[a]]
    IN  \E i \in DOMAIN list :
           /\ FirstHolding(list, i, a)
           /\ userlock' = [userlock EXCEPT ![HashOf[a]][i] = BlankNode]

(***************************************************************************)
(* The calls.                                                              *)
(***************************************************************************)
LockUserUnasked(a, s) ==
    \/ InsertMemLock(a, s) /\ Answer("lock", a, TRUE)
    \/ \E k \in 0 .. GrowBy - 1 : InsertMemLockNoMemory(a, k) /\ Answer("lock", a, FALSE)

(* lockUser with lock # 0: refused when locked, else InsertMemLock.        *)
LockUser(a, s) ==
    \/ isMemLocked(a) /\ Answer("lock", a, FALSE) /\ UNCHANGED userlock
    \/ ~isMemLocked(a) /\ InsertMemLock(a, s) /\ Answer("lock", a, TRUE)
    \/ /\ ~isMemLocked(a)
       /\ \E k \in 0 .. GrowBy - 1 : InsertMemLockNoMemory(a, k)
       /\ Answer("lock", a, FALSE)

(* lockUser with lock = 0, and the GM's ACLock mode 3.                     *)
UnlockUser(a) ==
    \/ DeleteMemLock(a) /\ Answer("unlock", a, TRUE)
    \/ ~isMemLocked(a) /\ Answer("unlock", a, FALSE) /\ UNCHANGED userlock

isLocked(a) == Answer("ask", a, isMemLocked(a)) /\ UNCHANGED userlock

(* "invalid id: lock it": lockUser refuses the empty account either way,   *)
(* and isLocked says it is locked.                                         *)
EmptyAccount ==
    /\ \E op \in {"lock", "unlock", "ask"} : Answer(op, EmptyId, op = "ask")
    /\ UNCHANGED userlock

(* A game server logs in again, or a GM releases it: the nodes are marked  *)
(* free but keep their stale cdkey and server.                             *)
DeleteMemLockServer(s) ==
    /\ userlock' = [b \in Bucket |->
          [i \in DOMAIN userlock[b] |->
              IF userlock[b][i].use /\ userlock[b][i].server = s
              THEN [userlock[b][i] EXCEPT !.use = FALSE] ELSE userlock[b][i]]]
    /\ Answer("reset", EmptyId, TRUE)

(* Worker_auto_logout: for every node the lost server holds, lockUser      *)
(* unlocks the ACCOUNT, that is, clears the first node of the account's    *)
(* own bucket that holds it.                                               *)
Worker_auto_logout(s) ==
    LET lost == {a \in Account : \E b \in Bucket : \E i \in DOMAIN userlock[b] :
                    Holds(userlock[b][i], a) /\ userlock[b][i].server = s}
    IN  /\ userlock' = [b \in Bucket |->
              [i \in DOMAIN userlock[b] |->
                  IF \E a \in lost : HashOf[a] = b /\ FirstHolding(userlock[b], i, a)
                  THEN BlankNode ELSE userlock[b][i]]]
        /\ Answer("reset", EmptyId, TRUE)

Next == \/ \E a \in Account : \/ \E s \in Server : LockUser(a, s)
                              \/ UnlockUser(a)
                              \/ isLocked(a)
        \/ EmptyAccount
        \/ \E s \in Server : DeleteMemLockServer(s) \/ Worker_auto_logout(s)

Spec == Init /\ [][Next]_vars

(***************************************************************************)
(* Properties.                                                             *)
(***************************************************************************)
(* The server found by GetMemLockServer, or Free.                          *)
HolderOf(a) ==
    LET list == userlock[HashOf[a]]
    IN  IF isMemLocked(a)
        THEN list[CHOOSE i \in DOMAIN list : FirstHolding(list, i, a)].server
        ELSE Free

holderBar == [a \in Account |-> HolderOf(a)]

LM == INSTANCE LockMap WITH holder <- holderBar

TypeOK == /\ userlock \in [Bucket -> Seq(Node)]
          /\ reply \in LM!Reply

(* lock.c searches one list and stops at the first match.  That is right   *)
(* only if an account in use has one node in the whole table, in the       *)
(* bucket it hashes to: a second node would survive the unlock and lock    *)
(* the player out, a node in another bucket would never be found.          *)
OneNodePerAccount ==
    \A b, c \in Bucket : \A i \in DOMAIN userlock[b], j \in DOMAIN userlock[c] :
        (userlock[b][i].use /\ userlock[c][j].use
           /\ userlock[b][i].cdkey = userlock[c][j].cdkey)
        => b = c /\ i = j /\ b = HashOf[userlock[b][i].cdkey]

(* The node lists behave as a map from accounts to their holder: stale     *)
(* fields of freed nodes, growth and allocation failures never show, and   *)
(* every answer is the one the map gives.                                  *)
ImplementsLockMap == LM!LMSpec
=============================================================================
