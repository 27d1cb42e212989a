-------------------------- MODULE LockTableProofs --------------------------
(***************************************************************************)
(* Proofs about LockTable: an account has at most one node in use, in its  *)
(* own bucket, and the node lists implement LockMap, for any accounts,     *)
(* servers, hash function and table size.                                  *)
(***************************************************************************)
EXTENDS LockTable, SequenceTheorems, TLAPS

(* A node in use names a real account and a real server: what is inserted  *)
(* is what lockUser was given.                                             *)
UsedNodesNamed ==
    \A b \in Bucket : \A i \in DOMAIN userlock[b] :
        userlock[b][i].use => /\ userlock[b][i].cdkey \in Account
                              /\ userlock[b][i].server \in Server

IInv == TypeOK /\ UsedNodesNamed /\ OneNodePerAccount

(* The nodes in use after a call that inserts nothing: each was in use     *)
(* before, in the same place and for the same account.                     *)
NothingInserted ==
    \A b \in Bucket : \A i \in DOMAIN userlock'[b] :
        userlock'[b][i].use => /\ i \in DOMAIN userlock[b]
                               /\ userlock'[b][i] = userlock[b][i]

LEMMA BlankNodeType == BlankNode \in Node
BY DEF BlankNode, Node

(* New nodes are well formed and free.                                     *)
LEMMA BlanksType ==
    ASSUME NEW k \in Nat
    PROVE  /\ Blanks(k) \in Seq(Node)
           /\ Len(Blanks(k)) = k
           /\ \A i \in 1 .. k : Blanks(k)[i] = BlankNode
BY BlankNodeType DEF Blanks

(* Appending free nodes keeps the old ones where they were.                *)
LEMMA AppendBlanks ==
    ASSUME NEW list \in Seq(Node), NEW k \in Nat
    PROVE  /\ list \o Blanks(k) \in Seq(Node)
           /\ DOMAIN (list \o Blanks(k)) = 1 .. (Len(list) + k)
           /\ \A i \in DOMAIN list : (list \o Blanks(k))[i] = list[i]
           /\ \A i \in DOMAIN (list \o Blanks(k)) :
                 i \notin DOMAIN list => (list \o Blanks(k))[i] = BlankNode
<1>1. /\ Blanks(k) \in Seq(Node)
      /\ Len(Blanks(k)) = k
      /\ \A i \in 1 .. k : Blanks(k)[i] = BlankNode
  BY BlanksType
<1>2. /\ list \o Blanks(k) \in Seq(Node)
      /\ Len(list \o Blanks(k)) = Len(list) + k
      /\ \A i \in 1 .. Len(list) + k :
            (list \o Blanks(k))[i] =
               IF i <= Len(list) THEN list[i] ELSE Blanks(k)[i - Len(list)]
  BY <1>1, ConcatProperties
<1>3. Len(list) \in Nat /\ DOMAIN list = 1 .. Len(list)
  OBVIOUS
<1>4. DOMAIN (list \o Blanks(k)) = 1 .. (Len(list) + k)
  BY <1>2
<1>5. ASSUME NEW i \in 1 .. (Len(list) + k), i \notin DOMAIN list
      PROVE  (list \o Blanks(k))[i] = BlankNode
  <2>1. i - Len(list) \in 1 .. k
    BY <1>3, <1>5
  <2> QED
    BY <2>1, <1>1, <1>2, <1>3, <1>5
<1> QED
  BY <1>2, <1>3, <1>4, <1>5

(* The list InsertMemLock searches: the old nodes, then free ones.         *)
LEMMA GrownListNodes ==
    ASSUME NEW list \in Seq(Node)
    PROVE  /\ GrownList(list) \in Seq(Node)
           /\ DOMAIN list \subseteq DOMAIN GrownList(list)
           /\ \A i \in DOMAIN list : GrownList(list)[i] = list[i]
           /\ \A i \in DOMAIN GrownList(list) :
                 i \notin DOMAIN list => GrownList(list)[i] = BlankNode
<1>1. GrowBy \in Nat
  BY LockTableAssumption DEF LockTableAssumption
<1>2. CASE \E i \in DOMAIN list : ~list[i].use
  BY <1>2 DEF GrownList
<1>3. CASE ~ \E i \in DOMAIN list : ~list[i].use
  <2>1. GrownList(list) = list \o Blanks(GrowBy)
    BY <1>3 DEF GrownList
  <2>2. DOMAIN list = 1 .. Len(list) /\ Len(list) \in Nat
    OBVIOUS
  <2>3. /\ list \o Blanks(GrowBy) \in Seq(Node)
        /\ DOMAIN (list \o Blanks(GrowBy)) = 1 .. (Len(list) + GrowBy)
        /\ \A i \in DOMAIN list : (list \o Blanks(GrowBy))[i] = list[i]
        /\ \A i \in DOMAIN (list \o Blanks(GrowBy)) :
              i \notin DOMAIN list => (list \o Blanks(GrowBy))[i] = BlankNode
    BY <1>1, AppendBlanks
  <2>4. 1 .. Len(list) \subseteq 1 .. (Len(list) + GrowBy)
    BY <1>1, <2>2
  <2> QED
    BY <2>1, <2>2, <2>3, <2>4
<1> QED
  BY <1>2, <1>3

(* A call that inserts nothing keeps the invariant.                        *)
LEMMA NothingInsertedKeepsIInv ==
    ASSUME IInv, TypeOK', NothingInserted
    PROVE  IInv'
<1>1. UsedNodesNamed'
  BY DEF IInv, UsedNodesNamed, NothingInserted
<1>2. OneNodePerAccount'
  BY DEF IInv, OneNodePerAccount, NothingInserted
<1> QED
  BY <1>1, <1>2 DEF IInv

(* Growing a list that calloc could not grow fully inserts nothing.        *)
LEMMA NoMemoryKeepsIInv ==
    ASSUME IInv, NEW a \in Account, NEW k \in 0 .. GrowBy - 1,
           InsertMemLockNoMemory(a, k), reply' \in LM!Reply
    PROVE  IInv'
<1> DEFINE b == HashOf[a]
           list == userlock[b]
<1>1. b \in Bucket /\ list \in Seq(Node) /\ k \in Nat
  BY LockTableAssumption DEF LockTableAssumption, IInv, TypeOK
<1>2. userlock' = [userlock EXCEPT ![b] = list \o Blanks(k)]
  BY DEF InsertMemLockNoMemory
<1> HIDE DEF b, list
<1>3. /\ list \o Blanks(k) \in Seq(Node)
      /\ DOMAIN (list \o Blanks(k)) = 1 .. (Len(list) + k)
      /\ \A i \in DOMAIN list : (list \o Blanks(k))[i] = list[i]
      /\ \A i \in DOMAIN (list \o Blanks(k)) :
            i \notin DOMAIN list => (list \o Blanks(k))[i] = BlankNode
  BY <1>1, AppendBlanks
<1>4. TypeOK'
  BY <1>1, <1>2, <1>3 DEF IInv, TypeOK
<1>5. list = userlock[b]
  BY DEF list
<1>6. NothingInserted
  <2> SUFFICES ASSUME NEW c \in Bucket, NEW i \in DOMAIN userlock'[c], userlock'[c][i].use
               PROVE  i \in DOMAIN userlock[c] /\ userlock'[c][i] = userlock[c][i]
    BY DEF NothingInserted
  <2>1. CASE c = b
    <3>1. userlock'[c] = list \o Blanks(k)
      BY <1>1, <1>2, <2>1 DEF IInv, TypeOK
    <3>2. ~BlankNode.use
      BY DEF BlankNode
    <3>3. i \in DOMAIN list
      BY <1>3, <3>1, <3>2
    <3> QED
      BY <1>3, <1>5, <2>1, <3>1, <3>3
  <2>2. CASE c # b
    BY <1>1, <1>2, <2>2 DEF IInv, TypeOK
  <2> QED
    BY <2>1, <2>2
<1> QED
  BY <1>4, <1>6, NothingInsertedKeepsIInv

(* What InsertMemLock does, its growth and first-free search folded away:  *)
(* node i of the account's list, free or new until now, is filled; every   *)
(* other node is as before, or new and free.                               *)
NodeFilled(a, s, list, i) ==
    LET old == userlock[HashOf[a]]
    IN  /\ userlock' = [userlock EXCEPT ![HashOf[a]] = list]
        /\ DOMAIN old \subseteq DOMAIN list
        /\ list[i] = [use |-> TRUE, cdkey |-> a, server |-> s]
        /\ i \in DOMAIN old => ~old[i].use
        /\ \A j \in DOMAIN list \ {i} :
              IF j \in DOMAIN old THEN list[j] = old[j] ELSE list[j] = BlankNode

LEMMA InsertEffect ==
    ASSUME TypeOK, NEW a \in Account, NEW s \in Server,
           InsertMemLock(a, s)
    PROVE  \E list \in Seq(Node) : \E i \in DOMAIN list : NodeFilled(a, s, list, i)
<1> DEFINE old == userlock[HashOf[a]]
           grown == GrownList(old)
           node == [use |-> TRUE, cdkey |-> a, server |-> s]
<1>1. HashOf[a] \in Bucket /\ old \in Seq(Node) /\ node \in Node
  BY LockTableAssumption DEF LockTableAssumption, TypeOK, Node
<1>2. PICK i \in DOMAIN grown :
         /\ FirstFree(grown, i)
         /\ userlock' = [userlock EXCEPT ![HashOf[a]] = [grown EXCEPT ![i] = node]]
  BY DEF InsertMemLock
<1> HIDE DEF node, old
<1>3. /\ grown \in Seq(Node)
      /\ DOMAIN old \subseteq DOMAIN grown
      /\ \A j \in DOMAIN old : grown[j] = old[j]
      /\ \A j \in DOMAIN grown : j \notin DOMAIN old => grown[j] = BlankNode
  BY <1>1, GrownListNodes
<1> HIDE DEF grown
<1> DEFINE list == [grown EXCEPT ![i] = node]
<1>4. list \in Seq(Node) /\ DOMAIN list = DOMAIN grown
  BY <1>1, <1>2, <1>3
<1>5. list[i] = node /\ \A j \in DOMAIN list \ {i} : list[j] = grown[j]
  BY <1>2, <1>3
<1>6. i \in DOMAIN old => ~old[i].use
  BY <1>2, <1>3 DEF FirstFree
<1>7. userlock' = [userlock EXCEPT ![HashOf[a]] = list]
  BY <1>2
<1> HIDE DEF list
<1>8. \A j \in DOMAIN list \ {i} :
          IF j \in DOMAIN old THEN list[j] = old[j] ELSE list[j] = BlankNode
  BY <1>3, <1>4, <1>5
<1>9. i \in DOMAIN list
  BY <1>2, <1>4
<1>10. NodeFilled(a, s, list, i)
  BY <1>3, <1>4, <1>5, <1>6, <1>7, <1>8 DEF NodeFilled, old, node
<1> QED
  BY <1>4, <1>9, <1>10

(* An insertion for an account that isLocked found free gives it its one   *)
(* node.                                                                   *)
LEMMA InsertKeepsIInv ==
    ASSUME IInv, NEW a \in Account, NEW s \in Server,
           ~isMemLocked(a), InsertMemLock(a, s), reply' \in LM!Reply
    PROVE  IInv'
<1> DEFINE h == HashOf[a]
<1>0. TypeOK /\ h \in Bucket /\ userlock \in [Bucket -> Seq(Node)]
  BY LockTableAssumption DEF IInv, TypeOK, LockTableAssumption
<1>1. PICK list \in Seq(Node) : \E i \in DOMAIN list : NodeFilled(a, s, list, i)
  BY <1>0, InsertEffect
<1>10. PICK i \in DOMAIN list : NodeFilled(a, s, list, i)
  BY <1>1
<1>11. userlock' \in [Bucket -> Seq(Node)]
  BY <1>0, <1>10 DEF NodeFilled
<1>2. TypeOK'
  BY <1>11 DEF IInv, TypeOK
<1>3. \A c \in Bucket : \A j \in DOMAIN userlock'[c] :
         /\ userlock'[c][j].use
         /\ ~(c = h /\ j = i)
         => j \in DOMAIN userlock[c] /\ userlock'[c][j] = userlock[c][j]
  BY <1>0, <1>10 DEF BlankNode, NodeFilled
<1>4. userlock'[h][i] = [use |-> TRUE, cdkey |-> a, server |-> s] /\ i \in DOMAIN userlock'[h]
  BY <1>0, <1>10 DEF NodeFilled
<1>5. \A c \in Bucket : \A j \in DOMAIN userlock[c] : ~Holds(userlock[c][j], a)
  <2> SUFFICES ASSUME NEW c \in Bucket, NEW j \in DOMAIN userlock[c], Holds(userlock[c][j], a)
               PROVE  FALSE
    OBVIOUS
  <2>1. c = h
    BY DEF IInv, OneNodePerAccount, Holds
  <2> QED
    BY <2>1 DEF isMemLocked
<1>6. UsedNodesNamed'
  BY <1>3, <1>4 DEF IInv, UsedNodesNamed
<1>7. ASSUME NEW c \in Bucket, NEW d \in Bucket,
             NEW j \in DOMAIN userlock'[c], NEW k \in DOMAIN userlock'[d],
             userlock'[c][j].use, userlock'[d][k].use,
             userlock'[c][j].cdkey = userlock'[d][k].cdkey
      PROVE  c = d /\ j = k /\ c = HashOf[userlock'[c][j].cdkey]
  <2>1. CASE c = h /\ j = i /\ d = h /\ k = i
    BY <2>1, <1>4
  <2>2. CASE ~(c = h /\ j = i) /\ ~(d = h /\ k = i)
    BY <2>2, <1>3, <1>7 DEF IInv, OneNodePerAccount
  <2>3. CASE (c = h /\ j = i) /\ ~(d = h /\ k = i)
    BY <2>3, <1>3, <1>4, <1>5, <1>7 DEF Holds
  <2>4. CASE ~(c = h /\ j = i) /\ (d = h /\ k = i)
    BY <2>4, <1>3, <1>4, <1>5, <1>7 DEF Holds
  <2> QED
    BY <2>1, <2>2, <2>3, <2>4
<1>8. OneNodePerAccount'
  BY <1>7 DEF OneNodePerAccount
<1> QED
  BY <1>2, <1>6, <1>8 DEF IInv

LEMMA DeleteKeepsIInv ==
    ASSUME IInv, NEW a \in Account, DeleteMemLock(a), reply' \in LM!Reply
    PROVE  IInv'
<1> DEFINE h == HashOf[a]
<1>1. h \in Bucket /\ userlock[h] \in Seq(Node)
  BY LockTableAssumption DEF LockTableAssumption, IInv, TypeOK
<1>2. PICK i \in DOMAIN userlock[h] : userlock' = [userlock EXCEPT ![h][i] = BlankNode]
  BY DEF DeleteMemLock
<1>3. [userlock[h] EXCEPT ![i] = BlankNode] \in Seq(Node)
  BY <1>1, <1>2, BlankNodeType
<1>4. TypeOK'
  BY <1>1, <1>2, <1>3 DEF IInv, TypeOK
<1>5. NothingInserted
  BY <1>1, <1>2 DEF NothingInserted, BlankNode, IInv, TypeOK
<1> QED
  BY <1>4, <1>5, NothingInsertedKeepsIInv

(* A sweep over the whole table that clears or frees some nodes.           *)
LEMMA SweepKeepsIInv ==
    ASSUME IInv, reply' \in LM!Reply, NEW F,
           userlock' = [b \in Bucket |-> [i \in DOMAIN userlock[b] |-> F[b][i]]],
           \A b \in Bucket : \A i \in DOMAIN userlock[b] :
              /\ F[b][i] \in Node
              /\ F[b][i].use => F[b][i] = userlock[b][i]
    PROVE  IInv'
<1>1. \A b \in Bucket : userlock[b] \in Seq(Node)
  BY DEF IInv, TypeOK
<1>2. ASSUME NEW b \in Bucket
      PROVE  [i \in DOMAIN userlock[b] |-> F[b][i]] \in Seq(Node)
  <2>1. DOMAIN userlock[b] = 1 .. Len(userlock[b]) /\ Len(userlock[b]) \in Nat
    BY <1>1
  <2>2. \A i \in 1 .. Len(userlock[b]) : F[b][i] \in Node
    BY <2>1
  <2> QED
    BY <2>1, <2>2
<1>3. TypeOK'
  BY <1>2 DEF TypeOK
<1>4. NothingInserted
  BY DEF NothingInserted
<1> QED
  BY <1>3, <1>4, NothingInsertedKeepsIInv

LEMMA DeleteServerKeepsIInv ==
    ASSUME IInv, NEW s \in Server, DeleteMemLockServer(s)
    PROVE  IInv'
<1> DEFINE F == [b \in Bucket |-> [i \in DOMAIN userlock[b] |->
                   IF userlock[b][i].use /\ userlock[b][i].server = s
                   THEN [userlock[b][i] EXCEPT !.use = FALSE] ELSE userlock[b][i]]]
<1>1. reply' \in LM!Reply
  BY DEF DeleteMemLockServer, Answer, LM!Reply
<1>2. userlock' = [b \in Bucket |-> [i \in DOMAIN userlock[b] |-> F[b][i]]]
  BY DEF DeleteMemLockServer
<1>3. ASSUME NEW b \in Bucket, NEW i \in DOMAIN userlock[b]
      PROVE  F[b][i] \in Node /\ (F[b][i].use => F[b][i] = userlock[b][i])
  <2>1. userlock[b][i] \in Node
    BY DEF IInv, TypeOK
  <2> QED
    BY <2>1 DEF Node
<1> HIDE DEF F
<1> QED
  BY <1>1, <1>2, <1>3, SweepKeepsIInv

LEMMA AutoLogoutKeepsIInv ==
    ASSUME IInv, NEW s \in Server, Worker_auto_logout(s)
    PROVE  IInv'
<1> DEFINE lost == {a \in Account : \E b \in Bucket : \E i \in DOMAIN userlock[b] :
                      Holds(userlock[b][i], a) /\ userlock[b][i].server = s}
           F == [b \in Bucket |-> [i \in DOMAIN userlock[b] |->
                   IF \E a \in lost : HashOf[a] = b /\ FirstHolding(userlock[b], i, a)
                   THEN BlankNode ELSE userlock[b][i]]]
<1>1. reply' \in LM!Reply
  BY DEF Worker_auto_logout, Answer, LM!Reply
<1>2. userlock' = [b \in Bucket |-> [i \in DOMAIN userlock[b] |-> F[b][i]]]
  BY DEF Worker_auto_logout
<1>3. ASSUME NEW b \in Bucket, NEW i \in DOMAIN userlock[b]
      PROVE  F[b][i] \in Node /\ (F[b][i].use => F[b][i] = userlock[b][i])
  <2>1. userlock[b][i] \in Node
    BY DEF IInv, TypeOK
  <2>2. F[b][i] = BlankNode \/ F[b][i] = userlock[b][i]
    OBVIOUS
  <2>3. ~BlankNode.use
    BY DEF BlankNode
  <2> QED
    BY <2>1, <2>2, <2>3, BlankNodeType
<1> HIDE DEF F
<1> QED
  BY <1>1, <1>2, <1>3, SweepKeepsIInv

LEMMA InitIInv == Init => IInv
<1> SUFFICES ASSUME Init PROVE IInv
  OBVIOUS
<1>1. userlock = [b \in Bucket |-> <<BlankNode>>]
  BY DEF Init, Lock_Init
<1>2. \A b \in Bucket : userlock[b] \in Seq(Node) /\ Len(userlock[b]) = 1
                        /\ userlock[b][1] = BlankNode
  BY <1>1, BlankNodeType
<1>3. \A b \in Bucket : \A i \in DOMAIN userlock[b] : ~userlock[b][i].use
  BY <1>2 DEF BlankNode
<1>4. TypeOK
  BY <1>1, <1>2 DEF TypeOK, Init, LM!Reply
<1> QED
  BY <1>3, <1>4 DEF IInv, UsedNodesNamed, OneNodePerAccount

LEMMA NextIInv == IInv /\ [Next]_vars => IInv'
<1> SUFFICES ASSUME IInv, [Next]_vars PROVE IInv'
  OBVIOUS
<1>1. ASSUME NEW op \in {"lock", "unlock", "ask"}, NEW a \in Account \union {EmptyId},
             NEW ok \in BOOLEAN, Answer(op, a, ok)
      PROVE  reply' \in LM!Reply
  BY <1>1 DEF Answer, LM!Reply
<1>2. ASSUME UNCHANGED userlock, reply' \in LM!Reply PROVE IInv'
  BY <1>2 DEF IInv, TypeOK, UsedNodesNamed, OneNodePerAccount
<1>3. ASSUME NEW a \in Account, NEW s \in Server, LockUser(a, s) PROVE IInv'
  <2>1. reply' \in LM!Reply
    BY <1>1, <1>3 DEF LockUser
  <2> QED
    BY <1>2, <1>3, <2>1, InsertKeepsIInv, NoMemoryKeepsIInv DEF LockUser
<1>4. ASSUME NEW a \in Account, UnlockUser(a) PROVE IInv'
  <2>1. reply' \in LM!Reply
    BY <1>1, <1>4 DEF UnlockUser
  <2> QED
    BY <1>2, <1>4, <2>1, DeleteKeepsIInv DEF UnlockUser
<1>5. ASSUME NEW a \in Account, isLocked(a) PROVE IInv'
  <2>1. reply' \in LM!Reply
    BY <1>1, <1>5 DEF isLocked, isMemLocked
  <2> QED
    BY <1>2, <1>5, <2>1 DEF isLocked
<1>6. CASE EmptyAccount
  <2>1. reply' \in LM!Reply
    BY <1>1, <1>6 DEF EmptyAccount
  <2> QED
    BY <1>2, <1>6, <2>1 DEF EmptyAccount
<1>7. CASE UNCHANGED vars
  BY <1>2, <1>7 DEF vars, IInv, TypeOK
<1> QED
  BY <1>3, <1>4, <1>5, <1>6, <1>7, DeleteServerKeepsIInv, AutoLogoutKeepsIInv DEF Next

(* Every call of lock.c keeps one node per account, and used nodes named.  *)
THEOREM LockTableInvariant == Spec => []IInv
BY InitIInv, NextIInv, PTL DEF Spec

(* The list searches of lock.c are right: an account in use has one node   *)
(* in the whole table, in the bucket it hashes to.                         *)
THEOREM LockTableOneNode == Spec => []OneNodePerAccount
<1>1. IInv => OneNodePerAccount
  BY DEF IInv
<1> QED
  BY <1>1, LockTableInvariant, PTL

(* The table and its answers stay well formed.                             *)
THEOREM LockTableTypes == Spec => []TypeOK
<1>1. IInv => TypeOK
  BY DEF IInv
<1> QED
  BY <1>1, LockTableInvariant, PTL

(***************************************************************************)
(* LockTable implements LockMap.                                           *)
(***************************************************************************)
(* Table T has a node in use that gives account a to server s.             *)
Found(T, a, s) == \E b \in Bucket : \E i \in DOMAIN T[b] :
                     Holds(T[b][i], a) /\ T[b][i].server = s

(* The search of one bucket for its first match finds what the whole table *)
(* holds.                                                                  *)
HolderFoundInv ==
    \A a \in Account : /\ HolderOf(a) \in Server \union {Free}
                       /\ \A s \in Server : Found(userlock, a, s) <=> HolderOf(a) = s
                       /\ isMemLocked(a) <=> HolderOf(a) # Free

LEMMA HolderFound == IInv => HolderFoundInv
<1> SUFFICES ASSUME IInv, NEW a \in Account
             PROVE  /\ HolderOf(a) \in Server \union {Free}
                    /\ \A s \in Server : Found(userlock, a, s) <=> HolderOf(a) = s
                    /\ isMemLocked(a) <=> HolderOf(a) # Free
  BY DEF HolderFoundInv
<1> DEFINE list == userlock[HashOf[a]]
<1>1. HashOf[a] \in Bucket /\ Free \notin Server
  BY LockTableAssumption DEF LockTableAssumption
<1>2. CASE isMemLocked(a)
  <2>1. PICK i \in DOMAIN list : Holds(list[i], a)
    BY <1>2 DEF isMemLocked
  <2>2. \A b \in Bucket : \A j \in DOMAIN userlock[b] :
           Holds(userlock[b][j], a) => b = HashOf[a] /\ j = i
    BY <1>1, <2>1 DEF IInv, OneNodePerAccount, Holds
  <2>3. FirstHolding(list, i, a)
    BY <1>1, <2>1, <2>2 DEF FirstHolding, IInv, TypeOK
  <2>4. \A j \in DOMAIN list : FirstHolding(list, j, a) => j = i
    BY <1>1, <2>2 DEF FirstHolding
  <2>5. HolderOf(a) = list[i].server
    BY <1>2, <2>3, <2>4 DEF HolderOf
  <2>6. list[i].server \in Server
    BY <1>1, <2>1 DEF IInv, UsedNodesNamed, Holds
  <2> QED
    BY <1>1, <1>2, <2>1, <2>2, <2>5, <2>6 DEF Found
<1>3. CASE ~isMemLocked(a)
  <2>1. HolderOf(a) = Free
    BY <1>3 DEF HolderOf
  <2>2. \A b \in Bucket : \A j \in DOMAIN userlock[b] : ~Holds(userlock[b][j], a)
    BY <1>1, <1>3 DEF IInv, OneNodePerAccount, UsedNodesNamed, Holds, isMemLocked
  <2> QED
    BY <1>1, <1>3, <2>1, <2>2 DEF Found
<1> QED
  BY <1>2, <1>3

LEMMA HolderFoundNext == IInv' => HolderFoundInv'
BY HolderFound, PTL

(* A step that changes what the table gives to nobody leaves the map alone. *)
LEMMA SameFoundSameHolder ==
    ASSUME IInv, IInv', NEW a \in Account,
           \A s \in Server : Found(userlock', a, s) <=> Found(userlock, a, s)
    PROVE  HolderOf(a)' = HolderOf(a)
<1>1. HolderFoundInv /\ HolderFoundInv'
  BY HolderFound, HolderFoundNext
<1> HIDE DEF HolderFoundInv
<1>2. Free \notin Server
  BY LockTableAssumption DEF LockTableAssumption
<1> QED
  BY <1>1, <1>2 DEF HolderFoundInv

LEMMA GrantStep ==
    ASSUME IInv, IInv', NEW a \in Account, NEW s \in Server,
           ~isMemLocked(a), InsertMemLock(a, s), Answer("lock", a, TRUE)
    PROVE  LM!Grant(a, s)
<1>1. HolderFoundInv /\ HolderFoundInv'
  BY HolderFound, HolderFoundNext
<1> DEFINE h == HashOf[a]
<1>2. TypeOK /\ h \in Bucket /\ userlock \in [Bucket -> Seq(Node)]
  BY LockTableAssumption DEF IInv, TypeOK, LockTableAssumption
<1>3. PICK list \in Seq(Node) : \E i \in DOMAIN list : NodeFilled(a, s, list, i)
  BY <1>2, InsertEffect
<1>4. PICK i \in DOMAIN list : NodeFilled(a, s, list, i)
  BY <1>3
<1>5. userlock' = [userlock EXCEPT ![h] = list] /\ userlock'[h] = list
  BY <1>2, <1>4 DEF NodeFilled
<1>6. Found(userlock', a, s)
  <2>1. list[i] = [use |-> TRUE, cdkey |-> a, server |-> s]
    BY <1>4 DEF NodeFilled
  <2>2. Holds(list[i], a) /\ list[i].server = s
    BY <2>1 DEF Holds
  <2> QED
    BY <1>2, <1>5, <2>2 DEF Found
<1>7. HolderOf(a)' = s
  BY <1>1, <1>6 DEF HolderFoundInv
<1>8. HolderOf(a) = Free
  BY DEF HolderOf
<1>9. ASSUME NEW c \in Account, c # a
      PROVE  HolderOf(c)' = HolderOf(c)
  <2>1. ASSUME NEW t \in Server, Found(userlock, c, t)
        PROVE  Found(userlock', c, t)
    <3>1. PICK b \in Bucket : \E j \in DOMAIN userlock[b] :
              Holds(userlock[b][j], c) /\ userlock[b][j].server = t
      BY <2>1 DEF Found
    <3>2. PICK j \in DOMAIN userlock[b] :
              Holds(userlock[b][j], c) /\ userlock[b][j].server = t
      BY <3>1
    <3>3. j \in DOMAIN userlock'[b] /\ userlock'[b][j] = userlock[b][j]
      <4>1. CASE b = h
        BY <1>2, <1>4, <1>5, <3>2, <4>1 DEF NodeFilled, Holds
      <4>2. CASE b # h
        BY <1>2, <1>5, <4>2
      <4> QED
        BY <4>1, <4>2
    <3> QED
      BY <3>2, <3>3 DEF Found
  <2>2. ASSUME NEW t \in Server, Found(userlock', c, t)
        PROVE  Found(userlock, c, t)
    <3>1. PICK b \in Bucket : \E j \in DOMAIN userlock'[b] :
              Holds(userlock'[b][j], c) /\ userlock'[b][j].server = t
      BY <2>2 DEF Found
    <3>2. PICK j \in DOMAIN userlock'[b] :
              Holds(userlock'[b][j], c) /\ userlock'[b][j].server = t
      BY <3>1
    <3>3. j \in DOMAIN userlock[b] /\ userlock'[b][j] = userlock[b][j]
      <4>1. CASE b = h
        <5>1. j # i
          BY <1>4, <1>5, <1>9, <3>2, <4>1 DEF NodeFilled, Holds
        <5> QED
          BY <1>4, <1>5, <3>2, <4>1, <5>1 DEF NodeFilled, Holds, BlankNode
      <4>2. CASE b # h
        BY <1>2, <1>5, <3>2, <4>2
      <4> QED
        BY <4>1, <4>2
    <3> QED
      BY <3>2, <3>3 DEF Found
  <2> QED
    BY <2>1, <2>2, SameFoundSameHolder
<1>10. holderBar' = [holderBar EXCEPT ![a] = s]
  BY <1>7, <1>9 DEF holderBar
<1> QED
  BY <1>8, <1>10 DEF LM!Grant, LM!Answer, Answer, holderBar

(* A step that only frees nodes, those of the accounts in C, frees exactly *)
(* those accounts.                                                         *)
LEMMA ClearedHolders ==
    ASSUME IInv, IInv', NothingInserted, NEW C \in SUBSET Account,
           \A a \in Account, b \in Bucket : \A i \in DOMAIN userlock[b] :
              Holds(userlock[b][i], a) =>
                 /\ i \in DOMAIN userlock'[b]
                 /\ IF a \in C THEN ~userlock'[b][i].use
                               ELSE userlock'[b][i] = userlock[b][i]
    PROVE  holderBar' = [a \in Account |-> IF a \in C THEN Free ELSE holderBar[a]]
<1>1. HolderFoundInv /\ HolderFoundInv'
  BY HolderFound, HolderFoundNext
<1>2. ASSUME NEW a \in C
      PROVE  HolderOf(a)' = Free
  <2>1. ASSUME NEW s \in Server, Found(userlock', a, s)
        PROVE  FALSE
    <3>1. PICK b \in Bucket : \E i \in DOMAIN userlock'[b] : Holds(userlock'[b][i], a)
      BY <2>1 DEF Found
    <3>2. PICK i \in DOMAIN userlock'[b] : Holds(userlock'[b][i], a)
      BY <3>1
    <3>3. i \in DOMAIN userlock[b] /\ userlock'[b][i] = userlock[b][i]
      BY <3>2 DEF NothingInserted, Holds
    <3> QED
      BY <3>2, <3>3 DEF Holds
  <2> QED
    BY <1>1, <2>1 DEF HolderFoundInv
<1>3. ASSUME NEW a \in Account \ C
      PROVE  HolderOf(a)' = HolderOf(a)
  <2>1. ASSUME NEW s \in Server, Found(userlock', a, s)
        PROVE  Found(userlock, a, s)
    BY <2>1 DEF Found, NothingInserted, Holds
  <2>2. ASSUME NEW s \in Server, Found(userlock, a, s)
        PROVE  Found(userlock', a, s)
    BY <2>2 DEF Found
  <2> QED
    BY <2>1, <2>2, SameFoundSameHolder
<1> QED
  BY <1>2, <1>3 DEF holderBar

LEMMA ReleaseStep ==
    ASSUME IInv, IInv', NEW a \in Account, UnlockUser(a)
    PROVE  LM!Release(a)
<1> DEFINE h == HashOf[a]
<1>1. HolderFoundInv
  BY HolderFound
<1>2. h \in Bucket /\ userlock \in [Bucket -> Seq(Node)]
  BY LockTableAssumption DEF IInv, TypeOK, LockTableAssumption
<1>3. CASE DeleteMemLock(a) /\ Answer("unlock", a, TRUE)
  <2>1. PICK i \in DOMAIN userlock[h] :
           FirstHolding(userlock[h], i, a) /\ userlock' = [userlock EXCEPT ![h][i] = BlankNode]
    BY <1>3 DEF DeleteMemLock
  <2>2. isMemLocked(a)
    BY <2>1 DEF FirstHolding, isMemLocked
  <2>3. NothingInserted
    BY <1>2, <2>1 DEF NothingInserted, BlankNode
  <2>4. ASSUME NEW c \in Account, NEW b \in Bucket, NEW j \in DOMAIN userlock[b],
               Holds(userlock[b][j], c)
        PROVE  /\ j \in DOMAIN userlock'[b]
               /\ IF c \in {a} THEN ~userlock'[b][j].use ELSE userlock'[b][j] = userlock[b][j]
    <3>1. CASE c = a
      <4>1. b = h /\ j = i
        BY <1>2, <2>1, <2>4, <3>1 DEF IInv, OneNodePerAccount, FirstHolding, Holds
      <4> QED
        BY <1>2, <2>1, <3>1, <4>1 DEF BlankNode
    <3>2. CASE c # a
      <4>1. ~(b = h /\ j = i)
        BY <2>1, <2>4, <3>2 DEF FirstHolding, Holds
      <4> QED
        BY <1>2, <2>1, <3>2, <4>1
    <3> QED
      BY <3>1, <3>2
  <2>5. holderBar' = [c \in Account |-> IF c \in {a} THEN Free ELSE holderBar[c]]
    BY <2>3, <2>4, ClearedHolders
  <2>6. holderBar' = [holderBar EXCEPT ![a] = Free]
    BY <2>5 DEF holderBar
  <2>7. holderBar[a] # Free
    BY <1>1, <2>2 DEF HolderFoundInv, holderBar
  <2> QED
    BY <1>3, <2>6, <2>7 DEF LM!Release, LM!Answer, Answer
<1>4. CASE ~isMemLocked(a) /\ Answer("unlock", a, FALSE) /\ UNCHANGED userlock
  <2>1. holderBar[a] = Free
    BY <1>1, <1>4 DEF HolderFoundInv, holderBar
  <2>2. holderBar' = holderBar
    BY <1>4 DEF holderBar, HolderOf, isMemLocked
  <2>3. holderBar' = [holderBar EXCEPT ![a] = Free]
    BY <2>1, <2>2 DEF holderBar
  <2> QED
    BY <1>4, <2>1, <2>3 DEF LM!Release, LM!Answer, Answer
<1> QED
  BY <1>3, <1>4 DEF UnlockUser

(* Either sweep clears what a server held: by server name, or account by   *)
(* account through the accounts' own buckets.                              *)
HeldBy(s) == {a \in Account : Found(userlock, a, s)}

LEMMA HeldByHolder ==
    ASSUME IInv, NEW s \in Server
    PROVE  [a \in Account |-> IF a \in HeldBy(s) THEN Free ELSE holderBar[a]]
           = [a \in Account |-> IF holderBar[a] = s THEN Free ELSE holderBar[a]]
<1>1. HolderFoundInv
  BY HolderFound
<1> QED
  BY <1>1 DEF HolderFoundInv, HeldBy, holderBar

LEMMA DeleteServerStep ==
    ASSUME IInv, IInv', NEW s \in Server, DeleteMemLockServer(s)
    PROVE  LM!ReleaseServer(s)
<1>1. ASSUME NEW b \in Bucket, NEW i \in DOMAIN userlock[b]
      PROVE  /\ i \in DOMAIN userlock'[b]
             /\ IF userlock[b][i].use /\ userlock[b][i].server = s
                THEN ~userlock'[b][i].use ELSE userlock'[b][i] = userlock[b][i]
  <2>1. userlock'[b][i] = IF userlock[b][i].use /\ userlock[b][i].server = s
                          THEN [userlock[b][i] EXCEPT !.use = FALSE] ELSE userlock[b][i]
    BY DEF DeleteMemLockServer
  <2>2. userlock[b][i] \in Node
    BY DEF IInv, TypeOK
  <2>3. i \in DOMAIN userlock'[b]
    BY DEF DeleteMemLockServer
  <2> QED
    BY <2>1, <2>2, <2>3 DEF Node
<1>2. \A b \in Bucket : DOMAIN userlock'[b] = DOMAIN userlock[b]
  BY DEF DeleteMemLockServer
<1>3. NothingInserted
  BY <1>1, <1>2 DEF NothingInserted
<1>4. ASSUME NEW a \in Account, NEW b \in Bucket, NEW i \in DOMAIN userlock[b],
             Holds(userlock[b][i], a)
      PROVE  /\ i \in DOMAIN userlock'[b]
             /\ IF a \in HeldBy(s) THEN ~userlock'[b][i].use
                                   ELSE userlock'[b][i] = userlock[b][i]
  <2>1. a \in HeldBy(s) <=> userlock[b][i].server = s
    BY <1>4 DEF HeldBy, Found, IInv, OneNodePerAccount, Holds
  <2> QED
    BY <1>1, <1>4, <2>1 DEF Holds
<1>5. holderBar' = [a \in Account |-> IF a \in HeldBy(s) THEN Free ELSE holderBar[a]]
  BY <1>3, <1>4, ClearedHolders DEF HeldBy
<1> QED
  BY <1>5, HeldByHolder DEF LM!ReleaseServer, LM!Answer, Answer, DeleteMemLockServer

LEMMA AutoLogoutStep ==
    ASSUME IInv, IInv', NEW s \in Server, Worker_auto_logout(s)
    PROVE  LM!ReleaseServer(s)
<1>1. ASSUME NEW b \in Bucket, NEW i \in DOMAIN userlock[b]
      PROVE  /\ i \in DOMAIN userlock'[b]
             /\ userlock'[b][i] =
                   IF \E a \in HeldBy(s) : HashOf[a] = b /\ FirstHolding(userlock[b], i, a)
                   THEN BlankNode ELSE userlock[b][i]
  BY DEF Worker_auto_logout, HeldBy, Found
<1>2. \A b \in Bucket : DOMAIN userlock'[b] = DOMAIN userlock[b]
  BY DEF Worker_auto_logout
<1>3. NothingInserted
  BY <1>1, <1>2 DEF NothingInserted, BlankNode
<1>4. ASSUME NEW a \in Account, NEW b \in Bucket, NEW i \in DOMAIN userlock[b],
             Holds(userlock[b][i], a)
      PROVE  /\ i \in DOMAIN userlock'[b]
             /\ IF a \in HeldBy(s) THEN ~userlock'[b][i].use
                                   ELSE userlock'[b][i] = userlock[b][i]
  <2>1. userlock[b] \in Seq(Node) /\ DOMAIN userlock[b] = 1 .. Len(userlock[b])
    BY DEF IInv, TypeOK
  <2>2. HashOf[a] = b /\ FirstHolding(userlock[b], i, a)
    BY <1>4, <2>1 DEF IInv, OneNodePerAccount, FirstHolding, Holds
  <2>3. \A c \in Account : FirstHolding(userlock[b], i, c) => c = a
    BY <1>4 DEF FirstHolding, Holds
  <2> QED
    BY <1>1, <2>2, <2>3 DEF BlankNode, HeldBy
<1>5. holderBar' = [a \in Account |-> IF a \in HeldBy(s) THEN Free ELSE holderBar[a]]
  BY <1>3, <1>4, ClearedHolders DEF HeldBy
<1> QED
  BY <1>5, HeldByHolder DEF LM!ReleaseServer, LM!Answer, Answer, Worker_auto_logout

(* Every call of the node table is a call of the map, with the same answer. *)
LEMMA NextImplements == IInv /\ IInv' /\ [Next]_vars => [LM!LMNext]_(LM!lmvars)
<1> SUFFICES ASSUME IInv, IInv', [Next]_vars PROVE [LM!LMNext]_(LM!lmvars)
  OBVIOUS
<1>0. HolderFoundInv
  BY HolderFound
<1>1. ASSUME UNCHANGED userlock PROVE UNCHANGED holderBar
  BY <1>1 DEF holderBar, HolderOf, isMemLocked
<1>2. ASSUME NEW a \in Account, NEW s \in Server, LockUser(a, s)
      PROVE  LM!Grant(a, s) \/ LM!Refuse(a)
  <2>1. CASE isMemLocked(a) /\ Answer("lock", a, FALSE) /\ UNCHANGED userlock
    BY <1>1, <2>1 DEF LM!Refuse, LM!Answer, Answer
  <2>2. CASE ~isMemLocked(a) /\ InsertMemLock(a, s) /\ Answer("lock", a, TRUE)
    BY <2>2, GrantStep
  <2>3. ASSUME NEW k \in 0 .. GrowBy - 1, InsertMemLockNoMemory(a, k), Answer("lock", a, FALSE)
        PROVE  LM!Refuse(a)
    <3> DEFINE list == userlock[HashOf[a]]
    <3>1. list \in Seq(Node) /\ HashOf[a] \in Bucket /\ k \in Nat
      BY LockTableAssumption DEF LockTableAssumption, IInv, TypeOK
    <3>2. userlock' = [userlock EXCEPT ![HashOf[a]] = list \o Blanks(k)]
      BY <2>3 DEF InsertMemLockNoMemory
    <3>3. /\ \A i \in DOMAIN list :
                i \in DOMAIN (list \o Blanks(k)) /\ (list \o Blanks(k))[i] = list[i]
          /\ \A i \in DOMAIN (list \o Blanks(k)) :
                i \notin DOMAIN list => (list \o Blanks(k))[i] = BlankNode
      <4> HIDE DEF list
      <4>1. /\ DOMAIN (list \o Blanks(k)) = 1 .. (Len(list) + k)
            /\ \A i \in DOMAIN list : (list \o Blanks(k))[i] = list[i]
            /\ \A i \in DOMAIN (list \o Blanks(k)) :
                  i \notin DOMAIN list => (list \o Blanks(k))[i] = BlankNode
        BY <3>1, AppendBlanks
      <4>2. DOMAIN list = 1 .. Len(list) /\ Len(list) \in Nat
        BY <3>1
      <4> QED
        BY <3>1, <4>1, <4>2
    <3>4. /\ userlock'[HashOf[a]] = list \o Blanks(k)
          /\ \A b \in Bucket : b # HashOf[a] => userlock'[b] = userlock[b]
      BY <3>1, <3>2 DEF IInv, TypeOK
    <3>5. ASSUME NEW c \in Account, NEW t \in Server
          PROVE  Found(userlock', c, t) <=> Found(userlock, c, t)
      <4>1. ASSUME NEW b \in Bucket, NEW i \in DOMAIN userlock[b]
            PROVE  i \in DOMAIN userlock'[b] /\ userlock'[b][i] = userlock[b][i]
        BY <3>3, <3>4
      <4>2. ASSUME NEW b \in Bucket, NEW i \in DOMAIN userlock'[b], userlock'[b][i].use
            PROVE  i \in DOMAIN userlock[b] /\ userlock'[b][i] = userlock[b][i]
        <5>1. CASE b = HashOf[a]
          <6>1. userlock'[b] = list \o Blanks(k) /\ userlock[b] = list
            BY <3>4, <5>1
          <6>2. i \in DOMAIN (list \o Blanks(k)) /\ (list \o Blanks(k))[i].use
            BY <4>2, <6>1
          <6>3. ~BlankNode.use
            BY DEF BlankNode
          <6> HIDE DEF list
          <6>4. i \in DOMAIN list
            BY <3>3, <6>2, <6>3
          <6> QED
            BY <3>3, <6>1, <6>4
        <5>2. CASE b # HashOf[a]
          BY <3>4, <5>2
        <5> QED
          BY <5>1, <5>2
      <4> QED
        BY <4>1, <4>2 DEF Found, Holds
    <3>6. holderBar' = holderBar
      BY <3>5, SameFoundSameHolder DEF holderBar
    <3> QED
      BY <2>3, <3>6 DEF LM!Refuse, LM!Answer, Answer
  <2> QED
    BY <1>2, <2>1, <2>2, <2>3 DEF LockUser
<1>3. ASSUME NEW a \in Account, isLocked(a)
      PROVE  LM!Ask(a)
  <2>1. isMemLocked(a) <=> HolderOf(a) # Free
    BY <1>0 DEF HolderFoundInv
  <2>2. isMemLocked(a) \in BOOLEAN /\ (HolderOf(a) # Free) \in BOOLEAN
    BY DEF isMemLocked
  <2>3. holderBar[a] = HolderOf(a)
    BY DEF holderBar
  <2>4. isMemLocked(a) = (holderBar[a] # Free)
    BY <2>1, <2>2, <2>3, Zenon
  <2> QED
    BY <1>1, <1>3, <2>4 DEF isLocked, LM!Ask, LM!Answer, Answer
<1>4. CASE EmptyAccount
  BY <1>1, <1>4 DEF EmptyAccount, LM!LMNext, LM!Empty, LM!Answer, Answer
<1>5. CASE UNCHANGED vars
  BY <1>1, <1>5 DEF vars, LM!lmvars
<1> QED
  BY <1>2, <1>3, <1>4, <1>5, ReleaseStep, DeleteServerStep, AutoLogoutStep
     DEF Next, LM!LMNext

LEMMA InitImplements == Init => LM!LMInit
<1> SUFFICES ASSUME Init PROVE LM!LMInit
  OBVIOUS
<1>1. ASSUME NEW a \in Account PROVE ~isMemLocked(a)
  BY LockTableAssumption DEF LockTableAssumption, Init, Lock_Init, isMemLocked, Holds, BlankNode
<1>2. holderBar = [a \in Account |-> Free]
  BY <1>1 DEF holderBar, HolderOf
<1> QED
  BY <1>2 DEF Init, LM!LMInit

(* The node lists of lock.c implement a map from accounts to the server    *)
(* that holds them, with exact answers.                                    *)
THEOREM LockTableImplementsMap == Spec => ImplementsLockMap
<1>1. Init => LM!LMInit
  BY InitImplements
<1>2. IInv /\ IInv' /\ [Next]_vars => [LM!LMNext]_(LM!lmvars)
  BY NextImplements
<1> QED
  BY <1>1, <1>2, LockTableInvariant, PTL DEF Spec, ImplementsLockMap, LM!LMSpec
=============================================================================
