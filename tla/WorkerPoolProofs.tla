-------------------------- MODULE WorkerPoolProofs --------------------------
(***************************************************************************)
(* Proofs about WorkerPool, for any number of worker slots and requests:   *)
(* worker connections are never shared, a request is called back within    *)
(* two turns of the loop, and the pool implements TaskPool.                *)
(***************************************************************************)
EXTENDS WorkerPool, TLAPS

USE WorkerPoolAssumption DEF WorkerPoolAssumption

(* A busy worker is connected and on a request.                            *)
BusyInUse == \A n \in Index : Waiting(n) => wk[n].use /\ wk[n].request \in Request

(* Nothing stands in the buffer of a connection that is not open.          *)
ClosedEmpty == \A i \in Index : cWork[i] # "open" => WR[i] = "none"

(* A request that was never accepted has no age.                           *)
NewUnaged == \A r \in Request : r \notin Pending \union called => age[r] = 0

(* What the buffer of a worker in use holds, and how old its request is,   *)
(* in each part of a turn: "WK_W" in the turn that accepted it, nothing in *)
(* the next, an answer in the one after.                                   *)
LinesStage(n) ==
    /\ Idle(n) => WR[wk[n].ti] = "none"
    /\ Waiting(n) => \/ WR[wk[n].ti] = "WK_W" /\ age[wk[n].request] = 0
                     \/ WR[wk[n].ti] = "none" /\ age[wk[n].request] = 1

AcceptStage(n) ==
    /\ Idle(n) => WR[wk[n].ti] = "none"
    /\ Waiting(n) => \/ WR[wk[n].ti] = "WK_W" /\ age[wk[n].request] = 1
                     \/ WR[wk[n].ti] = "none" /\ age[wk[n].request] = 2

UndrainedStage(n) ==
    /\ Idle(n) => WR[wk[n].ti] # "WK_W"
    /\ Waiting(n) => \/ WR[wk[n].ti] = "none" /\ age[wk[n].request] = 1
                     \/ WR[wk[n].ti] = "WK_R" /\ age[wk[n].request] = 2

DrainedStage(n) ==
    /\ WR[wk[n].ti] = "none"
    /\ Waiting(n) => age[wk[n].request] = 1

Stages ==
    \A n \in Index : wk[n].use =>
        /\ phase \in {"lines", "timeouts"} => LinesStage(n)
        /\ phase = "accept" => AcceptStage(n)
        /\ phase = "drain" => IF wk[n].ti < cursor THEN DrainedStage(n)
                              ELSE UndrainedStage(n)

IInv == TypeOK /\ OwnConnections /\ BusyInUse /\ ClosedEmpty /\ NewUnaged /\ Stages

LEMMA InitIInv == Init => IInv
BY DEF Init, IInv, TypeOK, OwnConnections, BusyInUse, ClosedEmpty, NewUnaged, Stages,
       LinesStage, AcceptStage, UndrainedStage, DrainedStage, Index, Worker, Connection,
       Buffer, Phase, MaxAge, Waiting, Idle, Pending

(***************************************************************************)
(* tcpstruct_work_accept.                                                  *)
(***************************************************************************)
(* The exchange leaves no request unwritten and answers what was written.  *)
LEMMA ExchangedBuffers ==
    ASSUME IInv
    PROVE  /\ Exchanged \in [Index -> Buffer]
           /\ \A i \in Index : cWork[i] # "open" => Exchanged[i] = "none"
           /\ \A n \in Index : Waiting(n) =>
                 Exchanged[wk[n].ti] = IF WR[wk[n].ti] = "WK_W" THEN "none" ELSE "WK_R"
           /\ \A i \in Index : WR[i] # "WK_W" => Exchanged[i] # "WK_W"
<1>1. /\ WR \in [Index -> Buffer] /\ wk \in [Index -> Worker]
      /\ \A n \in Index : Waiting(n) => wk[n].ti \in Index /\ cWork[wk[n].ti] = "open"
  BY DEF IInv, TypeOK, OwnConnections, BusyInUse, Worker
<1>2. Exchanged \in [Index -> Buffer]
  BY <1>1 DEF Exchanged, Buffer
<1>3. \A i \in Index : cWork[i] # "open" => Exchanged[i] = "none"
  BY <1>1 DEF Exchanged, IInv, ClosedEmpty
<1>4. \A n \in Index : Waiting(n) =>
         Exchanged[wk[n].ti] = IF WR[wk[n].ti] = "WK_W" THEN "none" ELSE "WK_R"
  BY <1>1 DEF Exchanged
<1>5. \A i \in Index : WR[i] # "WK_W" => Exchanged[i] # "WK_W"
  BY <1>1 DEF Exchanged
<1> QED
  BY <1>2, <1>3, <1>4, <1>5

(* What may become of the workers: one in use was in use before, unchanged, *)
(* or is new, idle, and on a connection that was blank.                    *)
Joined(n) == /\ ~wk[n].use /\ wk'[n].use /\ wk'[n].status = "IDLE"
             /\ wk'[n].ti \in Index
             /\ cWork[wk'[n].ti] = "blank" /\ cWork'[wk'[n].ti] = "open"
             /\ \A m \in Index \ {n} : wk'[m] = wk[m]

AtMostOneJoined ==
    /\ wk' \in [Index -> Worker] /\ cWork' \in [Index -> Connection]
    /\ findWk' \in Index
    /\ \A i \in Index : cWork[i] = "open" => cWork'[i] = "open"
    /\ \/ wk' = wk
       \/ \E n \in Index : Joined(n)

LEMMA AcceptJoins == ASSUME IInv, work_accept PROVE AtMostOneJoined
<1>1. /\ wk \in [Index -> Worker] /\ cWork \in [Index -> Connection] /\ findWk \in Index
  BY DEF IInv, TypeOK
<1>2. CASE UNCHANGED <<wk, cWork, findWk>>
  BY <1>1, <1>2 DEF AtMostOneJoined
<1>3. ASSUME NEW i \in Index, NEW n \in Index,
             FirstBlank(i), FirstFrom(findWk, n, Unused),
             cWork' = [cWork EXCEPT ![i] = "open"], findWk' = n,
             wk' = [wk EXCEPT ![n] = [use |-> TRUE, status |-> "IDLE", ti |-> i,
                                      request |-> NoRequest]]
      PROVE  AtMostOneJoined
  <2>1. ~wk[n].use /\ cWork[i] = "blank"
    BY <1>3 DEF FirstFrom, Unused, FirstBlank
  <2>2. wk' \in [Index -> Worker] /\ cWork' \in [Index -> Connection]
    BY <1>1, <1>3 DEF Worker, Connection
  <2>3. Joined(n)
    BY <1>1, <1>3, <2>1 DEF Joined
  <2> QED
    BY <1>1, <1>3, <2>2, <2>3 DEF AtMostOneJoined
<1>4. ASSUME NEW i \in Index, FirstBlank(i),
             cWork' = [cWork EXCEPT ![i] = "leaked"], UNCHANGED <<wk, findWk>>
      PROVE  AtMostOneJoined
  BY <1>1, <1>4 DEF FirstBlank, AtMostOneJoined, Connection
<1> QED
  BY <1>2, <1>3, <1>4 DEF work_accept

LEMMA AcceptKeepsIInv == ASSUME IInv, work_accept PROVE IInv' /\ Pending' = Pending /\ called' = called
<1>1. AtMostOneJoined
  BY AcceptJoins
<1>2. /\ WR' = Exchanged /\ phase = "accept" /\ phase' = "drain" /\ cursor' = 0
      /\ worker_finder' = worker_finder /\ age' = age /\ called' = called
  BY DEF work_accept
<1>3. /\ wk \in [Index -> Worker] /\ age \in [Request -> 0 .. MaxAge]
      /\ \A n \in Index : Waiting(n) => wk[n].use /\ wk[n].request \in Request
      /\ \A n \in Index : wk[n].use => cWork[wk[n].ti] = "open" /\ wk[n].ti \in Index
  BY DEF IInv, TypeOK, OwnConnections, BusyInUse, Worker
<1>4. \A n \in Index : (Waiting(n))' <=> Waiting(n)
  BY <1>1, <1>3 DEF AtMostOneJoined, Joined, Waiting
<1>5. \A n \in Index : Waiting(n) => wk'[n] = wk[n]
  BY <1>1, <1>3 DEF AtMostOneJoined, Joined, Waiting
<1>6. TypeOK'
  BY <1>1, <1>2, <1>3, ExchangedBuffers DEF IInv, TypeOK, AtMostOneJoined, Phase, Index
<1>7. OwnConnections'
  BY <1>1, <1>3, <1>4, <1>5 DEF AtMostOneJoined, Joined, IInv, OwnConnections, Waiting
<1>8. BusyInUse'
  BY <1>3, <1>4, <1>5 DEF BusyInUse
<1>9. ClosedEmpty'
  BY <1>1, <1>2, ExchangedBuffers DEF AtMostOneJoined, ClosedEmpty
<1>10. Pending' = Pending
  BY <1>4, <1>5 DEF Pending
<1>11. NewUnaged'
  BY <1>2, <1>10 DEF IInv, NewUnaged
<1>12. Stages'
  <2> SUFFICES ASSUME NEW n \in Index, wk'[n].use PROVE (UndrainedStage(n))'
    BY <1>1, <1>2 DEF Stages, AtMostOneJoined, Worker, Index
  <2>1. CASE Joined(n)
    BY <1>2, <2>1, ExchangedBuffers DEF Joined, UndrainedStage, Idle, Waiting
  <2>2. CASE wk'[n] = wk[n]
    <3>1. AcceptStage(n)
      BY <1>2, <2>2 DEF IInv, Stages
    <3> QED
      BY <1>2, <1>3, <2>2, <3>1, ExchangedBuffers DEF AcceptStage, UndrainedStage, Idle, Waiting
  <2> QED
    BY <1>1, <2>1, <2>2 DEF AtMostOneJoined, Joined
<1> QED
  BY <1>2, <1>6, <1>7, <1>8, <1>9, <1>10, <1>11, <1>12 DEF IInv

(***************************************************************************)
(* The drain.                                                              *)
(***************************************************************************)
(* The loop over the slots goes on with the next one or is done.           *)
LEMMA AdvanceSteps ==
    ASSUME cursor \in Index, NEW next \in Phase, Advance(next)
    PROVE  /\ cursor' \in Index
           /\ \/ cursor + 1 < MAXWK /\ cursor' = cursor + 1 /\ phase' = phase
              \/ cursor + 1 = MAXWK /\ cursor' = 0 /\ phase' = next
BY DEF Advance, Index

(* A step calls back one pending request, or none.                         *)
OneCalledBack ==
    \/ Pending' = Pending /\ called' = called
    \/ \E r \in Request : /\ r \in Pending
                          /\ Pending' = Pending \ {r} /\ called' = called \union {r}

(* A step that frees one busy worker and changes no other: its request is  *)
(* the one that is no longer pending.                                      *)
LEMMA FreedPending ==
    ASSUME IInv, NEW n \in Index, Waiting(n), wk' \in [Index -> Worker],
           ~(Waiting(n))', \A m \in Index \ {n} : wk'[m] = wk[m]
    PROVE  Pending' = Pending \ {wk[n].request}
<1>1. \A m \in Index \ {n} : Waiting(m) => wk[m].request # wk[n].request
  BY DEF IInv, OwnConnections, BusyInUse
<1> QED
  BY <1>1 DEF Pending, Waiting

(* The buffer at the cursor is empty after the drain has passed it, and    *)
(* the worker on it, if any, is idle or on a request of the turn before.   *)
DrainedHere ==
    /\ WR' \in [Index -> Buffer] /\ wk' \in [Index -> Worker]
    /\ \A i \in Index : WR'[i] = WR[i] \/ (i = cursor /\ WR'[i] = "none")
    /\ \A m \in Index : wk'[m].use = wk[m].use /\ wk'[m].ti = wk[m].ti
    /\ \A m \in Index : wk'[m] = wk[m] \/ (wk[m].ti = cursor /\ wk'[m].status = "IDLE")
    /\ \A m \in Index : wk[m].use /\ wk[m].ti = cursor => (DrainedStage(m))'

LEMMA CallbackDrains ==
    ASSUME IInv, Drain, NEW n \in Index, WR[cursor] = "WK_R", doWorker(n),
           WR' = [WR EXCEPT ![cursor] = "none"]
    PROVE  /\ DrainedHere
           /\ Waiting(n) /\ ~(Waiting(n))' /\ \A m \in Index \ {n} : wk'[m] = wk[m]
           /\ called' = called \union {wk[n].request}
<1>1. /\ wk \in [Index -> Worker] /\ WR \in [Index -> Buffer] /\ cursor \in Index
      /\ \A m \in Index : wk[m].use /\ wk[n].use /\ wk[m].ti = wk[n].ti => m = n
  BY DEF IInv, TypeOK, OwnConnections
<1>2. /\ wk[n].use /\ wk[n].ti = cursor /\ Waiting(n)
      /\ called' = called \union {wk[n].request}
  BY DEF doWorker
<1>3. wk' = Now(n, TRUE, "IDLE", NoRequest)
  BY DEF doWorker, Freed
<1>4. wk' \in [Index -> Worker] /\ WR' \in [Index -> Buffer]
  <2>1. WR' \in [Index -> Buffer]
    BY <1>1 DEF Buffer
  <2>2. wk' \in [Index -> Worker]
    BY <1>1, <1>2, <1>3 DEF Now, Worker
  <2> QED
    BY <2>1, <2>2
<1>5. /\ wk'[n].use = wk[n].use /\ wk'[n].ti = cursor /\ wk'[n].status = "IDLE"
      /\ \A m \in Index \ {n} : wk'[m] = wk[m]
  BY <1>1, <1>2, <1>3 DEF Now, Worker
<1>6. \A m \in Index : wk[m].use /\ wk[m].ti = cursor => (DrainedStage(m))'
  BY <1>1, <1>2, <1>5 DEF DrainedStage, Waiting
<1> QED
  BY <1>1, <1>2, <1>4, <1>5, <1>6 DEF DrainedHere, Waiting

LEMMA NoCallbackDrains ==
    ASSUME IInv, phase = "drain", age' = age, wk' = wk,
           \/ /\ WR' = [WR EXCEPT ![cursor] = "none"] /\ WR[cursor] = "WK_R"
              /\ ~ \E n \in Index : wk[n].use /\ wk[n].ti = cursor /\ Waiting(n)
           \/ WR' = WR /\ WR[cursor] # "WK_R"
    PROVE  DrainedHere
<1>1. /\ wk \in [Index -> Worker] /\ WR \in [Index -> Buffer] /\ cursor \in Index
      /\ WR' \in [Index -> Buffer]
  BY DEF IInv, TypeOK, Buffer
<1>2. \A i \in Index : WR'[i] = WR[i] \/ (i = cursor /\ WR'[i] = "none")
  BY <1>1
<1>3. ASSUME NEW m \in Index, wk[m].use, wk[m].ti = cursor
      PROVE  (DrainedStage(m))'
  <2>1. UndrainedStage(m)
    BY <1>1, <1>3 DEF IInv, Stages, Index
  <2>2. wk[m].status \in {"IDLE", "WAITING"} /\ WR[cursor] \in {"none", "WK_R", "WK_W"}
    BY <1>1 DEF Worker, Buffer
  <2> QED
    BY <1>1, <1>3, <2>1, <2>2 DEF UndrainedStage, DrainedStage, Idle, Waiting
<1> QED
  BY <1>1, <1>2, <1>3 DEF DrainedHere

LEMMA DrainedStages ==
    ASSUME IInv, phase = "drain", age' = age, Advance("lines"), DrainedHere
    PROVE  Stages'
<1>1. /\ wk \in [Index -> Worker] /\ cursor \in Index
      /\ \A n \in Index : Waiting(n) => wk[n].use /\ wk[n].request \in Request
  BY DEF IInv, TypeOK, BusyInUse
<1>2. \/ cursor + 1 < MAXWK /\ cursor' = cursor + 1 /\ phase' = "drain"
      \/ cursor + 1 = MAXWK /\ cursor' = 0 /\ phase' = "lines"
  BY <1>1, AdvanceSteps DEF Phase
<1>3. ASSUME NEW n \in Index, wk'[n].use
      PROVE  IF wk'[n].ti <= cursor THEN (DrainedStage(n))' ELSE (UndrainedStage(n))'
  <2>1. /\ wk[n].use /\ wk'[n].ti = wk[n].ti /\ wk[n].ti \in Index
        /\ IF wk[n].ti < cursor THEN DrainedStage(n) ELSE UndrainedStage(n)
    BY <1>1, <1>3 DEF DrainedHere, IInv, Stages, Worker
  <2>2. CASE wk[n].ti = cursor
    BY <1>1, <2>1, <2>2 DEF DrainedHere, Index
  <2>3. CASE wk[n].ti # cursor
    <3>1. wk'[n] = wk[n] /\ WR'[wk[n].ti] = WR[wk[n].ti]
      BY <2>1, <2>3 DEF DrainedHere
    <3>2. DrainedStage(n) => (DrainedStage(n))'
      BY <3>1 DEF DrainedStage, Waiting
    <3>3. UndrainedStage(n) => (UndrainedStage(n))'
      BY <3>1 DEF UndrainedStage, Waiting, Idle
    <3> QED
      BY <1>1, <2>1, <2>3, <3>2, <3>3 DEF Index
  <2> QED
    BY <2>2, <2>3
<1>4. CASE cursor' = cursor + 1 /\ phase' = "drain"
  <2> SUFFICES ASSUME NEW n \in Index, wk'[n].use
               PROVE  IF wk'[n].ti < cursor' THEN (DrainedStage(n))' ELSE (UndrainedStage(n))'
    BY <1>4 DEF Stages
  <2>1. wk'[n].ti \in Index
    BY DEF DrainedHere, Worker
  <2>2. wk'[n].ti < cursor' <=> wk'[n].ti <= cursor
    BY <1>1, <1>4, <2>1 DEF Index
  <2> QED
    BY <1>3, <2>2
<1>5. CASE cursor + 1 = MAXWK /\ phase' = "lines"
  <2> SUFFICES ASSUME NEW n \in Index, wk'[n].use PROVE (LinesStage(n))'
    BY <1>5 DEF Stages
  <2>1. wk'[n].ti \in Index
    BY DEF DrainedHere, Worker
  <2>2. (DrainedStage(n))'
    BY <1>1, <1>3, <1>5, <2>1 DEF Index
  <2> QED
    BY <2>2 DEF DrainedStage, LinesStage
<1> QED
  BY <1>2, <1>4, <1>5

LEMMA DrainKeepsIInv == ASSUME IInv, Drain PROVE IInv' /\ OneCalledBack
<1>1. /\ phase = "drain" /\ cWork' = cWork /\ worker_finder' = worker_finder
      /\ findWk' = findWk /\ age' = age /\ Advance("lines")
  BY DEF Drain
<1>2. /\ wk \in [Index -> Worker] /\ cursor \in Index /\ called \subseteq Request
      /\ \A n \in Index : Waiting(n) => wk[n].use /\ wk[n].request \in Request
  BY DEF IInv, TypeOK, BusyInUse
<1>3. cursor' \in Index /\ phase' \in Phase
  BY <1>1, <1>2, AdvanceSteps DEF Phase
<1> DEFINE Done == DrainedHere /\ OneCalledBack
<1>4. Done
  <2>1. ASSUME NEW n \in Index, WR[cursor] = "WK_R", doWorker(n),
               WR' = [WR EXCEPT ![cursor] = "none"]
        PROVE  Done
    <3>1. /\ DrainedHere
          /\ Waiting(n) /\ ~(Waiting(n))' /\ \A m \in Index \ {n} : wk'[m] = wk[m]
          /\ called' = called \union {wk[n].request}
      BY <2>1, CallbackDrains
    <3>2. wk[n].request \in Pending
      BY <3>1 DEF Pending
    <3>3. Pending' = Pending \ {wk[n].request}
      BY <3>1, FreedPending DEF DrainedHere
    <3> QED
      BY <1>2, <3>1, <3>2, <3>3 DEF OneCalledBack
  <2>2. ASSUME wk' = wk, called' = called,
               \/ /\ WR' = [WR EXCEPT ![cursor] = "none"] /\ WR[cursor] = "WK_R"
                  /\ ~ \E n \in Index : wk[n].use /\ wk[n].ti = cursor /\ Waiting(n)
               \/ WR' = WR /\ WR[cursor] # "WK_R"
        PROVE  Done
    <3>1. DrainedHere
      BY <1>1, <2>2, NoCallbackDrains
    <3>2. Pending' = Pending
      BY <2>2 DEF Pending, Waiting
    <3> QED
      BY <1>2, <2>2, <3>1, <3>2 DEF OneCalledBack
  <2> QED
    BY <2>1, <2>2 DEF Drain
<1> HIDE DEF Done
<1>5. TypeOK'
  BY <1>1, <1>3, <1>4 DEF Done, IInv, TypeOK, DrainedHere, OneCalledBack
<1>6. OwnConnections'
  BY <1>1, <1>4 DEF Done, IInv, OwnConnections, DrainedHere, Waiting
<1>7. BusyInUse'
  BY <1>4 DEF Done, IInv, BusyInUse, DrainedHere, Waiting
<1>8. ClosedEmpty'
  BY <1>1, <1>4 DEF Done, IInv, ClosedEmpty, DrainedHere
<1>9. NewUnaged'
  BY <1>1, <1>4 DEF Done, IInv, NewUnaged, OneCalledBack
<1>10. Stages'
  BY <1>1, <1>4, DrainedStages DEF Done
<1> QED
  BY <1>4, <1>5, <1>6, <1>7, <1>8, <1>9, <1>10 DEF Done, IInv

(***************************************************************************)
(* Lines: a request goes to an idle worker whose buffer is empty.          *)
(***************************************************************************)
LEMMA TaskKeepsIInv ==
    ASSUME IInv, NEW r \in Request, addWorkerTask(r)
    PROVE  /\ IInv'
           /\ Pending' = Pending \union {r}
<1>1. /\ wk \in [Index -> Worker] /\ WR \in [Index -> Buffer]
      /\ \A n \in Index : Waiting(n) => wk[n].use /\ wk[n].request \in Request
      /\ \A m, n \in Index : wk[m].use /\ wk[n].use /\ wk[m].ti = wk[n].ti => m = n
      /\ \A n \in Index : wk[n].use => cWork[wk[n].ti] = "open" /\ wk[n].ti \in Index
      /\ r \notin Pending \union called /\ phase = "lines"
  BY DEF IInv, TypeOK, OwnConnections, BusyInUse, Worker, addWorkerTask
<1>2. PICK n \in Index : /\ Idle(n) /\ WR[wk[n].ti] = "none"
                         /\ WR' = [WR EXCEPT ![wk[n].ti] = "WK_W"]
                         /\ wk' = Now(n, TRUE, "WAITING", r)
                         /\ worker_finder' = n
  BY DEF addWorkerTask, FirstFrom, Idlers
<1>3. UNCHANGED <<cWork, findWk, phase, cursor, age, called>>
  BY DEF addWorkerTask
<1>4. /\ wk' \in [Index -> Worker]
      /\ wk'[n].use /\ wk'[n].ti = wk[n].ti
      /\ wk'[n].status = "WAITING" /\ wk'[n].request = r
      /\ \A m \in Index \ {n} : wk'[m] = wk[m]
  BY <1>1, <1>2 DEF Now, Worker, Idle
<1>5. WR' \in [Index -> Buffer]
  BY <1>1, <1>2 DEF Buffer
<1>6. \A m \in Index : Waiting(m) => wk[m].request # r
  BY <1>1 DEF Pending
<1>7. Pending' = Pending \union {r}
  <2>1. ~Waiting(n)
    BY <1>2 DEF Idle, Waiting
  <2> QED
    BY <1>4, <2>1 DEF Pending, Waiting
<1>8. TypeOK'
  BY <1>2, <1>3, <1>4, <1>5 DEF IInv, TypeOK
<1>9. OwnConnections'
  <2> SUFFICES ASSUME NEW l \in Index, NEW m \in Index, wk'[l].use, wk'[m].use
               PROVE  /\ cWork'[wk'[m].ti] = "open"
                      /\ wk'[l].ti = wk'[m].ti => l = m
                      /\ wk'[l].status = "WAITING" /\ wk'[m].status = "WAITING"
                         /\ wk'[l].request = wk'[m].request => l = m
    BY DEF OwnConnections, Waiting
  <2>1. wk[l].use /\ wk[m].use /\ wk'[l].ti = wk[l].ti /\ wk'[m].ti = wk[m].ti
    BY <1>2, <1>4 DEF Idle
  <2>2. CASE l # n /\ m # n
    BY <1>1, <1>3, <1>4, <2>1, <2>2 DEF IInv, OwnConnections, Waiting
  <2>3. CASE l = n \/ m = n
    BY <1>1, <1>3, <1>4, <1>6, <2>1, <2>3 DEF Waiting
  <2> QED
    BY <2>2, <2>3
<1>10. BusyInUse'
  BY <1>1, <1>4 DEF BusyInUse, Waiting
<1>11. ClosedEmpty'
  BY <1>1, <1>2, <1>3 DEF IInv, ClosedEmpty, Idle
<1>12. NewUnaged'
  BY <1>3, <1>7 DEF IInv, NewUnaged
<1>13. Stages'
  <2> SUFFICES ASSUME NEW m \in Index, wk'[m].use PROVE (LinesStage(m))'
    BY <1>1, <1>3 DEF Stages
  <2>1. CASE m = n
    <3>1. age[r] = 0
      BY <1>1 DEF IInv, NewUnaged
    <3> QED
      BY <1>1, <1>2, <1>3, <1>4, <2>1, <3>1 DEF LinesStage, Idle, Waiting
  <2>2. CASE m # n
    <3>1. wk'[m] = wk[m] /\ wk[m].use /\ wk[m].ti # wk[n].ti /\ wk[m].ti \in Index
      BY <1>1, <1>2, <1>4, <2>2 DEF Idle
    <3>2. LinesStage(m)
      BY <1>1, <3>1 DEF IInv, Stages
    <3> QED
      BY <1>1, <1>2, <1>3, <3>1, <3>2 DEF LinesStage, Idle, Waiting
  <2> QED
    BY <2>1, <2>2
<1> QED
  BY <1>7, <1>8, <1>9, <1>10, <1>11, <1>12, <1>13 DEF IInv

(* Only the search cursor, or the place in the turn, changes.              *)
LEMMA RefusalKeepsIInv == ASSUME IInv, addWorkerTaskRefused PROVE IInv'
<1>1. UNCHANGED <<wk, cWork, WR, findWk, phase, cursor, age, called>>
  BY DEF addWorkerTaskRefused
<1>2. worker_finder' \in Index
  BY DEF addWorkerTaskRefused, FirstFrom, Idlers, IInv, TypeOK
<1> QED
  BY <1>1, <1>2 DEF IInv, TypeOK, OwnConnections, BusyInUse, ClosedEmpty, NewUnaged, Stages,
     LinesStage, AcceptStage, UndrainedStage, DrainedStage, Waiting, Idle, Pending

LEMMA LinesDoneKeepsIInv == ASSUME IInv, LinesDone PROVE IInv'
<1>1. /\ UNCHANGED <<wk, cWork, WR, worker_finder, findWk, age, called>>
      /\ phase = "lines" /\ phase' = "timeouts" /\ cursor' = 0
  BY DEF LinesDone, pool
<1>2. TypeOK'
  BY <1>1 DEF IInv, TypeOK, Phase, Index
<1> QED
  BY <1>1, <1>2 DEF IInv, OwnConnections, BusyInUse, ClosedEmpty, NewUnaged, Stages,
     LinesStage, AcceptStage, UndrainedStage, DrainedStage, Waiting, Idle, Pending

(***************************************************************************)
(* Timeouts.                                                               *)
(***************************************************************************)
(* What a worker that is closed leaves behind.                             *)
LEMMA ClosedWorker ==
    ASSUME IInv, NEW n \in Index, wk[n].use, Waiting(n),
           wk' = Now(n, FALSE, "IDLE", NoRequest)
    PROVE  /\ wk' \in [Index -> Worker] /\ ~wk'[n].use /\ ~(Waiting(n))'
           /\ \A m \in Index \ {n} : wk'[m] = wk[m]
           /\ wk[n].request \in Request /\ wk[n].ti \in Index
<1>1. wk \in [Index -> Worker] /\ wk[n].request \in Request
  BY DEF IInv, TypeOK, BusyInUse
<1>2. wk' \in [Index -> Worker]
  BY <1>1 DEF Now, Worker
<1>3. /\ ~wk'[n].use /\ wk'[n].status = "IDLE"
      /\ \A m \in Index \ {n} : wk'[m] = wk[m]
  BY <1>1 DEF Now, Worker
<1>4. ~(Waiting(n))'
  BY <1>3 DEF Waiting
<1>5. wk[n].ti \in Index
  BY <1>1 DEF Worker
<1> QED
  BY <1>1, <1>2, <1>3, <1>4, <1>5

(* Either nobody times out, or the worker at the cursor is closed.         *)
ClosedHere ==
    /\ wk' \in [Index -> Worker] /\ cWork' \in [Index -> Connection]
    /\ WR' \in [Index -> Buffer]
    /\ OneCalledBack
    /\ \A n \in Index : wk'[n].use => /\ wk'[n] = wk[n]
                                     /\ WR'[wk[n].ti] = WR[wk[n].ti]
                                     /\ cWork'[wk[n].ti] = cWork[wk[n].ti]
    /\ \A n \in Index : (Waiting(n))' => wk'[n].use
    /\ \A i \in Index : cWork'[i] # "open" => WR'[i] = "none"

LEMMA TimeoutCloses == ASSUME IInv, WorkerTimeout PROVE ClosedHere
<1>1. /\ wk \in [Index -> Worker] /\ cWork \in [Index -> Connection]
      /\ WR \in [Index -> Buffer] /\ called \subseteq Request
      /\ \A n \in Index : wk[n].use => wk[n].ti \in Index
      /\ \A i \in Index : cWork[i] # "open" => WR[i] = "none"
      /\ \A n \in Index : Waiting(n) => wk[n].use
      /\ \A m, n \in Index : wk[m].use /\ wk[n].use /\ wk[m].ti = wk[n].ti => m = n
  BY DEF IInv, TypeOK, OwnConnections, BusyInUse, ClosedEmpty, Worker
<1>2. CASE UNCHANGED <<wk, cWork, WR, called>>
  BY <1>1, <1>2 DEF ClosedHere, OneCalledBack, Waiting, Pending
<1>3. ASSUME NEW c \in Index, wk[c].use, Waiting(c),
             wk' = Now(c, FALSE, "IDLE", NoRequest),
             cWork' = [cWork EXCEPT ![wk[c].ti] = "blank"],
             WR' = [WR EXCEPT ![wk[c].ti] = "none"],
             called' = called \union {wk[c].request}
      PROVE  ClosedHere
  <2>1. /\ wk' \in [Index -> Worker] /\ ~wk'[c].use /\ ~(Waiting(c))'
        /\ \A m \in Index \ {c} : wk'[m] = wk[m]
        /\ wk[c].request \in Request /\ wk[c].ti \in Index
    BY <1>3, ClosedWorker
  <2>2. wk[c].request \in Pending
    BY <1>3 DEF Pending
  <2>3. Pending' = Pending \ {wk[c].request}
    BY <1>3, <2>1, FreedPending
  <2>4. OneCalledBack
    <3>1. called' = called \union {wk[c].request}
      BY <1>3
    <3> QED
      BY <2>1, <2>2, <2>3, <3>1 DEF OneCalledBack
  <2>5. cWork' \in [Index -> Connection] /\ WR' \in [Index -> Buffer]
    BY <1>1, <1>3 DEF Connection, Buffer
  <2>6. \A n \in Index : wk'[n].use => /\ wk'[n] = wk[n]
                                     /\ WR'[wk[n].ti] = WR[wk[n].ti]
                                     /\ cWork'[wk[n].ti] = cWork[wk[n].ti]
    <3> SUFFICES ASSUME NEW n \in Index, wk'[n].use
                 PROVE  /\ wk'[n] = wk[n]
                        /\ WR'[wk[n].ti] = WR[wk[n].ti]
                        /\ cWork'[wk[n].ti] = cWork[wk[n].ti]
      OBVIOUS
    <3>1. n # c /\ wk'[n] = wk[n] /\ wk[n].use
      BY <2>1
    <3>2. wk[n].ti # wk[c].ti
      BY <1>1, <1>3, <3>1
    <3>3. WR'[wk[n].ti] = WR[wk[n].ti] /\ cWork'[wk[n].ti] = cWork[wk[n].ti]
      <4>1. /\ cWork' = [cWork EXCEPT ![wk[c].ti] = "blank"]
            /\ WR' = [WR EXCEPT ![wk[c].ti] = "none"]
        BY <1>3
      <4> QED
        BY <1>1, <3>1, <3>2, <4>1
    <3> QED
      BY <3>1, <3>3
  <2>7. \A n \in Index : (Waiting(n))' => wk'[n].use
    BY <1>1, <2>1 DEF Waiting
  <2>8. \A i \in Index : cWork'[i] # "open" => WR'[i] = "none"
    BY <1>1, <1>3
  <2> QED
    BY <2>1, <2>4, <2>5, <2>6, <2>7, <2>8 DEF ClosedHere
<1>4. cursor \in Index
  BY DEF IInv, TypeOK
<1> QED
  BY <1>2, <1>3, <1>4 DEF WorkerTimeout

(* The turn ends with the last worker: what is pending is a turn older.    *)
LEMMA TimeoutAges ==
    ASSUME IInv, WorkerTimeout
    PROVE  /\ age' \in [Request -> 0 .. MaxAge]
           /\ \A r \in Request : r \notin Pending' => age'[r] = age[r]
           /\ \/ cursor' = cursor + 1 /\ phase' = "timeouts" /\ age' = age
              \/ /\ cursor' = 0 /\ phase' = "accept"
                 /\ \A r \in Pending' : r \in Request /\ age[r] < MaxAge
                                           => age'[r] = age[r] + 1
           /\ cursor' \in Index
<1>1. cursor \in Index /\ age \in [Request -> 0 .. MaxAge] /\ phase = "timeouts"
  BY DEF IInv, TypeOK, WorkerTimeout
<1>2. Advance("accept") /\ TurnDone
  BY DEF WorkerTimeout
<1>3. /\ cursor' \in Index
      /\ \/ cursor + 1 < MAXWK /\ cursor' = cursor + 1 /\ phase' = "timeouts"
         \/ cursor + 1 = MAXWK /\ cursor' = 0 /\ phase' = "accept"
  BY <1>1, <1>2, AdvanceSteps DEF Phase
<1>4. CASE cursor + 1 < MAXWK
  BY <1>1, <1>2, <1>3, <1>4 DEF TurnDone, Index
<1>5. CASE cursor + 1 = MAXWK
  <2>1. age' = [r \in Request |->
                   IF r \in Pending' /\ age[r] < MaxAge THEN age[r] + 1 ELSE age[r]]
    BY <1>2, <1>5 DEF TurnDone
  <2> QED
    BY <1>1, <1>3, <1>5, <2>1 DEF MaxAge, Index
<1> QED
  BY <1>1, <1>4, <1>5 DEF Index

LEMMA TimeoutKeepsIInv == ASSUME IInv, WorkerTimeout PROVE IInv' /\ OneCalledBack
<1>1. ClosedHere
  BY TimeoutCloses
<1>2. /\ age' \in [Request -> 0 .. MaxAge]
      /\ \A r \in Request : r \notin Pending' => age'[r] = age[r]
      /\ \/ cursor' = cursor + 1 /\ phase' = "timeouts" /\ age' = age
         \/ /\ cursor' = 0 /\ phase' = "accept"
            /\ \A r \in Pending' : r \in Request /\ age[r] < MaxAge
                                      => age'[r] = age[r] + 1
      /\ cursor' \in Index
  BY TimeoutAges
<1>3. phase = "timeouts" /\ worker_finder' = worker_finder /\ findWk' = findWk
  BY DEF WorkerTimeout
<1>4. TypeOK'
  BY <1>1, <1>2, <1>3 DEF IInv, TypeOK, ClosedHere, OneCalledBack, Phase
<1>5. OwnConnections'
  BY <1>1 DEF IInv, OwnConnections, ClosedHere, Waiting
<1>6. BusyInUse'
  BY <1>1 DEF IInv, BusyInUse, ClosedHere, Waiting
<1>7. ClosedEmpty'
  BY <1>1 DEF ClosedEmpty, ClosedHere
<1>8. NewUnaged'
  BY <1>1, <1>2 DEF IInv, NewUnaged, ClosedHere, OneCalledBack
<1>9. Stages'
  <2> SUFFICES ASSUME NEW n \in Index, wk'[n].use
               PROVE  /\ phase' = "timeouts" => (LinesStage(n))'
                      /\ phase' = "accept" => (AcceptStage(n))'
    BY <1>2 DEF Stages
  <2>1. wk'[n] = wk[n] /\ WR'[wk[n].ti] = WR[wk[n].ti] /\ LinesStage(n)
    BY <1>1, <1>3 DEF ClosedHere, IInv, Stages
  <2>2. Waiting(n) => wk[n].request \in Pending' /\ wk[n].request \in Request
    BY <2>1 DEF IInv, BusyInUse, Pending, Waiting
  <2> QED
    BY <1>2, <2>1, <2>2 DEF LinesStage, AcceptStage, Idle, Waiting, MaxAge
<1> QED
  BY <1>1, <1>4, <1>5, <1>6, <1>7, <1>8, <1>9 DEF IInv, ClosedHere

(***************************************************************************)
(* Theorems.                                                               *)
(***************************************************************************)
LEMMA NextKeepsIInv == IInv /\ [Next]_vars => IInv'
<1> SUFFICES ASSUME IInv, [Next]_vars PROVE IInv'
  OBVIOUS
<1>1. CASE UNCHANGED vars
  BY <1>1 DEF vars, IInv, TypeOK, OwnConnections, BusyInUse, ClosedEmpty, NewUnaged, Stages,
     LinesStage, AcceptStage, UndrainedStage, DrainedStage, Waiting, Idle, Pending
<1> QED
  BY <1>1, AcceptKeepsIInv, DrainKeepsIInv, LinesDoneKeepsIInv, TimeoutKeepsIInv,
     TaskKeepsIInv, RefusalKeepsIInv DEF Next

(* The inductive invariant of the pool: what its buffers hold at each      *)
(* point of a turn of SAAC's main loop.                                    *)
THEOREM WorkerPoolInvariant == Spec => []IInv
<1> QED
  BY InitIInv, NextKeepsIInv, PTL DEF Spec

(* The variables of the pool stay well formed.                             *)
THEOREM WorkerPoolTypes == Spec => []TypeOK
<1>1. IInv => TypeOK
  BY DEF IInv
<1> QED
  BY <1>1, WorkerPoolInvariant, PTL

(* doWorker (main.c) finds the worker of an answer by its connection: no   *)
(* two workers in use share one, and none in use is on a closed one.       *)
THEOREM WorkerPoolOwnConnections == Spec => []OwnConnections
<1>1. IInv => OwnConnections
  BY DEF IInv
<1> QED
  BY <1>1, WorkerPoolInvariant, PTL

(* A request is called back before the lines of the next turn but one are  *)
(* read, for any number of workers and requests.                           *)
THEOREM WorkerPoolTwoTurns == Spec => []CalledBackInTwoTurns
<1>1. IInv => CalledBackInTwoTurns
  BY DEF IInv, TypeOK, BusyInUse, Stages, LinesStage, CalledBackInTwoTurns, Pending
<1> QED
  BY <1>1, WorkerPoolInvariant, PTL

(* While lines are read an idle worker has an empty buffer.                *)
THEOREM WorkerPoolIdleTakes == Spec => []IdleWorkerTakesRequest
<1>1. IInv => IdleWorkerTakesRequest
  BY DEF IInv, Stages, LinesStage, IdleWorkerTakesRequest, Idle
<1> QED
  BY <1>1, WorkerPoolInvariant, PTL
(***************************************************************************)
(* The refinement.                                                         *)
(***************************************************************************)
(* A step of the pool submits one request, calls back one, or does neither.*)
LEMMA NextImplements == IInv /\ [Next]_vars => [TP!TPNext]_(TP!tpvars)
<1> SUFFICES ASSUME IInv, [Next]_vars PROVE [TP!TPNext]_(TP!tpvars)
  OBVIOUS
<1>1. CASE OneCalledBack
  BY <1>1 DEF OneCalledBack, TP!TPNext, TP!CallBack, TP!tpvars
<1>2. ASSUME NEW r \in Request, addWorkerTask(r)
      PROVE  TP!TPNext
  <2>1. Pending' = Pending \union {r}
    BY <1>2, TaskKeepsIInv
  <2>2. r \notin Pending \union called /\ called' = called
    BY <1>2 DEF addWorkerTask
  <2> QED
    BY <2>1, <2>2 DEF TP!TPNext, TP!Submit
<1>3. CASE work_accept
  BY <1>3, AcceptKeepsIInv DEF TP!tpvars
<1>4. CASE addWorkerTaskRefused
  BY <1>4 DEF addWorkerTaskRefused, TP!tpvars, Pending, Waiting
<1>5. CASE LinesDone
  BY <1>5 DEF LinesDone, pool, TP!tpvars, Pending, Waiting
<1>6. CASE UNCHANGED vars
  BY <1>6 DEF vars, TP!tpvars, Pending, Waiting
<1> QED
  BY <1>1, <1>2, <1>3, <1>4, <1>5, <1>6, DrainKeepsIInv, TimeoutKeepsIInv DEF Next

(* Whatever workers come, time out or leak their connections, the pool     *)
(* calls back what it accepted, each request once.                         *)
THEOREM WorkerPoolImplements == Spec => ImplementsTaskPool
<1>1. Init => TP!TPInit
  BY DEF Init, TP!TPInit, Pending, Waiting
<1> QED
  BY <1>1, NextImplements, WorkerPoolInvariant, PTL DEF Spec, ImplementsTaskPool, TP!TPSpec

=============================================================================
