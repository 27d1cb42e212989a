----------------------------- MODULE WorkerPool -----------------------------
(***************************************************************************)
(* SAAC's pool of worker processes: main.c (addWorkerTask, doWorker, the   *)
(* main loop) and saacproto_work.c (the one-message buffer of each worker  *)
(* connection).  A request goes out through the buffer of an idle worker   *)
(* and its callback runs when an answer stands there.  As the code is      *)
(* built nothing is read from the workers: while any worker is busy, each  *)
(* turn of the loop puts an answer of its own making into every empty      *)
(* buffer.  The model follows one turn: accept, drain, lines, timeouts.    *)
(***************************************************************************)
EXTENDS Integers, FiniteSets

CONSTANTS MAXWK,     \* worker slots, and worker connections: 50
          Request,   \* requests, each submitted once
          NoRequest

ASSUME WorkerPoolAssumption == MAXWK \in Nat \ {0} /\ NoRequest \notin Request

Index == 0 .. MAXWK - 1

VARIABLES
    wk,             \* wk[n]: the worker in slot n, and the request it is on
    cWork,          \* cWork[i]: worker connection i
    WR,             \* WR[i]: what the buffer of connection i holds
    worker_finder,  \* the slot addWorkerTask looked at last
    findWk,         \* the slot tcpstruct_work_accept looked at last
    phase, cursor,  \* where the main loop is
    age,            \* age[r]: turns of the loop since r was accepted
    called          \* requests called back

pool == <<wk, cWork, WR, worker_finder, findWk>>
vars == <<wk, cWork, WR, worker_finder, findWk, phase, cursor, age, called>>

Phase == {"accept", "drain", "lines", "timeouts"}
MaxAge == 3   \* bound: older requests are not told apart

(* use is also "fd >= 0": the two are set and cleared together.            *)
Worker == [use : BOOLEAN, status : {"IDLE", "WAITING"}, ti : Index,
           request : Request \union {NoRequest}]

(* A connection is blank (use = 0), open, or leaked: in use without an fd. *)
Connection == {"blank", "open", "leaked"}
Buffer     == {"none", "WK_R", "WK_W"}

(* The workers when the one in slot n has become so; it keeps its place.   *)
Now(n, use, status, r) ==
    [wk EXCEPT ![n] = [use |-> use, status |-> status, ti |-> wk[n].ti, request |-> r]]

Waiting(n) == wk[n].status = "WAITING"
Idle(n)    == wk[n].use /\ wk[n].status = "IDLE"

Pending == {wk[n].request : n \in {m \in Index : Waiting(m)}}

Init ==
    /\ wk = [n \in Index |-> [use |-> FALSE, status |-> "IDLE", ti |-> 0,
                              request |-> NoRequest]]
    /\ cWork = [i \in Index |-> "blank"]
    /\ WR = [i \in Index |-> "none"]
    /\ worker_finder = 0 /\ findWk = 0
    /\ phase = "accept" /\ cursor = 0
    /\ age = [r \in Request |-> 0]
    /\ called = {}

(***************************************************************************)
(* tcpstruct_work_accept.                                                  *)
(***************************************************************************)
(* Changed forms of a definition, here and below, are named for what they  *)
(* leave out; no action of Next uses them.                                 *)
ExchangedUnwritten ==
    [i \in Index |-> IF cWork[i] = "open" /\ WR[i] = "none" THEN "WK_R" ELSE WR[i]]

ExchangedAllButLast ==
    IF \E n \in Index : Waiting(n)
    THEN [i \in Index |-> IF cWork[i] # "open" \/ i = MAXWK - 1 THEN WR[i]
                          ELSE IF WR[i] = "WK_W" THEN "none" ELSE "WK_R"]
    ELSE WR

(* While any worker is busy: an answer for every empty buffer, and what    *)
(* was to be written is dropped.  Only connections with an fd take part.   *)
Exchanged ==
    IF \E n \in Index : Waiting(n)
    THEN [i \in Index |-> IF cWork[i] # "open" THEN WR[i]
                          ELSE IF WR[i] = "WK_W" THEN "none" ELSE "WK_R"]
    ELSE WR

(* FindWorkRegBlankCon: the first blank connection.                        *)
FirstBlank(i) == /\ cWork[i] = "blank"
                 /\ \A j \in Index : j < i => cWork[j] # "blank"

(* Slots looked at before n in a search that starts after slot from.       *)
Steps(from, n) == (n - from - 1) % MAXWK

FirstFrom(from, n, S) == /\ n \in S
                         /\ \A m \in S : Steps(from, n) <= Steps(from, m)

Unused == {n \in Index : ~wk[n].use}

work_accept ==
    /\ phase = "accept"
    /\ WR' = Exchanged
    /\ \/ UNCHANGED <<wk, cWork, findWk>>
       \/ \E i, n \in Index :
             /\ FirstBlank(i) /\ FirstFrom(findWk, n, Unused)
             /\ cWork' = [cWork EXCEPT ![i] = "open"]
             /\ findWk' = n
             /\ wk' = [wk EXCEPT ![n] = [use |-> TRUE, status |-> "IDLE", ti |-> i,
                                         request |-> NoRequest]]
       \/ \E i \in Index :   \* accept() fails: the connection is not given back
             /\ FirstBlank(i)
             /\ cWork' = [cWork EXCEPT ![i] = "leaked"]
             /\ UNCHANGED <<wk, findWk>>
    /\ phase' = "drain" /\ cursor' = 0
    /\ UNCHANGED <<worker_finder, age, called>>

(***************************************************************************)
(* The drain: doWorker for every connection with an answer.                *)
(***************************************************************************)
Advance(next) == IF cursor + 1 < MAXWK THEN cursor' = cursor + 1 /\ UNCHANGED phase
                 ELSE cursor' = 0 /\ phase' = next

Freed(n) == Now(n, TRUE, "IDLE", NoRequest)

doWorkerStaysBusy(n) ==
    /\ wk[n].use /\ wk[n].ti = cursor /\ Waiting(n)
    /\ UNCHANGED wk
    /\ called' = called \union {wk[n].request}

(* The worker whose connection the answer came in on is busy: callback.    *)
doWorker(n) ==
    /\ wk[n].use /\ wk[n].ti = cursor /\ Waiting(n)
    /\ wk' = Freed(n)
    /\ called' = called \union {wk[n].request}

DrainBusyOnly ==
    /\ phase = "drain"
    /\ \/ /\ WR[cursor] = "WK_R" /\ \E n \in Index : doWorker(n)
          /\ WR' = [WR EXCEPT ![cursor] = "none"]
       \/ /\ ~ \E n \in Index : wk[n].use /\ wk[n].ti = cursor /\ Waiting(n)
          /\ UNCHANGED <<wk, WR, called>>
       \/ WR[cursor] # "WK_R" /\ UNCHANGED <<wk, WR, called>>
    /\ Advance("lines")
    /\ UNCHANGED <<cWork, worker_finder, findWk, age>>

Drain ==
    /\ phase = "drain"
    /\ \/ /\ WR[cursor] = "WK_R"
          /\ WR' = [WR EXCEPT ![cursor] = "none"]
          /\ \/ \E n \in Index : doWorker(n)
             \/ /\ ~ \E n \in Index : wk[n].use /\ wk[n].ti = cursor /\ Waiting(n)
                /\ UNCHANGED <<wk, called>>
       \/ /\ WR[cursor] # "WK_R"
          /\ UNCHANGED <<wk, WR, called>>
    /\ Advance("lines")
    /\ UNCHANGED <<cWork, worker_finder, findWk, age>>

(***************************************************************************)
(* Lines from the game servers: any number of requests.                    *)
(***************************************************************************)
Idlers == {n \in Index : Idle(n)}

addWorkerTaskUnwrapped(r) ==
    /\ phase = "lines" /\ r \notin Pending \union called
    /\ \E n \in Index :
          /\ FirstFrom(worker_finder, n, Idlers)
          /\ WR[wk[n].ti] = "none"
          /\ WR' = [WR EXCEPT ![wk[n].ti] = "WK_W"]
          /\ wk' = Now(n, TRUE, "WAITING", r)
          /\ worker_finder' = n + 1
    /\ UNCHANGED <<cWork, findWk, phase, cursor, age, called>>

addWorkerTask(r) ==
    /\ phase = "lines" /\ r \notin Pending \union called
    /\ \E n \in Index :
          /\ FirstFrom(worker_finder, n, Idlers)
          /\ WR[wk[n].ti] = "none"
          /\ WR' = [WR EXCEPT ![wk[n].ti] = "WK_W"]
          /\ wk' = Now(n, TRUE, "WAITING", r)
          /\ worker_finder' = n
    /\ UNCHANGED <<cWork, findWk, phase, cursor, age, called>>

(* Refused: no worker is idle, or the first idle one's buffer is taken.    *)
addWorkerTaskRefused ==
    /\ phase = "lines"
    /\ \/ Idlers = {} /\ UNCHANGED worker_finder
       \/ \E n \in Index : /\ FirstFrom(worker_finder, n, Idlers)
                           /\ WR[wk[n].ti] # "none"
                           /\ worker_finder' = n
    /\ UNCHANGED <<wk, cWork, WR, findWk, phase, cursor, age, called>>

LinesDone ==
    /\ phase = "lines"
    /\ phase' = "timeouts" /\ cursor' = 0
    /\ UNCHANGED <<pool, age, called>>

(***************************************************************************)
(* Timeouts: a worker busy for WKTIMEOUT seconds, however many turns that  *)
(* is, is closed and its request called back as failed.                    *)
(***************************************************************************)
TurnDone == IF cursor + 1 < MAXWK THEN UNCHANGED age
            ELSE age' = [r \in Request |->
                    IF r \in Pending' /\ age[r] < MaxAge THEN age[r] + 1 ELSE age[r]]

WorkerTimeoutKeepsWorker ==
    /\ phase = "timeouts"
    /\ \/ /\ wk[cursor].use /\ Waiting(cursor)
          /\ wk' = Freed(cursor)
          /\ cWork' = [cWork EXCEPT ![wk[cursor].ti] = "blank"]
          /\ WR' = [WR EXCEPT ![wk[cursor].ti] = "none"]
          /\ called' = called \union {wk[cursor].request}
       \/ UNCHANGED <<wk, cWork, WR, called>>
    /\ Advance("accept")
    /\ TurnDone
    /\ UNCHANGED <<worker_finder, findWk>>

WorkerTimeout ==
    /\ phase = "timeouts"
    /\ \/ /\ wk[cursor].use /\ Waiting(cursor)
          /\ wk' = Now(cursor, FALSE, "IDLE", NoRequest)
          /\ cWork' = [cWork EXCEPT ![wk[cursor].ti] = "blank"]
          /\ WR' = [WR EXCEPT ![wk[cursor].ti] = "none"]
          /\ called' = called \union {wk[cursor].request}
       \/ UNCHANGED <<wk, cWork, WR, called>>
    /\ Advance("accept")
    /\ TurnDone
    /\ UNCHANGED <<worker_finder, findWk>>

Next == \/ work_accept \/ Drain \/ LinesDone \/ WorkerTimeout
        \/ \E r \in Request : addWorkerTask(r)
        \/ addWorkerTaskRefused

Spec == Init /\ [][Next]_vars

(* The loop never stops: a turn reads at most one line of each slot.       *)
FairSpec == /\ Spec
            /\ WF_vars(work_accept) /\ WF_vars(Drain)
            /\ WF_vars(LinesDone) /\ WF_vars(WorkerTimeout)

(***************************************************************************)
(* Properties.                                                             *)
(***************************************************************************)
TypeOK ==
    /\ wk \in [Index -> Worker]
    /\ cWork \in [Index -> Connection]
    /\ WR \in [Index -> Buffer]
    /\ worker_finder \in Index /\ findWk \in Index
    /\ phase \in Phase /\ cursor \in Index
    /\ age \in [Request -> 0 .. MaxAge]
    /\ called \subseteq Request

(* doWorker calls back every busy worker whose ti is the connection's, so  *)
(* a connection shared, or closed under a worker, would call a request     *)
(* back with another's answer: workers in use have open connections of     *)
(* their own, and a busy one is on a request of its own.                   *)
OwnConnections ==
    \A m, n \in Index : wk[m].use /\ wk[n].use =>
        /\ cWork[wk[n].ti] = "open"
        /\ wk[m].ti = wk[n].ti => m = n
        /\ Waiting(m) /\ Waiting(n) /\ wk[m].request = wk[n].request => m = n

(* A request accepted in one turn is called back in the next but one,      *)
(* before that turn's lines are read: what a new server sends on a reused  *)
(* slot is never read while a request of the old one is outstanding.       *)
CalledBackInTwoTurns ==
    phase = "lines" => \A r \in Pending : age[r] <= 1

(* "server load too high" is true when it is said: while lines are read, a *)
(* worker that is idle has an empty buffer and can take the request.       *)
IdleWorkerTakesRequest ==
    phase = "lines" => \A n \in Index : Idle(n) => WR[wk[n].ti] = "none"

TP == INSTANCE TaskPool WITH pending <- Pending

(* Accepted requests are called back once.                                 *)
ImplementsTaskPool == TP!TPSpec

(* ... and all of them are.                                                *)
EveryRequestCalledBack == \A r \in Request : r \in Pending ~> r \in called
=============================================================================
