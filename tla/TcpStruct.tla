------------------------------ MODULE TcpStruct ------------------------------
(***************************************************************************)
(* The connections of the account server: the pool of memory buffers, the  *)
(* connections that string buffers together (tcpstruct_* of saac/main.c),  *)
(* and the part of the main loop that fills, drains, accepts and closes    *)
(* them and keeps the table gs[] of game servers.                          *)
(*                                                                         *)
(* A character is a cell.  What matters of a cell is the connection it was *)
(* read from and its place in the line it was sent in: first, inside, or   *)
(* the newline.  A turn of the loop is a read phase and a write phase over *)
(* the connections, at most one accept, and a phase that takes one line    *)
(* from each connection.                                                   *)
(***************************************************************************)
EXTENDS Integers, Sequences, FiniteSets, SequencesExt

CONSTANTS MbSize,    \* memory buffers: mbsize
          BufSize,   \* cells of a buffer: 512
          MaxCon,    \* connections 1 .. MaxCon: MAXCONNECTION - 1
          TmpSize,   \* cells read at once: sizeof(tmpbuf)
          SendSize,  \* cells written at once: 4096
          LineMax,   \* longest line the loop takes
          Inside,    \* by slot: cells of a line between its first and its newline
          MaxFaults  \* bound: exceptional events in one execution

ASSUME TcpStructAssumption ==
    /\ MbSize \in Nat \ {0} /\ BufSize \in Nat \ {0} /\ MaxCon \in Nat \ {0}
    /\ TmpSize \in Nat \ {0} /\ SendSize \in Nat \ {0} /\ LineMax \in Nat
    /\ MaxCon < MbSize
    /\ MaxFaults \in Nat /\ Inside \in [1 .. MaxCon -> Nat]

Buf == 0 .. MbSize - 1
Con == 1 .. MaxCon
None == -1
EMBFULL == -13

VARIABLES mb,        \* the buffers: [use, buf, next]
          mbuse,     \* how many are in use, as the code counts
          con,       \* the connections: [use, fd, closed, ri, wi]
          gs,        \* connections whose gs[] entry is in use
          pc,        \* phase of the turn and the connection it is at
          armed,     \* connections handed to select() in this turn
          sent,      \* cells the peer has sent of a line it has not ended
          got,       \* the line the last step took from a connection
          faults     \* exceptional events so far

vars == <<mb, mbuse, con, gs, pc, armed, sent, got, faults>>
mem  == <<mb, mbuse>>

Part == {"first", "inside", "newline"}
Cell == [con : Con, part : Part]
Event == {"accept",   \* accept() failed
          "memory",   \* no buffer for a new connection
          "dropped"}  \* what was read did not fit
NoLine == [con |-> None, line |-> <<>>]

FreeBuf == [use |-> FALSE, buf |-> <<>>, next |-> None]

TypeOK ==
    /\ mb \in [Buf -> [use : BOOLEAN, buf : Seq(Cell), next : Buf \union {None}]]
    /\ \A b \in Buf : Len(mb[b].buf) <= BufSize
    /\ mbuse \in Int
    /\ con \in [Con -> [use : BOOLEAN, fd : BOOLEAN, closed : BOOLEAN,
                        ri : Buf \union {None, EMBFULL}, wi : Buf \union {None, EMBFULL}]]
    /\ gs \subseteq Con
    /\ pc \in [at : {"select", "read", "write", "accept", "line", "answer", "undefined"},
               i : 0 .. MaxCon]
    /\ armed \subseteq Con
    /\ sent \in [Con -> Nat]
    /\ \A c \in Con : sent[c] <= Inside[c] + 1
    /\ faults \subseteq Event

(* tcpstruct_init, and the loop about to start its first turn.             *)
Init ==
    /\ mb = [b \in Buf |-> FreeBuf]
    /\ mbuse = 0
    /\ con = [c \in Con |-> [use |-> FALSE, fd |-> FALSE, closed |-> FALSE,
                             ri |-> None, wi |-> None]]
    /\ gs = {}
    /\ pc = [at |-> "select", i |-> 0]
    /\ armed = {}
    /\ sent = [c \in Con |-> 0]
    /\ got = NoLine
    /\ faults = {}

(* Bound: each kind of exceptional event once, and MaxFaults of them.      *)
Occurs(e) == /\ e \notin faults
             /\ Cardinality(faults) < MaxFaults
             /\ faults' = faults \union {e}

(***************************************************************************)
(* Buffers                                                                 *)
(***************************************************************************)
Used == {b \in Buf : mb[b].use}

getFreeMem == (MbSize - mbuse) * BufSize

(* The buffers on the list that starts at top, in order.                   *)
ListFrom(top) ==
    LET at[k \in 1 .. MbSize] ==
            IF k = 1 THEN top
            ELSE LET b == at[k - 1] IN IF b \in Buf THEN mb[b].next ELSE None
    IN  [k \in 1 .. Cardinality({j \in 1 .. MbSize : at[j] \in Buf}) |-> at[k]]

(* What the buffers of list l hold.                                        *)
Contents(l) == FlattenSeq([k \in DOMAIN l |-> mb[l[k]].buf])

(* The free buffers in the order findregBlankMemBuf comes to them.  The    *)
(* code goes round from where it last stopped.  Which numbers the buffers  *)
(* of a list have makes a difference only to a slot that a failed accept   *)
(* left in use: in AcceptFails any number is possible; here one order      *)
(* stands for all.                                                         *)
Free == Buf \ Used
FreeInOrder == SetToSeq(Free)

(* What the k-th buffer of list l holds when n cells have left the list.   *)
Kept(l, n, k) ==
    LET d == mb[l[k]].buf
        rest == n - Len(Contents(SubSeq(l, 1, k - 1)))
    IN  SubSeq(d, 1 + (IF rest > 0 THEN rest ELSE 0), Len(d))

(* n cells leave the list that starts at top.  Every buffer of it that is  *)
(* then empty, except the first, is freed, and each time the first is      *)
(* linked to the one behind.                                               *)
Emptied(l, n) == {k \in 2 .. Len(l) : Kept(l, n, k) = <<>>}

Consumed(top, n) ==
    LET l == ListFrom(top)
        gone == Emptied(l, n)
    IN  [b \in Buf |->
            IF b = top
            THEN [mb[b] EXCEPT !.buf = Kept(l, n, 1),
                               !.next = IF gone = {} THEN @ ELSE mb[l[Max(gone)]].next]
            ELSE IF \E k \in gone : l[k] = b THEN FreeBuf
            ELSE IF b \in Range(l)
            THEN [mb[b] EXCEPT !.buf = Kept(l, n, CHOOSE k \in DOMAIN l : l[k] = b)]
            ELSE mb[b]]

consumeMemBufListUncounted(top, n) ==
    mb' = Consumed(top, n) /\ UNCHANGED mbuse

consumeMemBufList(top, n) ==
    /\ mb' = Consumed(top, n)
    /\ mbuse' = mbuse - Cardinality(Emptied(ListFrom(top), n))

(* Changed forms of a definition, as the one above, are named for what     *)
(* they leave out; no action of Next uses them.                            *)

(* Outside the arrays, or two lists that share buffers: nothing more is    *)
(* said of this execution.                                                 *)
Undefined == /\ pc' = [pc EXCEPT !.at = "undefined"]
             /\ UNCHANGED mem

(* data goes to the last buffer of the list that starts at top and, where  *)
(* that is full, to free buffers strung behind it; it is dropped when the  *)
(* code's count says it would not fit.                                     *)
Slice(d, m, n) == SubSeq(d, m, IF n < Len(d) THEN n ELSE Len(d))

appendMemBufListOverfull(top, data, next) ==
    LET tail == Last(ListFrom(top))
    IN  /\ mb' = [mb EXCEPT ![tail].buf = @ \o data]
        /\ pc' = next
        /\ UNCHANGED mbuse

appendMemBufListUnchecked(top, data, next) ==
    LET tail  == Last(ListFrom(top))
        blank == BufSize - Len(mb[tail].buf)
        new   == FreeInOrder
        needed == IF Len(data) <= blank THEN 0
                  ELSE 1 + (Len(data) - blank - 1) \div BufSize
        piece(j) == Slice(data, blank + (j - 1) * BufSize + 1, blank + j * BufSize)
        following(j) == IF j < needed THEN new[j + 1] ELSE None
    IN  IF needed > Len(new) THEN Undefined
        ELSE /\ mb' = [b \in Buf |->
                  IF b = tail
                  THEN [use |-> mb[b].use, buf |-> mb[b].buf \o Slice(data, 1, blank),
                        next |-> following(0)]
                  ELSE IF \E j \in 1 .. needed : new[j] = b
                  THEN LET j == CHOOSE k \in 1 .. needed : new[k] = b
                       IN  [use |-> TRUE, buf |-> piece(j), next |-> following(j)]
                  ELSE mb[b]]
             /\ mbuse' = mbuse + needed
             /\ pc' = next

(* Every byte but one of the free ones may be taken.                       *)
Fits(data) == Len(data) < getFreeMem

appendMemBufList(top, data, next) ==
    IF Fits(data) THEN appendMemBufListUnchecked(top, data, next)
    ELSE pc' = next /\ UNCHANGED mem

(***************************************************************************)
(* The turn: pc.i is the last connection the phase has come to             *)
(***************************************************************************)
Phase(at) == [at |-> at, i |-> 0]
Passed(c) == pc' = [pc EXCEPT !.i = c]

(* FD_SET for every open connection, before the first select().            *)
Select ==
    /\ pc.at = "select"
    /\ armed' = {c \in Con : con[c].use /\ con[c].fd /\ ~con[c].closed}
    /\ pc' = Phase("read")
    /\ got' = NoLine
    /\ UNCHANGED <<mem, con, gs, sent, faults>>

(* The next n cells the peer of c sends: line follows line, each with a    *)
(* first cell, Inside others, and a newline.                               *)
CellsFrom(c, n) ==
    [j \in 1 .. n |->
        LET k == (sent[c] + j - 1) % (Inside[c] + 2)
        IN  [con |-> c, part |-> IF k = 0 THEN "first"
                                 ELSE IF k = Inside[c] + 1 THEN "newline" ELSE "inside"]]

(* select() names c, there is free memory, and read() and appendReadBuffer *)
(* take what is there.                                                     *)
ReadSome(c) ==
    LET most == IF getFreeMem > TmpSize THEN TmpSize ELSE getFreeMem
    IN  /\ pc.at = "read"
        /\ c > pc.i /\ c \in armed
        /\ getFreeMem > 0
        /\ \E n \in 1 .. most :
              LET d == CellsFrom(c, n)
              IN  /\ appendMemBufList(con[c].ri, d, [pc EXCEPT !.i = c])
                  /\ sent' = [sent EXCEPT ![c] = (@ + n) % (Inside[c] + 2)]
                  /\ IF Fits(d) THEN UNCHANGED faults ELSE Occurs("dropped")
        /\ UNCHANGED <<con, gs, armed, got>>

(* read() finds the peer gone.                                             *)
ReadClosed(c) ==
    /\ pc.at = "read"
    /\ c > pc.i /\ c \in armed
    /\ getFreeMem > 0
    /\ con' = [con EXCEPT ![c].closed = TRUE]
    /\ Passed(c)
    /\ UNCHANGED <<mem, gs, armed, sent, got, faults>>

EndReads ==
    /\ pc.at = "read"
    /\ pc' = Phase("write")
    /\ UNCHANGED <<mem, con, gs, armed, sent, got, faults>>

(* Up to SendSize cells of the write list go out, also to a peer that the  *)
(* read phase has just found gone.                                         *)
WriteSome(c) ==
    LET waiting == Len(Contents(ListFrom(con[c].wi)))
    IN  /\ pc.at = "write"
        /\ c > pc.i /\ c \in armed
        /\ waiting > 0
        /\ consumeMemBufList(con[c].wi, IF waiting > SendSize THEN SendSize ELSE waiting)
        /\ Passed(c)
        /\ UNCHANGED <<con, gs, armed, sent, got, faults>>

WriteFails(c) ==
    /\ pc.at = "write"
    /\ c > pc.i /\ c \in armed
    /\ con' = [con EXCEPT ![c].closed = TRUE]
    /\ Passed(c)
    /\ UNCHANGED <<mem, gs, armed, sent, got, faults>>

(* The sets of descriptors end with the second loop.                       *)
EndWrites ==
    /\ pc.at = "write"
    /\ armed' = {}
    /\ pc' = Phase("accept")
    /\ UNCHANGED <<mem, con, gs, sent, got, faults>>

(* The loop over the lines comes to every slot in turn; one that neither a *)
(* connection nor a server has does nothing.  Then the next turn begins.   *)
Waiting == {c \in Con : c > pc.i /\ (con[c].use \/ c \in gs)}

AtLine(c) == /\ pc.at = "line"
             /\ c \in Waiting
             /\ \A d \in Waiting : c <= d

EndLines ==
    /\ pc.at = "line"
    /\ Waiting = {}
    /\ pc' = Phase("select")
    /\ got' = NoLine
    /\ UNCHANGED <<mem, con, gs, armed, sent, faults>>

(***************************************************************************)
(* The accept of the turn, for a connection that waits                     *)
(***************************************************************************)
(* findregBlankCon takes the first connection not in use.                  *)
IsBlankCon(c) == /\ ~con[c].use
                 /\ \A d \in Con : d < c => con[d].use

(* Nobody waits, or every connection is in use.                            *)
AcceptNothing ==
    /\ pc.at = "accept"
    /\ pc' = Phase("line")
    /\ UNCHANGED <<mem, con, gs, armed, sent, got, faults>>

(* The two first buffers of a connection.                                  *)
WithHeads(free) == [mb EXCEPT ![free[1]] = [FreeBuf EXCEPT !.use = TRUE],
                              ![free[2]] = [FreeBuf EXCEPT !.use = TRUE]]

Accept ==
    LET free == FreeInOrder
    IN  /\ pc.at = "accept"
        /\ Len(free) >= 2
        /\ mb' = WithHeads(free)
        /\ mbuse' = mbuse + 2
        /\ \E c \in Con :
              /\ IsBlankCon(c)
              /\ con' = [con EXCEPT ![c] = [use |-> TRUE, fd |-> TRUE, closed |-> FALSE,
                                           ri |-> free[1], wi |-> free[2]]]
              /\ gs' = gs \union {c}
        /\ pc' = Phase("line")
        /\ UNCHANGED <<armed, sent, got, faults>>

(* findregBlankCon finds one buffer or none and returns EMBFULL: the       *)
(* connection stays in use, its read list starts at the buffer it gave     *)
(* back, and another connection may have that buffer later.                *)
AcceptNoMemory ==
    LET free == FreeInOrder
    IN  /\ pc.at = "accept"
        /\ Len(free) < 2
        /\ \E c \in Con :
              /\ IsBlankCon(c)
              /\ con' = [con EXCEPT ![c].use = TRUE, ![c].fd = FALSE,
                          ![c].ri = IF free = <<>> THEN EMBFULL ELSE free[1],
                          ![c].wi = IF free = <<>> THEN @ ELSE EMBFULL]
        /\ Occurs("memory")
        /\ pc' = Phase("line")
        /\ UNCHANGED <<mb, mbuse, gs, armed, sent, got>>

(* accept() fails: the buffer whose number is that of the connection is    *)
(* freed.  Where it was on a list, lists begin to share buffers.           *)
AcceptFails ==
    LET free == FreeInOrder
    IN  /\ pc.at = "accept"
        /\ Len(free) >= 2
        /\ \E c \in Con :
              /\ IsBlankCon(c)
              /\ con' = [con EXCEPT ![c] = [use |-> TRUE, fd |-> FALSE, closed |-> FALSE,
                                           ri |-> free[1], wi |-> free[2]]]
        /\ \E b \in Buf :
              IF WithHeads(free)[b].use
              THEN Undefined
              ELSE /\ mb' = WithHeads(free)
                   /\ mbuse' = mbuse + 1
                   /\ pc' = Phase("line")
        /\ Occurs("accept")
        /\ UNCHANGED <<gs, armed, sent, got>>

(***************************************************************************)
(* One line of each connection                                             *)
(***************************************************************************)
Text(c) == Contents(ListFrom(con[c].ri))
Newlines(c) == {k \in DOMAIN Text(c) : Text(c)[k].part = "newline"}
LineLen(c) == CHOOSE k \in Newlines(c) : \A j \in Newlines(c) : k <= j

readlineUnfinished(c) ==
    IF ~con[c].use THEN "invalid"
    ELSE IF Newlines(c) # {}
         THEN IF LineLen(c) - 1 > LineMax THEN "toolong" ELSE "line"
    ELSE IF Len(Text(c)) > LineMax THEN "toolong" ELSE "none"

(* What tcpstruct_readline returns.                                        *)
readline(c) ==
    IF ~con[c].use THEN "invalid"
    ELSE IF Newlines(c) # {}
         THEN IF LineLen(c) - 1 > LineMax THEN "toolong" ELSE "line"
    ELSE IF Len(Text(c)) > LineMax THEN "toolong"
    ELSE IF con[c].closed THEN "fin" ELSE "none"

(* A slot that a failed accept left in use is read all the same.  Its read *)
(* list may start nowhere; if gs[] still has the slot, a line or the end of*)
(* the stream leads to its write list, which starts nowhere; and if the    *)
(* buffer it gave back is another's by now, it takes the other's line and  *)
(* cuts the other's list in two.                                           *)
Defined(c) ==
    con[c].use =>
        /\ con[c].ri # EMBFULL
        /\ con[c].wi = EMBFULL =>
              /\ readline(c) # "line"
              /\ c \in gs => readline(c) = "none"

LineUndefined(c) ==
    /\ AtLine(c)
    /\ ~Defined(c)
    /\ Undefined
    /\ UNCHANGED <<con, gs, armed, sent, got, faults>>

(* getLineReadBuffer takes the line off the read list.                     *)
TakeLineShort(c) ==
    /\ consumeMemBufList(con[c].ri, LineLen(c) - 1)
    /\ got' = [con |-> c, line |-> SubSeq(Text(c), 1, LineLen(c))]

TakeLine(c) ==
    /\ consumeMemBufList(con[c].ri, LineLen(c))
    /\ got' = [con |-> c, line |-> SubSeq(Text(c), 1, LineLen(c))]

(* No line, or a connection without a game server, whose line is lost.     *)
LineNone(c) ==
    /\ AtLine(c) /\ Defined(c)
    /\ IF c \in gs THEN readline(c) = "none" /\ UNCHANGED mem /\ got' = NoLine
       ELSE IF readline(c) = "line" THEN TakeLine(c)
       ELSE UNCHANGED mem /\ got' = NoLine
    /\ Passed(c)
    /\ UNCHANGED <<con, gs, armed, sent, faults>>

LineTaken(c) == /\ AtLine(c) /\ Defined(c)
                /\ c \in gs
                /\ readline(c) = "line"
                /\ TakeLine(c)

(* A request is served.                                                    *)
Serve(c) ==
    /\ LineTaken(c)
    /\ pc' = [at |-> "answer", i |-> c]
    /\ UNCHANGED <<con, gs, armed, sent, faults>>

(* The answer, if there is one, goes to the write list.                    *)
Reply == [con |-> pc.i, part |-> "newline"]

Answer ==
    /\ pc.at = "answer"
    /\ appendMemBufList(con[pc.i].wi, <<Reply>>, [pc EXCEPT !.at = "line"])
    /\ got' = NoLine
    /\ UNCHANGED <<con, gs, armed, sent, faults>>

NoAnswer ==
    /\ pc.at = "answer"
    /\ pc' = [pc EXCEPT !.at = "line"]
    /\ got' = NoLine
    /\ UNCHANGED <<mem, con, gs, armed, sent, faults>>

(* tcpstruct_close; nothing happens to a connection that is not in use.    *)
tcpstruct_close(c) ==
    IF con[c].use
    THEN LET lists == Range(ListFrom(con[c].ri)) \union Range(ListFrom(con[c].wi))
         IN  /\ mb' = [b \in Buf |-> IF b \in lists THEN FreeBuf ELSE mb[b]]
             /\ mbuse' = mbuse - Len(ListFrom(con[c].ri)) - Len(ListFrom(con[c].wi))
             /\ con' = [con EXCEPT ![c].use = FALSE, ![c].fd = FALSE,
                                   ![c].ri = None, ![c].wi = None]
             /\ sent' = [sent EXCEPT ![c] = 0]
    ELSE UNCHANGED <<mem, con, sent>>

logout_game_server(c) ==
    /\ gs' = gs \ {c}
    /\ tcpstruct_close(c)

(* The server says goodbye: its line is taken and its connection closed.   *)
Logout(c) ==
    /\ AtLine(c) /\ Defined(c)
    /\ c \in gs /\ readline(c) = "line"
    /\ logout_game_server(c)
    /\ Passed(c)
    /\ got' = [con |-> c, line |-> SubSeq(Text(c), 1, LineLen(c))]
    /\ UNCHANGED <<armed, faults>>

(* A line that cannot be dispatched: the connection is closed, gs[] stays. *)
DispatchFails(c) ==
    /\ AtLine(c) /\ Defined(c)
    /\ c \in gs /\ readline(c) = "line"
    /\ tcpstruct_close(c)
    /\ Passed(c)
    /\ got' = [con |-> c, line |-> SubSeq(Text(c), 1, LineLen(c))]
    /\ UNCHANGED <<gs, armed, faults>>

(* The line is too long, the peer is gone, or the connection was closed    *)
(* under a server still in gs[].                                           *)
Close(c) ==
    /\ AtLine(c) /\ Defined(c)
    /\ c \in gs /\ readline(c) \in {"toolong", "invalid", "fin"}
    /\ logout_game_server(c)
    /\ Passed(c)
    /\ got' = NoLine
    /\ UNCHANGED <<armed, faults>>

Line(c) ==
    \/ LineUndefined(c) \/ LineNone(c)
    \/ Serve(c) \/ Logout(c) \/ DispatchFails(c) \/ Close(c)

Next ==
    \/ Select
    \/ \E c \in Con : ReadSome(c) \/ ReadClosed(c)
    \/ EndReads
    \/ \E c \in Con : WriteSome(c) \/ WriteFails(c)
    \/ EndWrites
    \/ AcceptNothing \/ Accept \/ AcceptNoMemory \/ AcceptFails
    \/ \E c \in Con : Line(c)
    \/ Answer \/ NoAnswer \/ EndLines

(* The loop turns, since none of its calls waits: it comes to select() and *)
(* to accept() for ever.  Next being enabled in every defined      *)
(* state, this is WF_vars(Next), said without ENABLED.                     *)
Turning == \A at \in {"select", "accept"} : []<>(pc.at \in {at, "undefined"})

Spec == Init /\ [][Next]_vars /\ Turning

(***************************************************************************)
(* Properties                                                              *)
(***************************************************************************)
Live == {c \in Con : con[c].use /\ con[c].fd}
Heads == {con[c].ri : c \in Live} \union {con[c].wi : c \in Live}
Places == UNION {{h} \X DOMAIN ListFrom(h) : h \in Heads}

(* Unless accept() failed, every buffer in use has one place on one list   *)
(* of an open connection, free ones have none, and mbuse, on which every   *)
(* bound check rests, counts them.                                         *)
PoolExact ==
    "accept" \notin faults =>
        /\ mbuse = Cardinality(Used)
        /\ Cardinality(Heads) = 2 * Cardinality(Live)
        /\ Cardinality(Places) = Cardinality(Used)
        /\ {ListFrom(p[1])[p[2]] : p \in Places} = Used

(* The arrays are never left and no lists run together: an append that     *)
(* passes the bound check finds its buffers, unless accept() failed or a   *)
(* connection got no buffer.                                               *)
NeverUndefined ==
    pc.at = "undefined" => faults \intersect {"accept", "memory"} # {}

(* A line taken from a connection is one line, whole, that its peer sent,  *)
(* unless something read was dropped (or the pool is spoilt).              *)
LineWhole ==
    got # NoLine /\ faults \intersect {"accept", "memory", "dropped"} = {} =>
        \A k \in DOMAIN got.line :
            /\ got.line[k].con = got.con
            /\ (got.line[k].part = "first") <=> (k = 1)
            /\ (got.line[k].part = "newline") => (k = Len(got.line))

(* A connection whose peer is gone is given up, whatever it had sent,      *)
(* unless the slot was one that a failed accept left in use.               *)
ClosedIsFreed ==
    \A c \in Con :
        con[c].fd /\ con[c].closed ~> ~con[c].use \/ pc.at = "undefined"
=============================================================================
