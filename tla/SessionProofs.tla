--------------------------- MODULE SessionProofs ---------------------------
(***************************************************************************)
(* Proofs about Session, for every number of accounts, servers, slots and  *)
(* connections: the values, what SAAC's slots and the connections are to   *)
(* each other, and that an answer finds its connection waiting for it.     *)
(***************************************************************************)
EXTENDS Session, TLAPS

(***************************************************************************)
(* The two directions of the streams, and the steps they make.             *)
(***************************************************************************)
Queues == [Ti -> Seq(Msg)]

(* Of queue r at slot t, place i is a place of q: the next one where slot  *)
(* ts has been read.                                                       *)
Kept(q, r, ts, t, i) ==
    LET j == IF t = ts THEN i + 1 ELSE i
    IN  j \in DOMAIN q[t] /\ r[t][i] = q[t][j]

Notice == {"kick", "ucheck"}

(* r is q after one line of slot ts has been read and m has been written   *)
(* to slot t0, NoTi for none; some lines may be lost, and notices written. *)
Moved(q, r, ts, t0, m) ==
    \A t \in Ti : \A i \in DOMAIN r[t] :
        \/ Kept(q, r, ts, t, i)
        \/ t = t0 /\ i = Len(q[t0]) + 1 /\ r[t][i] = m
        \/ r[t][i].kind \in Notice

(***************************************************************************)
(* The invariant, in three parts: what the values are, what the slots and  *)
(* the connections are to each other, and who waits for which answer.      *)
(***************************************************************************)
AsksKind == Pooled \union {"unlock"}

(* What lines up to SAAC, lines down to a server and tasks carry.          *)
UpLineOK(m) ==
    /\ m.kind \in AsksKind => m.conn \in Conn /\ m.acct \in Account
    /\ m.kind = "load" => m.rec.char \in Char
    /\ m.kind = "save" => /\ m.acct \in Account /\ m.rec.char \in Char
                          /\ m.slot = NewSlot => ~m.flag /\ m.rec.ver = 0
    /\ m.kind = "login" => m.srv \in Server
    /\ m.kind = "delete" => "delete" \in ClientOps
    /\ m.kind = "save" /\ m.slot = NewSlot => "create" \in ClientOps
    /\ m.kind \in GMKind => "gm" \in ClientOps

DownLineOK(m) ==
    /\ m.kind \in AsksKind => m.conn \in Conn
    /\ m.kind = "load" /\ m.flag => m.rec.char \in Char /\ m.slot \in Slot /\ m.acct \in Account

TaskOK(t) == /\ t.kind = "load" => t.char \in Char
             /\ t.kind = "delete" => "delete" \in ClientOps

LinesOK ==
    /\ \A ti \in Ti : \A i \in DOMAIN up[ti] : UpLineOK(up[ti][i])
    /\ \A ti \in Ti : \A i \in DOMAIN down[ti] : DownLineOK(down[ti][i])
    /\ \A t \in tasks : TaskOK(t)

(* A slot has the name of the server on it, or of the server that has left *)
(* it, and no two slots have one name; a login is the first line.          *)
SlotsOK ==
    /\ \A ti \in Ti : ~gs[ti].use => gs[ti].name = NoServer /\ up[ti] = <<>> /\ ~eof[ti]
    /\ \A ti \in Ti : \A i \in DOMAIN up[ti] : up[ti][i].kind = "login" =>
          i = 1 /\ gs[ti].name = NoServer /\ (eof[ti] \/ acfd[up[ti][i].srv] = ti)
    /\ \A s \in Server : acfd[s] # NoTi =>
          gs[acfd[s]].use /\ ~eof[acfd[s]] /\ gs[acfd[s]].name \in {s, NoServer}
    /\ \A s, z \in Server : acfd[s] # NoTi /\ acfd[s] = acfd[z] => s = z
    /\ \A t, u \in Ti : gs[t].name # NoServer /\ gs[t].name = gs[u].name => t = u

ConnOK(c) ==
    /\ Live(c) => /\ conn[c].srv \in Server /\ acfd[conn[c].srv] \in Ti
                  /\ ~EarlyClients => gs[acfd[conn[c].srv]].name = conn[c].srv
    /\ conn[c].state \in Waiting \union {"LOGIN"} => conn[c].acct \in Account
    /\ conn[c].rec.char # NoChar <=> conn[c].state = "LOGIN"
    /\ conn[c].state = "LOGIN" => conn[c].slot \in Slot

ConnsOK == \A c \in Conn : ConnOK(c)

Base == TypeOK /\ LinesOK /\ SlotsOK /\ ConnsOK

(* A request, task or answer m of connection c at slot ti.                 *)
AsksFor(m, c) == m.kind \in AsksKind /\ m.conn = c

Fits(m, c, ti) ==
    /\ conn[c].state # "unused"
    /\ Live(c) => /\ conn[c].state \in Expects(m.kind)
                  /\ conn[c].acct = m.acct
                  /\ acfd[conn[c].srv] = ti

AllFit(c) ==
    /\ \A ti \in Ti : \A i \in DOMAIN up[ti] : AsksFor(up[ti][i], c) => Fits(up[ti][i], c, ti)
    /\ \A ti \in Ti : \A i \in DOMAIN down[ti] : AsksFor(down[ti][i], c) => Fits(down[ti][i], c, ti)
    /\ \A t \in tasks : t.conn = c => Fits(t, c, t.ti)

(* Of a live connection there is one request, task or answer at most.      *)
Alone(c) == Live(c) =>
    LET h == acfd[conn[c].srv]
    IN  /\ \A i, j \in DOMAIN up[h] : AsksFor(up[h][i], c) /\ AsksFor(up[h][j], c) => i = j
        /\ \A i, j \in DOMAIN down[h] : AsksFor(down[h][i], c) /\ AsksFor(down[h][j], c) => i = j
        /\ \A t, u \in tasks : t.conn = c /\ u.conn = c => t = u
        /\ \A i \in DOMAIN up[h], j \in DOMAIN down[h] : ~(AsksFor(up[h][i], c) /\ AsksFor(down[h][j], c))
        /\ \A i \in DOMAIN up[h], t \in tasks : ~(AsksFor(up[h][i], c) /\ t.conn = c)
        /\ \A i \in DOMAIN down[h], t \in tasks : ~(AsksFor(down[h][i], c) /\ t.conn = c)

AskOK(c) == AllFit(c) /\ Alone(c)
Asking   == \A c \in Conn : AskOK(c)

SessionInv == Base /\ Asking

-----------------------------------------------------------------------------
LEMMA SeqFacts ==
    ASSUME NEW S, NEW s \in Seq(S)
    PROVE  /\ Len(s) \in Nat /\ DOMAIN s = 1 .. Len(s) /\ \A i \in DOMAIN s : s[i] \in S
           /\ s # <<>> => 1 \in DOMAIN s /\ Head(s) = s[1]
  OBVIOUS

LEMMA TailFacts ==
    ASSUME NEW S, NEW s \in Seq(S), s # <<>>
    PROVE  /\ Tail(s) \in Seq(S)
           /\ \A i \in DOMAIN Tail(s) : i + 1 \in DOMAIN s /\ Tail(s)[i] = s[i + 1]
  OBVIOUS

LEMMA AppendFacts ==
    ASSUME NEW S, NEW s \in Seq(S), NEW m \in S
    PROVE  /\ Append(s, m) \in Seq(S)
           /\ \A i \in DOMAIN Append(s, m) :
                 \/ i \in DOMAIN s /\ Append(s, m)[i] = s[i]
                 \/ i = Len(s) + 1 /\ Append(s, m)[i] = m
  OBVIOUS

LEMMA PrefixFacts ==
    ASSUME NEW S, NEW s \in Seq(S), NEW k \in 0 .. Len(s)
    PROVE  /\ SubSeq(s, 1, k) \in Seq(S)
           /\ \A i \in DOMAIN SubSeq(s, 1, k) : i \in DOMAIN s /\ SubSeq(s, 1, k)[i] = s[i]
  OBVIOUS

LEMMA ConcatFacts ==
    ASSUME NEW S, NEW s \in Seq(S), NEW z \in Seq(S)
    PROVE  /\ s \o z \in Seq(S) /\ DOMAIN (s \o z) \subseteq Int
           /\ \A i \in DOMAIN (s \o z) :
                 \/ i \in DOMAIN s /\ (s \o z)[i] = s[i]
                 \/ i - Len(s) \in DOMAIN z /\ (s \o z)[i] = z[i - Len(s)]
  OBVIOUS

-----------------------------------------------------------------------------
(* The ways a queue moves.                                                 *)
LEMMA MovedSame == ASSUME NEW q, NEW m PROVE Moved(q, q, NoTi, NoTi, m)
  BY SessionAssumption DEF SessionAssumption, Moved, Kept

LEMMA MovedTail ==
    ASSUME NEW q \in Queues, NEW ti \in Ti, q[ti] # <<>>, NEW m
    PROVE  LET r == [q EXCEPT ![ti] = Tail(@)] IN r \in Queues /\ Moved(q, r, ti, NoTi, m)
  <1> DEFINE r == [q EXCEPT ![ti] = Tail(@)]
  <1>1. q[ti] \in Seq(Msg)
    BY DEF Queues
  <1>2. /\ Tail(q[ti]) \in Seq(Msg)
        /\ \A i \in DOMAIN Tail(q[ti]) : i + 1 \in DOMAIN q[ti] /\ Tail(q[ti])[i] = q[ti][i + 1]
    BY <1>1, TailFacts
  <1>3. r \in Queues
    BY <1>2 DEF Queues
  <1>4. \A t \in Ti : r[t] = IF t = ti THEN Tail(q[ti]) ELSE q[t]
    BY DEF Queues
  <1> HIDE DEF r
  <1>5. Moved(q, r, ti, NoTi, m)
    BY <1>2, <1>4 DEF Moved, Kept
  <1> QED
    BY <1>3, <1>5 DEF r

LEMMA MovedAppend ==
    ASSUME NEW q \in Queues, NEW ti \in Ti, NEW m \in Msg
    PROVE  LET r == [q EXCEPT ![ti] = Append(@, m)] IN r \in Queues /\ Moved(q, r, NoTi, ti, m)
  <1> DEFINE r == [q EXCEPT ![ti] = Append(@, m)]
  <1>1. q[ti] \in Seq(Msg) /\ NoTi \notin Ti
    BY SessionAssumption DEF Queues, SessionAssumption
  <1>2. /\ Append(q[ti], m) \in Seq(Msg)
        /\ \A i \in DOMAIN Append(q[ti], m) :
                 \/ i \in DOMAIN q[ti] /\ Append(q[ti], m)[i] = q[ti][i]
                 \/ i = Len(q[ti]) + 1 /\ Append(q[ti], m)[i] = m
    BY <1>1, AppendFacts
  <1>3. r \in Queues
    BY <1>2 DEF Queues
  <1>4. \A t \in Ti : r[t] = IF t = ti THEN Append(q[ti], m) ELSE q[t]
    BY DEF Queues
  <1> HIDE DEF r
  <1>5. Moved(q, r, NoTi, ti, m)
    BY <1>1, <1>2, <1>4 DEF Moved, Kept
  <1> QED
    BY <1>3, <1>5 DEF r

LEMMA MovedPrefix ==
    ASSUME NEW q \in Queues, NEW ti \in Ti, NEW k \in 0 .. Len(q[ti]), NEW m
    PROVE  LET r == [q EXCEPT ![ti] = SubSeq(@, 1, k)]
           IN  r \in Queues /\ Moved(q, r, NoTi, NoTi, m)
  <1> DEFINE r == [q EXCEPT ![ti] = SubSeq(@, 1, k)]
  <1>1. q[ti] \in Seq(Msg) /\ NoTi \notin Ti
    BY SessionAssumption DEF Queues, SessionAssumption
  <1>2. /\ SubSeq(q[ti], 1, k) \in Seq(Msg)
        /\ \A i \in DOMAIN SubSeq(q[ti], 1, k) :
              i \in DOMAIN q[ti] /\ SubSeq(q[ti], 1, k)[i] = q[ti][i]
    BY <1>1, PrefixFacts
  <1>3. r \in Queues
    BY <1>2 DEF Queues
  <1>4. \A t \in Ti : r[t] = IF t = ti THEN SubSeq(q[ti], 1, k) ELSE q[t]
    BY DEF Queues
  <1> HIDE DEF r
  <1>5. Moved(q, r, NoTi, NoTi, m)
    BY <1>1, <1>2, <1>4 DEF Moved, Kept
  <1> QED
    BY <1>3, <1>5 DEF r

LEMMA MovedEmpty ==
    ASSUME NEW q \in Queues, NEW ti \in Ti, NEW m
    PROVE  LET r == [q EXCEPT ![ti] = <<>>] IN r \in Queues /\ Moved(q, r, NoTi, NoTi, m)
  <1> DEFINE r == [q EXCEPT ![ti] = <<>>]
  <1>1. r \in Queues
    BY DEF Queues
  <1>2. \A t \in Ti : r[t] = IF t = ti THEN <<>> ELSE q[t]
    BY DEF Queues
  <1> HIDE DEF r
  <1>3. Moved(q, r, NoTi, NoTi, m)
    BY <1>2, SessionAssumption DEF Moved, Kept, SessionAssumption
  <1> QED
    BY <1>1, <1>3 DEF r

(* Lines written by Post: m to slot t0, first, and notices.                *)
LEMMA MovedPost ==
    ASSUME down \in Queues, NEW t0, NEW m, NEW lines \in Queues, Post(lines),
           \A t \in Ti : \A i \in DOMAIN lines[t] :
              \/ t = t0 /\ i = 1 /\ lines[t][i] = m
              \/ lines[t][i].kind \in Notice
    PROVE  down' \in Queues /\ Moved(down, down', NoTi, t0, m)
  <1>1. ASSUME NEW t \in Ti
        PROVE  /\ down[t] \in Seq(Msg) /\ lines[t] \in Seq(Msg) /\ down[t] \o lines[t] \in Seq(Msg)
               /\ Len(down[t]) \in Nat /\ DOMAIN lines[t] = 1 .. Len(lines[t])
               /\ \A i \in DOMAIN (down[t] \o lines[t]) :
                     \/ i \in DOMAIN down[t] /\ (down[t] \o lines[t])[i] = down[t][i]
                     \/ /\ i - Len(down[t]) \in DOMAIN lines[t]
                        /\ (down[t] \o lines[t])[i] = lines[t][i - Len(down[t])]
               /\ DOMAIN (down[t] \o lines[t]) \subseteq Int
    <2>1. down[t] \in Seq(Msg) /\ lines[t] \in Seq(Msg)
      BY DEF Queues
    <2>2. Len(down[t]) \in Nat /\ DOMAIN lines[t] = 1 .. Len(lines[t])
      BY <2>1, SeqFacts
    <2> QED
      BY <2>1, <2>2, ConcatFacts
  <1>2. down' \in Queues
    BY <1>1 DEF Post, Queues
  <1>3. ASSUME NEW t \in Ti, NEW i \in DOMAIN down'[t]
        PROVE  \/ i \in DOMAIN down[t] /\ down'[t][i] = down[t][i]
               \/ t = t0 /\ i = Len(down[t0]) + 1 /\ down'[t][i] = m
               \/ down'[t][i].kind \in Notice
    <2>1. CASE down'[t] = down[t]
      <3>1. i \in DOMAIN down[t] /\ down'[t][i] = down[t][i]
        BY <2>1, Zenon
      <3> QED
        BY <3>1
    <2>2. CASE down'[t] = down[t] \o lines[t]
      <3>1. CASE i \in DOMAIN down[t] /\ down'[t][i] = down[t][i]
        BY <3>1
      <3>2. CASE i - Len(down[t]) \in DOMAIN lines[t] /\ down'[t][i] = lines[t][i - Len(down[t])]
        <4>1. i \in Int /\ Len(down[t]) \in Int
          BY <1>1, <2>2
        <4> QED
          BY <3>2, <4>1
      <3> QED
        BY <1>1, <2>2, <3>1, <3>2
    <2> QED
      BY <2>1, <2>2 DEF Post
  <1>4. NoTi \notin Ti
    BY SessionAssumption DEF SessionAssumption
  <1> QED
    BY <1>2, <1>3, <1>4 DEF Moved, Kept

-----------------------------------------------------------------------------
(* Values.                                                                 *)
LEMMA BlankFacts ==
    /\ Blank \in Record /\ Blank.char = NoChar
    /\ NewSlot \in SaveIndex /\ NewSlot \notin Slot
    /\ \A ch \in Char : Fresh(ch) \in Record /\ Fresh(ch).char = ch /\ Fresh(ch).ver = 0
  BY SessionAssumption DEF SessionAssumption, Blank, Fresh, Record, NewSlot, SaveIndex

LEMMA LineFacts ==
    ASSUME NEW kind, NEW c, NEW a, NEW rec, NEW k, NEW flag
    PROVE  LET m == Line(kind, c, a, rec, k, flag)
           IN  /\ m.kind = kind /\ m.conn = c /\ m.acct = a /\ m.rec = rec
               /\ m.slot = k /\ m.flag = flag
  BY DEF Line

LEMMA LineType ==
    ASSUME NEW kind \in Kind, NEW c \in Conn \union {NoConn}, NEW a \in Account \union {NoAccount},
           NEW rec \in Record, NEW k \in SaveIndex, NEW flag \in BOOLEAN
    PROVE  Line(kind, c, a, rec, k, flag) \in Msg
  BY DEF Line, Msg

LEMMA MsgFacts ==
    ASSUME NEW m \in Msg
    PROVE  /\ m.kind \in Kind /\ m.conn \in Conn \union {NoConn}
           /\ m.acct \in Account \union {NoAccount} /\ m.srv \in Server \union {NoServer}
           /\ m.rec \in Record /\ m.slot \in SaveIndex /\ m.flag \in BOOLEAN
  BY DEF Msg

LEMMA KindFacts ==
    /\ AsksKind = {"list", "load", "delete", "unlock"}
    /\ Pooled \subseteq Kind /\ Notice \subseteq Kind /\ GMKind \subseteq Kind
    /\ {"login", "list", "load", "save", "delete", "unlock", "ucheck", "kick"} \subseteq Kind
    /\ Notice \intersect AsksKind = {} /\ GMKind \intersect AsksKind = {}
    /\ "save" \notin AsksKind /\ "login" \notin AsksKind
  BY DEF AsksKind, Pooled, Kind, Notice, GMKind

LEMMA QueueFacts ==
    ASSUME TypeOK, NEW t \in Ti
    PROVE  /\ up[t] \in Seq(Msg) /\ down[t] \in Seq(Msg)
           /\ DOMAIN up[t] = 1 .. Len(up[t]) /\ DOMAIN down[t] = 1 .. Len(down[t])
           /\ Len(up[t]) \in Nat /\ Len(down[t]) \in Nat
           /\ \A i \in DOMAIN up[t] : up[t][i] \in Msg
           /\ \A i \in DOMAIN down[t] : down[t][i] \in Msg
           /\ up[t] # <<>> => 1 \in DOMAIN up[t] /\ Head(up[t]) = up[t][1]
           /\ down[t] # <<>> => 1 \in DOMAIN down[t] /\ Head(down[t]) = down[t][1]
  <1>1. up[t] \in Seq(Msg) /\ down[t] \in Seq(Msg)
    BY DEF TypeOK
  <1> QED
    BY <1>1, SeqFacts

-----------------------------------------------------------------------------
(* What the moves of the queues keep of the parts of Base.                 *)
LEMMA UpLinesKeep ==
    ASSUME LinesOK, NEW ts, NEW t0, NEW m, Moved(up, up', ts, t0, m), t0 \in Ti => UpLineOK(m)
    PROVE  \A ti \in Ti : \A i \in DOMAIN up'[ti] : UpLineOK(up'[ti][i])
  <1> SUFFICES ASSUME NEW ti \in Ti, NEW i \in DOMAIN up'[ti]
               PROVE  UpLineOK(up'[ti][i])
    OBVIOUS
  <1>1. CASE Kept(up, up', ts, ti, i)
    BY <1>1 DEF Kept, LinesOK
  <1>2. CASE ti = t0 /\ up'[ti][i] = m
    BY <1>2
  <1>3. CASE up'[ti][i].kind \in Notice
    BY <1>3, KindFacts DEF UpLineOK, Notice, GMKind
  <1> QED
    BY <1>1, <1>2, <1>3 DEF Moved

LEMMA DownLinesKeep ==
    ASSUME LinesOK, NEW ts, NEW t0, NEW m, Moved(down, down', ts, t0, m), t0 \in Ti => DownLineOK(m)
    PROVE  \A ti \in Ti : \A i \in DOMAIN down'[ti] : DownLineOK(down'[ti][i])
  <1> SUFFICES ASSUME NEW ti \in Ti, NEW i \in DOMAIN down'[ti]
               PROVE  DownLineOK(down'[ti][i])
    OBVIOUS
  <1>1. CASE Kept(down, down', ts, ti, i)
    BY <1>1 DEF Kept, LinesOK
  <1>2. CASE ti = t0 /\ down'[ti][i] = m
    BY <1>2
  <1>3. CASE down'[ti][i].kind \in Notice
    BY <1>3, KindFacts DEF DownLineOK, Notice
  <1> QED
    BY <1>1, <1>2, <1>3 DEF Moved

(* Nobody logs in or goes.                                                 *)
LEMMA SlotsKeep ==
    ASSUME TypeOK, SlotsOK, UNCHANGED <<acfd, eof, gs>>, up' \in Queues,
           NEW ts, NEW t0, NEW m, Moved(up, up', ts, t0, m), t0 \in Ti => m.kind # "login",
           \A t \in Ti : ~gs[t].use => up'[t] = up[t]
    PROVE  SlotsOK'
  <1>1. ASSUME NEW ti \in Ti, NEW i \in DOMAIN up'[ti], up'[ti][i].kind = "login"
        PROVE  i = 1 /\ gs[ti].name = NoServer /\ (eof[ti] \/ acfd[up'[ti][i].srv] = ti)
    <2>1. up'[ti] \in Seq(Msg)
      BY DEF Queues
    <2>2. i \in Nat \ {0}
      BY <2>1, SeqFacts
    <2>3. Kept(up, up', ts, ti, i)
      BY <1>1 DEF Moved, Notice
    <2>4. PICK j \in DOMAIN up[ti] : up'[ti][i] = up[ti][j] /\ j = IF ti = ts THEN i + 1 ELSE i
      BY <2>3 DEF Kept
    <2>5. j = 1 /\ gs[ti].name = NoServer /\ (eof[ti] \/ acfd[up[ti][j].srv] = ti)
      BY <1>1, <2>4 DEF SlotsOK
    <2> QED
      BY <2>2, <2>4, <2>5
  <1>2. \A ti \in Ti : ~gs[ti].use => gs[ti].name = NoServer /\ up'[ti] = <<>> /\ ~eof[ti]
    BY DEF SlotsOK
  <1> QED
    BY <1>1, <1>2 DEF SlotsOK

LEMMA ConnKeep ==
    ASSUME TypeOK, UNCHANGED <<acfd, gs>>, NEW c \in Conn, ConnOK(c),
           \/ conn'[c] = conn[c]
           \/ conn'[c] = [conn[c] EXCEPT !.close = TRUE]
    PROVE  ConnOK(c)'
  <1>1. conn[c] \in ConnRecord
    BY DEF TypeOK
  <1>2. /\ conn'[c].state = conn[c].state /\ conn'[c].srv = conn[c].srv
        /\ conn'[c].acct = conn[c].acct /\ conn'[c].rec = conn[c].rec /\ conn'[c].slot = conn[c].slot
    BY <1>1 DEF ConnRecord
  <1> QED
    BY <1>2 DEF ConnOK, Live

LEMMA ConnEnded ==
    ASSUME NEW c \in Conn, conn'[c] = Idle("ended", NoServer)
    PROVE  ConnOK(c)'
  BY BlankFacts DEF ConnOK, Live, Dead, Waiting, Idle

(* A connection begins to wait, or stops, without coming into play.        *)
LEMMA ConnBecomes ==
    ASSUME TypeOK, UNCHANGED <<acfd, gs>>, NEW c \in Conn, ConnOK(c), Live(c), conn[c].state # "LOGIN",
           NEW st \in {"NOTLOGIN"} \union Waiting, conn'[c] = [conn[c] EXCEPT !.state = st],
           st \in Waiting => conn[c].acct \in Account
    PROVE  ConnOK(c)'
  <1>1. conn[c] \in ConnRecord
    BY DEF TypeOK
  <1>2. st # "LOGIN" /\ (st = "NOTLOGIN" => st \notin Waiting \union {"LOGIN"})
    BY DEF Waiting
  <1>3. /\ conn'[c].state = st /\ conn'[c].srv = conn[c].srv /\ conn'[c].acct = conn[c].acct
        /\ conn'[c].rec = conn[c].rec /\ conn'[c].slot = conn[c].slot
    BY <1>1 DEF ConnRecord
  <1> QED
    BY <1>2, <1>3 DEF ConnOK, Live, Dead, Waiting

-----------------------------------------------------------------------------
(* What the moves keep of Asking.                                          *)
FitsNext(m, c, ti) ==
    /\ conn'[c].state # "unused"
    /\ conn'[c].state \notin Dead => /\ conn'[c].state \in Expects(m.kind)
                                     /\ conn'[c].acct = m.acct
                                     /\ acfd'[conn'[c].srv] = ti

(* The requests and answers of c are at the places U, D and in T.          *)
OnlyAt(c, U, D, T) ==
    /\ \A ti \in Ti : \A i \in DOMAIN up[ti] : AsksFor(up[ti][i], c) => <<ti, i>> \in U
    /\ \A ti \in Ti : \A i \in DOMAIN down[ti] : AsksFor(down[ti][i], c) => <<ti, i>> \in D
    /\ \A t \in tasks : t.conn = c => t \in T

LEMMA NobodyAsks ==
    ASSUME NEW c \in Conn, AskOK(c), TypeOK,
           conn[c].state \in {"unused", "NOTLOGIN", "LOGIN", "WHILECREATE"}
    PROVE  OnlyAt(c, {}, {}, {})
  <1>1. \A kind : conn[c].state \notin Dead /\ kind \in AsksKind => conn[c].state \notin Expects(kind)
    BY KindFacts DEF Expects, Dead
  <1>2. conn[c].state \in Dead => conn[c].state = "unused"
    BY DEF Dead
  <1>3. \A t \in tasks : t.kind \in AsksKind
    BY KindFacts DEF TypeOK, Task
  <1>4. \A kind \in AsksKind : conn[c].state # "unused" =>
            Live(c) /\ conn[c].state \notin Expects(kind)
    BY <1>1, <1>2 DEF Live
  <1>5. \A m, ti : m.kind \in AsksKind => ~Fits(m, c, ti)
    BY <1>4 DEF Fits
  <1> QED
    BY <1>3, <1>5 DEF AskOK, AllFit, OnlyAt, AsksFor

LEMMA OnlyUp ==
    ASSUME NEW c \in Conn, AskOK(c), Live(c), NEW ti \in Ti, NEW i \in DOMAIN up[ti],
           AsksFor(up[ti][i], c)
    PROVE  OnlyAt(c, {<<ti, i>>}, {}, {}) /\ Fits(up[ti][i], c, ti)
  BY DEF AskOK, AllFit, Alone, Fits, OnlyAt

LEMMA OnlyDown ==
    ASSUME NEW c \in Conn, AskOK(c), Live(c), NEW ti \in Ti, NEW i \in DOMAIN down[ti],
           AsksFor(down[ti][i], c)
    PROVE  OnlyAt(c, {}, {<<ti, i>>}, {}) /\ Fits(down[ti][i], c, ti)
  BY DEF AskOK, AllFit, Alone, Fits, OnlyAt

LEMMA OnlyTask ==
    ASSUME NEW c \in Conn, AskOK(c), Live(c), TypeOK, NEW t \in tasks, t.conn = c
    PROVE  OnlyAt(c, {}, {}, {t}) /\ Fits(t, c, t.ti)
  BY DEF AskOK, AllFit, Alone, Fits, OnlyAt

LEMMA EndedAsks == ASSUME NEW c \in Conn, conn'[c].state = "ended" PROVE AskOK(c)'
  BY DEF AskOK, AllFit, Alone, Fits, Live, Dead

(* A connection that nothing happens to.                                   *)
LEMMA AskKeep ==
    ASSUME NEW c \in Conn, AskOK(c), TypeOK, up' \in Queues, down' \in Queues,
           NEW ts, NEW t0, NEW m, Moved(up, up', ts, t0, m), t0 \in Ti => ~AsksFor(m, c),
           NEW us, NEW u0, NEW n, Moved(down, down', us, u0, n), u0 \in Ti => ~AsksFor(n, c),
           \A t \in tasks' : t.conn = c => t \in tasks,
           conn'[c].state = conn[c].state, conn'[c].srv = conn[c].srv, conn'[c].acct = conn[c].acct,
           Live(c) => acfd'[conn[c].srv] = acfd[conn[c].srv] /\ acfd[conn[c].srv] \in Ti
    PROVE  AskOK(c)'
  <1>1. ASSUME NEW t \in Ti, NEW i \in DOMAIN up'[t], AsksFor(up'[t][i], c)
        PROVE  Kept(up, up', ts, t, i)
    BY <1>1, KindFacts DEF Moved, AsksFor
  <1>2. ASSUME NEW t \in Ti, NEW i \in DOMAIN down'[t], AsksFor(down'[t][i], c)
        PROVE  Kept(down, down', us, t, i)
    BY <1>2, KindFacts DEF Moved, AsksFor
  <1>3. AllFit(c)'
    BY <1>1, <1>2 DEF AskOK, AllFit, Fits, Live, Kept
  <1>4. ASSUME Live(c)'
        PROVE  Alone(c)'
    <2> DEFINE h == acfd[conn[c].srv]
    <2>1. h \in Ti /\ acfd'[conn'[c].srv] = h /\ Live(c)
      BY <1>4 DEF Live
    <2>2. up'[h] \in Seq(Msg) /\ down'[h] \in Seq(Msg)
      BY <2>1 DEF Queues
    <2>3. DOMAIN up'[h] \subseteq Nat /\ DOMAIN down'[h] \subseteq Nat
      BY <2>2, SeqFacts
    <2> DEFINE A(i) == AsksFor(up'[h][i], c)
               B(i) == AsksFor(down'[h][i], c)
               j(i) == IF h = ts THEN i + 1 ELSE i
               k(i) == IF h = us THEN i + 1 ELSE i
    <2>4. \A i \in DOMAIN up'[h] : A(i) => j(i) \in DOMAIN up[h] /\ AsksFor(up[h][j(i)], c)
      BY <1>1, <2>1 DEF Kept
    <2>5. \A i \in DOMAIN down'[h] : B(i) => k(i) \in DOMAIN down[h] /\ AsksFor(down[h][k(i)], c)
      BY <1>2, <2>1 DEF Kept
    <2>6. /\ \A i, l \in DOMAIN up[h] : AsksFor(up[h][i], c) /\ AsksFor(up[h][l], c) => i = l
          /\ \A i, l \in DOMAIN down[h] : AsksFor(down[h][i], c) /\ AsksFor(down[h][l], c) => i = l
          /\ \A t, u \in tasks : t.conn = c /\ u.conn = c => t = u
          /\ \A i \in DOMAIN up[h], l \in DOMAIN down[h] : ~(AsksFor(up[h][i], c) /\ AsksFor(down[h][l], c))
          /\ \A i \in DOMAIN up[h], t \in tasks : ~(AsksFor(up[h][i], c) /\ t.conn = c)
          /\ \A i \in DOMAIN down[h], t \in tasks : ~(AsksFor(down[h][i], c) /\ t.conn = c)
      BY <2>1 DEF AskOK, Alone
    <2>7. /\ \A i, l \in DOMAIN up'[h] : A(i) /\ A(l) => i = l
          /\ \A i, l \in DOMAIN down'[h] : B(i) /\ B(l) => i = l
      <3>1. \A i, l \in Nat : (j(i) = j(l) => i = l) /\ (k(i) = k(l) => i = l)
        OBVIOUS
      <3> HIDE DEF j, k, A, B, h
      <3> QED
        BY <2>3, <2>4, <2>5, <2>6, <3>1
    <2>8. /\ \A t, u \in tasks' : t.conn = c /\ u.conn = c => t = u
          /\ \A i \in DOMAIN up'[h], l \in DOMAIN down'[h] : ~(A(i) /\ B(l))
          /\ \A i \in DOMAIN up'[h], t \in tasks' : ~(A(i) /\ t.conn = c)
          /\ \A i \in DOMAIN down'[h], t \in tasks' : ~(B(i) /\ t.conn = c)
      <3> HIDE DEF j, k, A, B, h
      <3> QED
        BY <2>4, <2>5, <2>6
    <2> QED
      BY <2>1, <2>7, <2>8 DEF Alone
  <1> QED
    BY <1>3, <1>4 DEF AskOK, Alone

(* A connection whose last request is read, whose last answer comes, or    *)
(* for which there was none: only what is written now is there for it.     *)
LEMMA AskStep ==
    ASSUME NEW c \in Conn, TypeOK, up' \in Queues, down' \in Queues,
           NEW U, NEW D, NEW T, OnlyAt(c, U, D, T),
           NEW ts, NEW t0, NEW m, Moved(up, up', ts, t0, m),
           NEW us, NEW u0, NEW n, Moved(down, down', us, u0, n),
           U \subseteq {<<ts, 1>>}, D \subseteq {<<us, 1>>}, T \intersect tasks' = {},
           t0 \in Ti /\ AsksFor(m, c) => FitsNext(m, c, t0),
           u0 \in Ti /\ AsksFor(n, c) => FitsNext(n, c, u0),
           \A t \in tasks' \ tasks : t.conn = c => FitsNext(t, c, t.ti),
           NEW w \in {"up", "down", "task"},
           w # "up" => ~(t0 \in Ti /\ AsksFor(m, c)),
           w # "down" => ~(u0 \in Ti /\ AsksFor(n, c)),
           w # "task" => \A t \in tasks' \ tasks : t.conn # c,
           \A t, u \in tasks' \ tasks : t = u,
           conn'[c].state \notin Dead => acfd'[conn'[c].srv] \in Ti
    PROVE  AskOK(c)'
  <1>1. ASSUME NEW t \in Ti, NEW i \in DOMAIN up'[t], AsksFor(up'[t][i], c)
        PROVE  w = "up" /\ t = t0 /\ i = Len(up[t0]) + 1 /\ up'[t][i] = m
    <2>1. ~Kept(up, up', ts, t, i)
      <3>1. up'[t] \in Seq(Msg)
        BY DEF Queues
      <3>2. i \in Nat \ {0}
        BY <3>1, SeqFacts
      <3>3. ASSUME NEW j \in DOMAIN up[t], up'[t][i] = up[t][j], j = IF t = ts THEN i + 1 ELSE i
            PROVE  FALSE
        <4>1. <<t, j>> \in U
          BY <1>1, <3>3 DEF OnlyAt
        <4>2. <<t, j>> = <<ts, 1>>
          BY <4>1
        <4> QED
          BY <3>2, <3>3, <4>2
      <3> QED
        BY <3>3 DEF Kept
    <2> QED
      BY <1>1, <2>1, KindFacts DEF Moved, AsksFor
  <1>2. ASSUME NEW t \in Ti, NEW i \in DOMAIN down'[t], AsksFor(down'[t][i], c)
        PROVE  w = "down" /\ t = u0 /\ i = Len(down[u0]) + 1 /\ down'[t][i] = n
    <2>1. ~Kept(down, down', us, t, i)
      <3>1. down'[t] \in Seq(Msg)
        BY DEF Queues
      <3>2. i \in Nat \ {0}
        BY <3>1, SeqFacts
      <3>3. ASSUME NEW j \in DOMAIN down[t], down'[t][i] = down[t][j], j = IF t = us THEN i + 1 ELSE i
            PROVE  FALSE
        <4>1. <<t, j>> \in D
          BY <1>2, <3>3 DEF OnlyAt
        <4>2. <<t, j>> = <<us, 1>>
          BY <4>1
        <4> QED
          BY <3>2, <3>3, <4>2
      <3> QED
        BY <3>3 DEF Kept
    <2> QED
      BY <1>2, <2>1, KindFacts DEF Moved, AsksFor
  <1>3. ASSUME NEW t \in tasks', t.conn = c
        PROVE  w = "task" /\ t \in tasks' \ tasks
    BY <1>3 DEF OnlyAt
  <1>4. AllFit(c)'
    BY <1>1, <1>2, <1>3 DEF AllFit, Fits, FitsNext, Live
  <1>5. ASSUME Live(c)'
        PROVE  Alone(c)'
    <2>1. acfd'[conn'[c].srv] \in Ti
      BY <1>5 DEF Live
    <2>2. /\ \A t, u \in tasks' : t.conn = c /\ u.conn = c => t = u
          /\ \A t \in tasks' : t.conn = c => w = "task"
      BY <1>3
    <2> HIDE DEF Moved
    <2> QED
      BY <1>1, <1>2, <2>1, <2>2 DEF Alone
  <1> QED
    BY <1>4, <1>5 DEF AskOK, Alone

-----------------------------------------------------------------------------
(* The moves of the queues, as the actions write them.                     *)
UpKeepsUnused == \A t \in Ti : ~gs[t].use => up'[t] = up[t]

LEMMA SlotFacts ==
    ASSUME TypeOK, SlotsOK, NEW s \in Server, acfd[s] # NoTi
    PROVE  acfd[s] \in Ti /\ gs[acfd[s]].use /\ ~eof[acfd[s]]
  BY DEF TypeOK, SlotsOK

LEMMA UpSame ==
    ASSUME TypeOK, UNCHANGED up, NEW m
    PROVE  up' \in Queues /\ Moved(up, up', NoTi, NoTi, m) /\ UpKeepsUnused
  BY MovedSame DEF TypeOK, Queues, UpKeepsUnused

LEMMA DownSame ==
    ASSUME TypeOK, UNCHANGED down, NEW m
    PROVE  down' \in Queues /\ Moved(down, down', NoTi, NoTi, m)
  BY MovedSame DEF TypeOK, Queues

LEMMA UpTidied ==
    ASSUME TypeOK, LinesOK, NEW ti \in Ti, NEW kinds, ReadsOneOf(ti, kinds), up' = Tidied(ti), NEW m
    PROVE  /\ up' \in Queues /\ Moved(up, up', ti, NoTi, m) /\ UpKeepsUnused
           /\ gs[ti].use /\ 1 \in DOMAIN up[ti] /\ Read(ti) = up[ti][1]
           /\ Read(ti) \in Msg /\ UpLineOK(Read(ti)) /\ Read(ti).kind \in kinds
  <1>1. up \in Queues /\ up[ti] # <<>> /\ gs[ti].use
    BY DEF TypeOK, Queues, ReadsOneOf
  <1>2. up' \in Queues /\ Moved(up, up', ti, NoTi, m)
    BY <1>1, MovedTail DEF Tidied
  <1>3. UpKeepsUnused
    BY <1>1 DEF UpKeepsUnused, Tidied, Queues
  <1>4. 1 \in DOMAIN up[ti] /\ Head(up[ti]) = up[ti][1] /\ up[ti][1] \in Msg
    BY <1>1, QueueFacts
  <1> QED
    BY <1>1, <1>2, <1>3, <1>4 DEF Read, LinesOK, ReadsOneOf

LEMMA UpAppended ==
    ASSUME TypeOK, SlotsOK, NEW s \in Server, acfd[s] # NoTi, NEW m \in Msg,
           up' = [up EXCEPT ![acfd[s]] = Append(@, m)]
    PROVE  up' \in Queues /\ Moved(up, up', NoTi, acfd[s], m) /\ UpKeepsUnused
  <1>1. up \in Queues /\ acfd[s] \in Ti /\ gs[acfd[s]].use
    BY SlotFacts DEF TypeOK, Queues
  <1>2. up' \in Queues /\ Moved(up, up', NoTi, acfd[s], m)
    BY <1>1, MovedAppend
  <1> QED
    BY <1>1, <1>2 DEF UpKeepsUnused, Queues

LEMMA DownConsumed ==
    ASSUME TypeOK, LinesOK, SlotsOK, NEW s \in Server, NEW kind, Get(s, kind), down' = Consumed(s), NEW m
    PROVE  /\ acfd[s] \in Ti /\ gs[acfd[s]].use /\ ~eof[acfd[s]] /\ acfd[s] # NoTi
           /\ down' \in Queues /\ Moved(down, down', acfd[s], NoTi, m)
           /\ 1 \in DOMAIN down[acfd[s]] /\ Answered(s) = down[acfd[s]][1]
           /\ Answered(s) \in Msg /\ DownLineOK(Answered(s)) /\ Answered(s).kind = kind
  <1> DEFINE ti == acfd[s]
  <1>1. down \in Queues /\ down[ti] # <<>> /\ Head(down[ti]).kind = kind
    BY DEF TypeOK, Queues, Get
  <1>2. ti # NoTi /\ ti \in Ti /\ gs[ti].use /\ ~eof[ti]
    BY SlotFacts DEF Get
  <1>3. down' \in Queues /\ Moved(down, down', ti, NoTi, m)
    BY <1>1, <1>2, MovedTail DEF Consumed
  <1>4. 1 \in DOMAIN down[ti] /\ Head(down[ti]) = down[ti][1] /\ down[ti][1] \in Msg
    BY <1>1, <1>2, QueueFacts
  <1> QED
    BY <1>1, <1>2, <1>3, <1>4 DEF Answered, LinesOK

LEMMA ToQueues ==
    ASSUME NEW ti \in Ti, NEW m \in Msg
    PROVE  /\ To(ti, m) \in Queues
           /\ \A t \in Ti : \A i \in DOMAIN To(ti, m)[t] : t = ti /\ i = 1 /\ To(ti, m)[t][i] = m
  <1>1. <<m>> \in Seq(Msg) /\ DOMAIN <<m>> = {1} /\ <<m>>[1] = m /\ <<>> \in Seq(Msg)
    OBVIOUS
  <1>2. To(ti, m) \in Queues
    BY <1>1 DEF To, Queues
  <1>3. ASSUME NEW t \in Ti, NEW i \in DOMAIN To(ti, m)[t]
        PROVE  t = ti /\ i = 1 /\ To(ti, m)[t][i] = m
    BY <1>1 DEF To
  <1> QED
    BY <1>2, <1>3

LEMMA KicksQueues ==
    ASSUME NEW ti \in Ti, NEW T, NEW a \in Account \union {NoAccount}
    PROVE  /\ Kicks(ti, T, a) \in Queues
           /\ \A t \in Ti : \A i \in DOMAIN Kicks(ti, T, a)[t] : Kicks(ti, T, a)[t][i].kind \in Notice
  <1> DEFINE m == KickLine(a)
  <1>1. m \in Msg /\ m.kind \in Notice
    <2>1. "kick" \in Kind /\ NoConn \in Conn \union {NoConn} /\ FALSE \in BOOLEAN
      BY KindFacts
    <2>2. m \in Msg
      BY <2>1, LineType, BlankFacts DEF KickLine
    <2> QED
      BY <2>2 DEF KickLine, Line, Notice
  <1> HIDE DEF m
  <1>2. <<m>> \in Seq(Msg) /\ DOMAIN <<m>> = {1} /\ <<m>>[1] = m /\ <<>> \in Seq(Msg)
    BY <1>1
  <1>3. Kicks(ti, T, a) \in Queues
    BY <1>2 DEF Kicks, Queues, m
  <1>4. ASSUME NEW t \in Ti, NEW i \in DOMAIN Kicks(ti, T, a)[t]
        PROVE  Kicks(ti, T, a)[t][i].kind \in Notice
    <2>1. Kicks(ti, T, a)[t] = <<m>> \/ Kicks(ti, T, a)[t] = <<>>
      BY DEF Kicks, m
    <2>2. DOMAIN <<>> = {}
      OBVIOUS
    <2> QED
      BY <1>1, <1>2, <2>1, <2>2
  <1> QED
    BY <1>3, <1>4

LEMMA PostTo ==
    ASSUME TypeOK, NEW ti \in Ti, NEW m \in Msg, Post(To(ti, m))
    PROVE  down' \in Queues /\ Moved(down, down', NoTi, ti, m)
  <1>1. down \in Queues
    BY DEF TypeOK, Queues
  <1> QED
    BY <1>1, ToQueues, MovedPost

LEMMA PostKicks ==
    ASSUME TypeOK, NEW ti \in Ti, NEW T, NEW a \in Account \union {NoAccount}, Post(Kicks(ti, T, a)), NEW m
    PROVE  down' \in Queues /\ Moved(down, down', NoTi, NoTi, m)
  <1>1. down \in Queues
    BY DEF TypeOK, Queues
  <1> QED
    BY <1>1, KicksQueues, MovedPost

LEMMA PostBoth ==
    ASSUME TypeOK, NEW ti \in Ti, NEW m \in Msg, NEW lines \in Queues,
           \A t \in Ti : \A i \in DOMAIN lines[t] : lines[t][i].kind \in Notice,
           Post(Both(To(ti, m), lines))
    PROVE  down' \in Queues /\ Moved(down, down', NoTi, ti, m)
  <1> DEFINE first == To(ti, m)
             both  == Both(first, lines)
  <1>1. down \in Queues /\ first \in Queues
    BY ToQueues DEF TypeOK, Queues
  <1>2. \A t \in Ti : both[t] = first[t] \o lines[t]
    BY DEF Both
  <1>3. \A t \in Ti : /\ first[t] \in Seq(Msg) /\ lines[t] \in Seq(Msg)
                      /\ first[t] \o lines[t] \in Seq(Msg)
                      /\ \A i \in DOMAIN (first[t] \o lines[t]) :
                            \/ i \in DOMAIN first[t] /\ (first[t] \o lines[t])[i] = first[t][i]
                            \/ /\ i - Len(first[t]) \in DOMAIN lines[t]
                               /\ (first[t] \o lines[t])[i] = lines[t][i - Len(first[t])]
    <2>1. \A t \in Ti : first[t] \in Seq(Msg) /\ lines[t] \in Seq(Msg)
      BY <1>1 DEF Queues
    <2> QED
      BY <2>1, ConcatFacts
  <1>4. both \in Queues
    BY <1>3 DEF Both, Queues
  <1>5. \A t \in Ti : \A i \in DOMAIN first[t] : t = ti /\ i = 1 /\ first[t][i] = m
    BY ToQueues
  <1> HIDE DEF first
  <1>6. ASSUME NEW t \in Ti, NEW i \in DOMAIN both[t]
        PROVE  \/ t = ti /\ i = 1 /\ both[t][i] = m
               \/ both[t][i].kind \in Notice
    <2>1. both[t] = first[t] \o lines[t]
      BY <1>2
    <2>2. CASE i \in DOMAIN first[t] /\ both[t][i] = first[t][i]
      BY <1>5, <2>2
    <2>3. CASE i - Len(first[t]) \in DOMAIN lines[t] /\ both[t][i] = lines[t][i - Len(first[t])]
      BY <2>3
    <2> HIDE DEF both
    <2> QED
      BY <1>3, <2>1, <2>2, <2>3
  <1>7. Post(both)
    BY DEF first
  <1> HIDE DEF both
  <1> QED
    BY <1>1, <1>4, <1>6, <1>7, MovedPost

-----------------------------------------------------------------------------
(* A step in which no server comes or goes.  C: the connections concerned. *)
LEMMA StepInv ==
    ASSUME SessionInv, TypeOK', UNCHANGED <<acfd, eof, gs>>,
           NEW ts, NEW t0, NEW m, Moved(up, up', ts, t0, m), UpKeepsUnused,
           NEW us, NEW u0, NEW n, Moved(down, down', us, u0, n),
           t0 \in Ti => UpLineOK(m) /\ m.kind # "login",
           u0 \in Ti => DownLineOK(n),
           \A t \in tasks' \ tasks : TaskOK(t),
           NEW C \in SUBSET Conn,
           \A c \in Conn \ C :
              /\ conn'[c] = conn[c] \/ conn'[c] = [conn[c] EXCEPT !.close = TRUE]
              /\ t0 \in Ti => ~AsksFor(m, c)
              /\ u0 \in Ti => ~AsksFor(n, c)
              /\ \A t \in tasks' \ tasks : t.conn # c,
           \A c \in C : ConnOK(c)' /\ AskOK(c)'
    PROVE  SessionInv'
  <1>1. TypeOK /\ LinesOK /\ SlotsOK /\ ConnsOK /\ Asking
    BY DEF SessionInv, Base
  <1>2. up' \in Queues /\ down' \in Queues
    BY DEF TypeOK, Queues
  <1>3. LinesOK'
    <2>1. \A ti \in Ti : \A i \in DOMAIN up'[ti] : UpLineOK(up'[ti][i])
      BY <1>1, UpLinesKeep
    <2>2. \A ti \in Ti : \A i \in DOMAIN down'[ti] : DownLineOK(down'[ti][i])
      BY <1>1, DownLinesKeep
    <2>3. \A t \in tasks' : TaskOK(t)
      BY <1>1 DEF LinesOK
    <2> QED
      BY <2>1, <2>2, <2>3 DEF LinesOK
  <1>4. SlotsOK'
    BY <1>1, <1>2, SlotsKeep DEF UpKeepsUnused
  <1>5. ASSUME NEW c \in Conn \ C
        PROVE  ConnOK(c)' /\ AskOK(c)'
    <2>1. ConnOK(c) /\ AskOK(c)
      BY <1>1 DEF ConnsOK, Asking
    <2>2. conn[c] \in ConnRecord
      BY <1>1 DEF TypeOK
    <2>3. conn'[c].state = conn[c].state /\ conn'[c].srv = conn[c].srv /\ conn'[c].acct = conn[c].acct
      BY <2>2 DEF ConnRecord
    <2>4. ConnOK(c)'
      BY <1>1, <2>1, ConnKeep
    <2>5. Live(c) => acfd'[conn[c].srv] = acfd[conn[c].srv] /\ acfd[conn[c].srv] \in Ti
      BY <2>1 DEF ConnOK
    <2>6. \A t \in tasks' : t.conn = c => t \in tasks
      OBVIOUS
    <2>7. AskOK(c)'
      <3>1. t0 \in Ti => ~AsksFor(m, c)
        OBVIOUS
      <3>2. u0 \in Ti => ~AsksFor(n, c)
        OBVIOUS
      <3> QED
        BY <1>1, <1>2, <2>1, <2>3, <2>5, <2>6, <3>1, <3>2, AskKeep
    <2> QED
      BY <2>4, <2>7
  <1> QED
    BY <1>3, <1>4, <1>5 DEF SessionInv, Base, ConnsOK, Asking

(* Nothing of a request: client input, autosave, most of what SAAC reads.  *)
LEMMA QuietInv ==
    ASSUME SessionInv, TypeOK', UNCHANGED <<acfd, eof, gs, tasks>>,
           NEW ts, NEW t0, NEW m, Moved(up, up', ts, t0, m), UpKeepsUnused,
           NEW us, NEW u0, NEW n, Moved(down, down', us, u0, n),
           t0 \in Ti => UpLineOK(m) /\ m.kind \notin {"login"} \union AsksKind,
           u0 \in Ti => n.kind \notin AsksKind,
           \A c \in Conn : conn'[c] = conn[c] \/ conn'[c] = [conn[c] EXCEPT !.close = TRUE]
    PROVE  SessionInv'
  <1>1. u0 \in Ti => DownLineOK(n)
    BY KindFacts DEF DownLineOK
  <1> DEFINE C == {}
  <1>2. \A c \in Conn \ C :
              /\ conn'[c] = conn[c] \/ conn'[c] = [conn[c] EXCEPT !.close = TRUE]
              /\ t0 \in Ti => ~AsksFor(m, c)
              /\ u0 \in Ti => ~AsksFor(n, c)
              /\ \A t \in tasks' \ tasks : t.conn # c
    BY DEF AsksFor
  <1>3. C \in SUBSET Conn /\ \A c \in C : ConnOK(c)' /\ AskOK(c)'
    OBVIOUS
  <1>4. t0 \in Ti => UpLineOK(m) /\ m.kind # "login"
    OBVIOUS
  <1>5. \A t \in tasks' \ tasks : TaskOK(t)
    OBVIOUS
  <1> HIDE DEF C
  <1> QED
    BY <1>1, <1>2, <1>3, <1>4, <1>5, StepInv

(* One connection is concerned.                                            *)
LEMMA OneInv ==
    ASSUME SessionInv, TypeOK', UNCHANGED <<acfd, eof, gs>>,
           NEW ts, NEW t0, NEW m, Moved(up, up', ts, t0, m), UpKeepsUnused,
           NEW us, NEW u0, NEW n, Moved(down, down', us, u0, n),
           t0 \in Ti => UpLineOK(m) /\ m.kind # "login",
           u0 \in Ti => DownLineOK(n),
           NEW c \in Conn,
           t0 \in Ti /\ m.kind \in AsksKind => m.conn = c,
           u0 \in Ti /\ n.kind \in AsksKind => n.conn = c,
           \A t \in tasks' \ tasks : TaskOK(t) /\ t.conn = c,
           \A d \in Conn : d # c => conn'[d] = conn[d],
           ConnOK(c)', AskOK(c)'
    PROVE  SessionInv'
  <1> DEFINE C == {c}
  <1>1. \A d \in Conn \ C :
              /\ conn'[d] = conn[d] \/ conn'[d] = [conn[d] EXCEPT !.close = TRUE]
              /\ t0 \in Ti => ~AsksFor(m, d)
              /\ u0 \in Ti => ~AsksFor(n, d)
              /\ \A t \in tasks' \ tasks : t.conn # d
    BY DEF AsksFor
  <1>2. C \in SUBSET Conn /\ \A d \in C : ConnOK(d)' /\ AskOK(d)'
    OBVIOUS
  <1>3. \A t \in tasks' \ tasks : TaskOK(t)
    OBVIOUS
  <1> HIDE DEF C
  <1> QED
    BY <1>1, <1>2, <1>3, StepInv

-----------------------------------------------------------------------------
(* The clients.                                                            *)
LEMMA InvFacts ==
    ASSUME SessionInv
    PROVE  /\ TypeOK /\ LinesOK /\ SlotsOK /\ ConnsOK /\ Asking
           /\ \A c \in Conn : ConnOK(c) /\ AskOK(c) /\ conn[c] \in ConnRecord
  BY DEF SessionInv, Base, ConnsOK, Asking, TypeOK

(* A connection for which there was no request becomes r.                  *)
LEMMA IdleInv ==
    ASSUME SessionInv, NEW c \in Conn, OnlyAt(c, {}, {}, {}), NEW r \in ConnRecord,
           conn' = [conn EXCEPT ![c] = r], ConnOK(c)', UNCHANGED <<acfd, netVars, saacVars>>,
           r.state # "unused"
    PROVE  SessionInv'
  <1>1. TypeOK
    BY InvFacts
  <1>2. UNCHANGED <<up, down, eof, gs, lock, file, tasks>>
    BY DEF netVars, saacVars
  <1>3. TypeOK'
    BY <1>1, <1>2 DEF TypeOK
  <1>4. /\ up' \in Queues /\ Moved(up, up', NoTi, NoTi, Blank) /\ UpKeepsUnused
        /\ down' \in Queues /\ Moved(down, down', NoTi, NoTi, Blank) /\ NoTi \notin Ti
    BY <1>1, <1>2, UpSame, DownSame, SessionAssumption DEF SessionAssumption
  <1>5. conn'[c] = r /\ \A d \in Conn : d # c => conn'[d] = conn[d]
    BY <1>1 DEF TypeOK
  <1>6. AskOK(c)'
    <2>1. conn'[c].state \notin Dead => acfd'[conn'[c].srv] \in Ti
      BY DEF ConnOK, Live
    <2>2. tasks' \ tasks = {} /\ "up" \in {"up", "down", "task"}
      BY <1>2
    <2>3. {} \subseteq {<<NoTi, 1>>} /\ {} \intersect tasks' = {}
      OBVIOUS
    <2> QED
      BY <1>1, <1>4, <2>1, <2>2, <2>3, AskStep
  <1>7. \A t \in tasks' \ tasks : TaskOK(t) /\ t.conn = c
    BY <1>2
  <1> QED
    BY <1>2, <1>3, <1>4, <1>5, <1>6, <1>7, OneInv

LEMMA AcceptInv ==
    ASSUME SessionInv, NEW c \in Conn, NEW s \in Server, Accept(c, s)
    PROVE  SessionInv'
  <1> DEFINE r == Idle("NOTLOGIN", s)
  <1>1. TypeOK /\ SlotsOK /\ AskOK(c) /\ conn[c].state = "unused"
    BY InvFacts DEF Accept
  <1>2. r \in ConnRecord /\ r.state = "NOTLOGIN" /\ r.srv = s /\ r.rec = Blank
    BY BlankFacts DEF Idle, ConnRecord
  <1>3. OnlyAt(c, {}, {}, {})
    BY <1>1, NobodyAsks
  <1>4. conn' = [conn EXCEPT ![c] = r] /\ conn'[c] = r /\ UNCHANGED <<acfd, netVars, saacVars>>
    BY <1>1 DEF Accept, TypeOK
  <1>5. acfd[s] \in Ti /\ (~EarlyClients => gs[acfd[s]].name = s)
    BY <1>1, SlotFacts DEF Accept
  <1>6. ConnOK(c)'
    <2>1. "NOTLOGIN" \notin Waiting \union {"LOGIN"}
      BY DEF Waiting
    <2>2. gs' = gs /\ acfd' = acfd
      BY <1>4 DEF saacVars
    <2> HIDE DEF r
    <2> QED
      BY <1>2, <1>4, <1>5, <2>1, <2>2, BlankFacts DEF ConnOK
  <1> HIDE DEF r
  <1> QED
    BY <1>2, <1>3, <1>4, <1>6, IdleInv

LEMMA ClientLoginInv ==
    ASSUME SessionInv, NEW c \in Conn, NEW a \in Account, ClientLogin(c, a)
    PROVE  SessionInv'
  <1> DEFINE r == [conn[c] EXCEPT !.acct = a]
  <1>1. TypeOK /\ ConnOK(c) /\ AskOK(c) /\ conn[c] \in ConnRecord /\ conn[c].state = "NOTLOGIN"
    BY InvFacts DEF ClientLogin
  <1>2. /\ r \in ConnRecord /\ r.state = "NOTLOGIN" /\ r.srv = conn[c].srv
        /\ r.rec = conn[c].rec
    BY <1>1 DEF ConnRecord
  <1>3. OnlyAt(c, {}, {}, {})
    BY <1>1, NobodyAsks
  <1>4. conn' = [conn EXCEPT ![c] = r] /\ conn'[c] = r /\ UNCHANGED <<acfd, netVars, saacVars>>
    BY <1>1 DEF ClientLogin, TypeOK
  <1>5. ConnOK(c)'
    <2>1. "NOTLOGIN" \notin Waiting \union {"LOGIN"}
      BY DEF Waiting
    <2>2. gs' = gs /\ acfd' = acfd
      BY <1>4 DEF saacVars
    <2> HIDE DEF r
    <2> QED
      BY <1>1, <1>2, <1>4, <2>1, <2>2 DEF ConnOK, Live
  <1> HIDE DEF r
  <1> QED
    BY <1>2, <1>3, <1>4, <1>5, IdleInv

LEMMA PlayInv ==
    ASSUME SessionInv, NEW c \in Conn, Play(c)
    PROVE  SessionInv'
  <1> DEFINE r == [conn[c] EXCEPT !.rec.ver = @ + 1]
  <1>1. /\ TypeOK /\ ConnOK(c) /\ AskOK(c) /\ conn[c] \in ConnRecord
        /\ conn[c].state = "LOGIN" /\ conn[c].rec.ver < MaxVer
    BY InvFacts DEF Play
  <1>2. /\ r \in ConnRecord /\ r.state = "LOGIN" /\ r.srv = conn[c].srv
        /\ r.rec.char = conn[c].rec.char /\ r.acct = conn[c].acct /\ r.slot = conn[c].slot
    BY <1>1, SessionAssumption DEF ConnRecord, Record, SessionAssumption
  <1>3. OnlyAt(c, {}, {}, {})
    BY <1>1, NobodyAsks
  <1>4. conn' = [conn EXCEPT ![c] = r] /\ conn'[c] = r /\ UNCHANGED <<acfd, netVars, saacVars>>
    BY <1>1 DEF Play, TypeOK
  <1>5. ConnOK(c)'
    <2>1. gs' = gs /\ acfd' = acfd
      BY <1>4 DEF saacVars
    <2> HIDE DEF r
    <2> QED
      BY <1>1, <1>2, <1>4, <2>1 DEF ConnOK, Live
  <1> HIDE DEF r
  <1> QED
    BY <1>2, <1>3, <1>4, <1>5, IdleInv

(* The four requests.                                                      *)
Request(st, kind, rec) ==
    \/ st = "WHILEDOWNLOADCHARLIST" /\ kind = "list" /\ rec = Blank
    \/ st = "WHILELOGIN" /\ kind = "load" /\ rec \in {Fresh(ch) : ch \in Char}
    \/ st = "WHILECREATE" /\ kind = "save" /\ rec \in {Fresh(ch) : ch \in Char} /\ "create" \in ClientOps
    \/ /\ st = "WHILECHARDELETE" /\ kind = "delete"
       /\ rec \in {Fresh(ch) : ch \in Char} /\ "delete" \in ClientOps

LEMMA AskInv ==
    ASSUME SessionInv, NEW c \in Conn, NEW st, NEW kind, NEW rec, Request(st, kind, rec),
           Ask(c, st, kind, rec)
    PROVE  SessionInv'
  <1> DEFINE s == conn[c].srv
             m == Line(kind, c, conn[c].acct, rec, NewSlot, FALSE)
  <1>1. /\ TypeOK /\ LinesOK /\ SlotsOK /\ ConnOK(c) /\ AskOK(c) /\ conn[c] \in ConnRecord
        /\ conn[c].state = "NOTLOGIN"
    BY InvFacts DEF Ask
  <1>2. /\ conn[c].acct \in Account /\ s \in Server /\ acfd[s] \in Ti /\ acfd[s] # NoTi
        /\ Live(c) /\ conn[c].rec.char = NoChar
    BY <1>1, SessionAssumption DEF Ask, IsCLI, ConnRecord, ConnOK, Live, Dead, SessionAssumption
  <1>3. /\ st \in Waiting /\ kind \in Kind /\ rec \in Record
        /\ kind \in {"list", "load", "save", "delete"} /\ kind # "login"
        /\ kind \in AsksKind => st \in Expects(kind)
    BY KindFacts, BlankFacts DEF Request, Waiting, Expects
  <1>4. m \in Msg
    BY <1>2, <1>3, BlankFacts, LineType
  <1>5. UpLineOK(m)
    <2>1. m.kind = kind /\ m.conn = c /\ m.acct = conn[c].acct /\ m.rec = rec /\ m.slot = NewSlot /\ m.flag = FALSE
      BY DEF Line
    <2> HIDE DEF m
    <2> QED
      BY <1>2, <1>3, <2>1, KindFacts, BlankFacts DEF UpLineOK, Request, GMKind
  <1>6. /\ up' = [up EXCEPT ![acfd[s]] = Append(@, m)]
        /\ UNCHANGED <<acfd, down, eof, gs, lock, file, tasks>>
    BY DEF Ask, Send, saacVars
  <1>7. conn'[c] = [conn[c] EXCEPT !.state = st] /\ \A d \in Conn : d # c => conn'[d] = conn[d]
    BY <1>1 DEF Ask, TypeOK
  <1>8. [conn[c] EXCEPT !.state = st] \in ConnRecord
    BY <1>1, <1>3 DEF ConnRecord
  <1>9. /\ up' \in Queues /\ Moved(up, up', NoTi, acfd[s], m) /\ UpKeepsUnused
        /\ down' \in Queues /\ Moved(down, down', NoTi, NoTi, Blank) /\ NoTi \notin Ti
    BY <1>1, <1>2, <1>4, <1>6, UpAppended, DownSame, SessionAssumption DEF SessionAssumption
  <1>10. TypeOK'
    <2>1. conn' \in [Conn -> ConnRecord]
      BY <1>1, <1>7, <1>8 DEF Ask, TypeOK
    <2> QED
      BY <1>1, <1>6, <1>9, <2>1 DEF TypeOK, Queues
  <1>11. ConnOK(c)'
    BY <1>1, <1>2, <1>3, <1>6, <1>7, ConnBecomes
  <1>12. m.conn = c /\ m.kind = kind /\ m.acct = conn[c].acct
    BY DEF Line
  <1>13. AsksFor(m, c) => FitsNext(m, c, acfd[s])
    BY <1>1, <1>3, <1>6, <1>7, <1>12 DEF AsksFor, FitsNext, ConnRecord, Waiting
  <1> HIDE DEF m
  <1>14. AskOK(c)'
    <2>1. OnlyAt(c, {}, {}, {})
      BY <1>1, NobodyAsks
    <2>2. conn'[c].state \notin Dead => acfd'[conn'[c].srv] \in Ti
      BY <1>11 DEF ConnOK, Live
    <2>3. tasks' \ tasks = {} /\ "up" \in {"up", "down", "task"}
      BY <1>6
    <2>4. {} \subseteq {<<NoTi, 1>>} /\ {} \intersect tasks' = {}
      OBVIOUS
    <2> QED
      BY <1>1, <1>9, <1>13, <2>1, <2>2, <2>3, <2>4, AskStep
  <1>15. \A t \in tasks' \ tasks : TaskOK(t) /\ t.conn = c
    BY <1>6
  <1>16. acfd[s] \in Ti => UpLineOK(m) /\ m.kind # "login"
    BY <1>3, <1>5, <1>12
  <1>17. UNCHANGED <<acfd, eof, gs>>
    BY <1>6
  <1> HIDE DEF s
  <1> QED
    BY <1>7, <1>9, <1>10, <1>11, <1>12, <1>14, <1>15, <1>16, <1>17, OneInv

LEMMA SaveLineFacts ==
    ASSUME SessionInv, NEW c \in Conn, InPlay(c), NEW unlock \in BOOLEAN
    PROVE  LET m == SaveLine(c, unlock)
           IN  /\ m \in Msg /\ UpLineOK(m) /\ m.kind = "save" /\ m.acct = conn[c].acct
               /\ m.rec = conn[c].rec /\ m.slot = conn[c].slot /\ m.slot \in Slot /\ m.flag = unlock
               /\ conn[c].acct \in Account /\ conn[c].state = "LOGIN"
               /\ conn[c].srv \in Server /\ acfd[conn[c].srv] \in Ti /\ acfd[conn[c].srv] # NoTi
  <1> DEFINE m == SaveLine(c, unlock)
  <1>1. ConnOK(c) /\ conn[c] \in ConnRecord
    BY InvFacts
  <1>2. /\ Live(c) /\ conn[c].rec.char # NoChar /\ conn[c].state = "LOGIN"
        /\ conn[c].acct \in Account /\ conn[c].slot \in Slot
        /\ conn[c].rec \in Record /\ conn[c].rec.char \in Char
        /\ conn[c].srv \in Server /\ acfd[conn[c].srv] \in Ti /\ acfd[conn[c].srv] # NoTi
    BY <1>1, SessionAssumption DEF InPlay, ConnOK, ConnRecord, Record, SessionAssumption
  <1>3. m.kind = "save" /\ m.acct = conn[c].acct /\ m.rec = conn[c].rec /\ m.slot = conn[c].slot /\ m.flag = unlock
    BY DEF SaveLine, Line
  <1>4. m \in Msg
    BY <1>2, LineType, KindFacts DEF SaveLine, SaveIndex
  <1>5. UpLineOK(m)
    <2> HIDE DEF m
    <2> QED
      BY <1>2, <1>3, KindFacts, BlankFacts DEF UpLineOK, GMKind
  <1> HIDE DEF m
  <1> QED
    BY <1>2, <1>3, <1>4, <1>5 DEF m

LEMMA AutosaveInv ==
    ASSUME SessionInv, NEW c \in Conn, Autosave(c)
    PROVE  SessionInv'
  <1> DEFINE s == conn[c].srv
             m == SaveLine(c, FALSE)
  <1>1. TypeOK /\ SlotsOK /\ ConnOK(c) /\ conn[c].state = "LOGIN"
    BY InvFacts DEF Autosave
  <1>2. InPlay(c)
    BY <1>1 DEF InPlay, Live, Dead, ConnOK
  <1>3. /\ m \in Msg /\ UpLineOK(m) /\ m.kind = "save" /\ s \in Server /\ acfd[s] # NoTi
    BY <1>2, SaveLineFacts
  <1>4. /\ up' = [up EXCEPT ![acfd[s]] = Append(@, m)]
        /\ UNCHANGED <<acfd, conn, down, eof, gs, lock, file, tasks>>
    BY DEF Autosave, Send, saacVars
  <1> HIDE DEF m, s
  <1>5. /\ up' \in Queues /\ Moved(up, up', NoTi, acfd[s], m) /\ UpKeepsUnused
        /\ down' \in Queues /\ Moved(down, down', NoTi, NoTi, Blank) /\ NoTi \notin Ti
    BY <1>1, <1>3, <1>4, UpAppended, DownSame, SessionAssumption DEF SessionAssumption
  <1>6. TypeOK'
    BY <1>1, <1>4, <1>5 DEF TypeOK, Queues
  <1>7. acfd[s] \in Ti => UpLineOK(m) /\ m.kind \notin {"login"} \union AsksKind
    BY <1>3, KindFacts
  <1> QED
    BY <1>4, <1>5, <1>6, <1>7, QuietInv

LEMMA GMCommandInv ==
    ASSUME SessionInv, NEW c \in Conn, conn[c].state = "LOGIN", "gm" \in ClientOps,
           NEW kind \in GMKind, NEW a \in Account, NEW z \in Server, GMCommand(c, kind, a, z)
    PROVE  SessionInv'
  <1> DEFINE s == conn[c].srv
             m == [Line(kind, c, a, Blank, NewSlot, FALSE) EXCEPT !.srv = z]
  <1>1. TypeOK /\ SlotsOK /\ ConnOK(c) /\ Live(c)
    BY InvFacts DEF Live, Dead
  <1>2. s \in Server /\ acfd[s] # NoTi
    BY <1>1, SessionAssumption DEF ConnOK, SessionAssumption
  <1>3. m.kind = kind /\ kind \notin AsksKind \union {"login", "save"} /\ kind \in Kind
    BY KindFacts DEF Line, GMKind
  <1>4. m \in Msg
    BY <1>3, BlankFacts DEF Line, Msg
  <1>5. UpLineOK(m)
    <2> HIDE DEF m
    <2> QED
      BY <1>3, KindFacts DEF UpLineOK
  <1>6. /\ up' = [up EXCEPT ![acfd[s]] = Append(@, m)]
        /\ UNCHANGED <<acfd, conn, down, eof, gs, lock, file, tasks>>
    BY DEF GMCommand, Send, saacVars
  <1> HIDE DEF m, s
  <1>7. /\ up' \in Queues /\ Moved(up, up', NoTi, acfd[s], m) /\ UpKeepsUnused
        /\ down' \in Queues /\ Moved(down, down', NoTi, NoTi, Blank) /\ NoTi \notin Ti
    BY <1>1, <1>2, <1>4, <1>6, UpAppended, DownSame, SessionAssumption DEF SessionAssumption
  <1>8. TypeOK'
    BY <1>1, <1>6, <1>7 DEF TypeOK, Queues
  <1>9. acfd[s] \in Ti => UpLineOK(m) /\ m.kind \notin {"login"} \union AsksKind
    BY <1>3, <1>5
  <1> QED
    BY <1>6, <1>7, <1>8, <1>9, QuietInv

LEMMA EndConnInv ==
    ASSUME SessionInv, NEW c \in Conn, EndConn(c)
    PROVE  SessionInv'
  <1> DEFINE s == conn[c].srv
             m == SaveLine(c, TRUE)
             r == Idle("ended", NoServer)
  <1>1. TypeOK /\ SlotsOK /\ ConnOK(c)
    BY InvFacts
  <1>2. r \in ConnRecord /\ r.state = "ended"
    BY BlankFacts DEF Idle, ConnRecord, Dead
  <1>3. /\ conn'[c] = r /\ \A d \in Conn : d # c => conn'[d] = conn[d]
        /\ conn' \in [Conn -> ConnRecord]
    BY <1>1, <1>2 DEF EndConn, TypeOK
  <1>4. ConnOK(c)' /\ AskOK(c)'
    BY <1>2, <1>3, ConnEnded, EndedAsks
  <1>5. UNCHANGED <<acfd, down, eof, gs, lock, file, tasks>>
    BY DEF EndConn, Send, saacVars, netVars
  <1>6. NoTi \notin Ti
    BY SessionAssumption DEF SessionAssumption
  <1>7. down' \in Queues /\ Moved(down, down', NoTi, NoTi, Blank)
    BY <1>1, <1>5, DownSame
  <1>8. \A t \in tasks' \ tasks : TaskOK(t) /\ t.conn = c
    BY <1>5
  <1>9. UNCHANGED <<acfd, eof, gs>>
    BY <1>5
  <1>10. CASE InPlay(c)
    <2>1. /\ m \in Msg /\ UpLineOK(m) /\ m.kind = "save" /\ s \in Server /\ acfd[s] # NoTi
      BY <1>10, SaveLineFacts
    <2>2. up' = [up EXCEPT ![acfd[s]] = Append(@, m)]
      BY <1>10 DEF EndConn, Send
    <2> HIDE DEF m, s, r
    <2>3. up' \in Queues /\ Moved(up, up', NoTi, acfd[s], m) /\ UpKeepsUnused
      BY <1>1, <2>1, <2>2, UpAppended
    <2>4. TypeOK'
      BY <1>1, <1>3, <1>5, <1>7, <2>3 DEF TypeOK, Queues
    <2>5. acfd[s] \in Ti => UpLineOK(m) /\ m.kind # "login"
      BY <2>1
    <2>6. acfd[s] \in Ti /\ m.kind \in AsksKind => m.conn = c
      BY <2>1, KindFacts
    <2> QED
      BY <1>3, <1>4, <1>6, <1>7, <1>8, <1>9, <2>3, <2>4, <2>5, <2>6, OneInv
  <1>11. CASE ~InPlay(c)
    <2> HIDE DEF m, s, r
    <2>1. UNCHANGED up
      BY <1>11 DEF EndConn, netVars
    <2>2. up' \in Queues /\ Moved(up, up', NoTi, NoTi, Blank) /\ UpKeepsUnused
      BY <1>1, <2>1, UpSame
    <2>3. TypeOK'
      BY <1>1, <1>3, <1>5, <1>7, <2>2 DEF TypeOK, Queues
    <2> QED
      BY <1>3, <1>4, <1>6, <1>7, <1>8, <1>9, <2>2, <2>3, OneInv
  <1> QED
    BY <1>10, <1>11

LEMMA ClientInv ==
    ASSUME SessionInv, NEW c \in Conn, Client(c)
    PROVE  SessionInv'
  <1>1. ASSUME NEW ch \in Char, CharLogin(c, ch) \/ CreateNewChar(c, ch) \/ CharDelete(c, ch)
        PROVE  SessionInv'
    BY <1>1, AskInv DEF CharLogin, CreateNewChar, CharDelete, Request
  <1>2. ASSUME CharList(c) PROVE SessionInv'
    BY <1>2, AskInv DEF CharList, Request
  <1> QED
    BY <1>1, <1>2, AcceptInv, ClientLoginInv, PlayInv, AutosaveInv, GMCommandInv, EndConnInv DEF Client

-----------------------------------------------------------------------------
(* A server reads what SAAC wrote.                                         *)
LEMMA AskerFacts ==
    ASSUME SessionInv, NEW s \in Server, NEW kind, Get(s, kind), NEW c \in Asker(s), kind \in AsksKind
    PROVE  /\ c \in Conn /\ Live(c) /\ conn[c].srv \in Server /\ acfd[conn[c].srv] = acfd[s]
           /\ OnlyAt(c, {}, {<<acfd[s], 1>>}, {})
           /\ conn[c].state \in Expects(kind) /\ conn[c].acct = Answered(s).acct
           /\ conn[c].acct \in Account /\ conn[c].rec.char = NoChar /\ conn[c].state \in Waiting
           /\ conn[c].srv = s
  <1> DEFINE ti == acfd[s]
  <1>1. TypeOK /\ SlotsOK /\ c \in Conn /\ Live(c) /\ c = Answered(s).conn
    BY InvFacts DEF Asker
  <1>2. ti \in Ti /\ ti # NoTi /\ down[ti] # <<>> /\ Answered(s).kind = kind
    BY <1>1, SlotFacts DEF Get, Answered
  <1>3. 1 \in DOMAIN down[ti] /\ Answered(s) = down[ti][1]
    BY <1>1, <1>2, QueueFacts DEF Answered
  <1>4. AskOK(c) /\ ConnOK(c)
    BY <1>1, InvFacts
  <1>5. AsksFor(down[ti][1], c)
    BY <1>1, <1>2, <1>3 DEF AsksFor
  <1>6. OnlyAt(c, {}, {<<ti, 1>>}, {}) /\ Fits(down[ti][1], c, ti)
    BY <1>1, <1>2, <1>3, <1>4, <1>5, OnlyDown
  <1>7. conn[c].state \in Expects(kind) /\ conn[c].acct = Answered(s).acct /\ acfd[conn[c].srv] = ti
    BY <1>1, <1>2, <1>3, <1>6 DEF Fits
  <1>8. Expects(kind) \subseteq Waiting /\ "LOGIN" \notin Waiting
    BY KindFacts DEF Expects, Waiting
  <1>9. conn[c].acct \in Account /\ conn[c].rec.char = NoChar /\ conn[c].srv \in Server
    BY <1>1, <1>4, <1>7, <1>8 DEF ConnOK
  <1> QED
    BY <1>1, <1>2, <1>6, <1>7, <1>8, <1>9 DEF SlotsOK

(* Answers after which the connections C no longer wait.                   *)
LEMMA AnsweredInv ==
    ASSUME SessionInv, NEW s \in Server, NEW kind, Get(s, kind), NEW C \in SUBSET Asker(s),
           kind \in AsksKind \/ \A c \in C : conn[c].state = "WHILECREATE",
           Became(C, "NOTLOGIN"), down' = Consumed(s), UNCHANGED <<acfd, up, eof, saacVars>>
    PROVE  SessionInv'
  <1>1. TypeOK /\ LinesOK /\ SlotsOK /\ C \in SUBSET Conn
    BY InvFacts DEF Asker
  <1>2. /\ down' \in Queues /\ Moved(down, down', acfd[s], NoTi, Blank)
        /\ up' \in Queues /\ Moved(up, up', NoTi, NoTi, Blank) /\ UpKeepsUnused /\ NoTi \notin Ti
    BY <1>1, DownConsumed, UpSame, SessionAssumption DEF SessionAssumption
  <1>3. UNCHANGED <<acfd, eof, gs, lock, file, tasks>>
    BY DEF saacVars
  <1>4. \A c \in Conn : conn'[c] = IF c \in C THEN [conn[c] EXCEPT !.state = "NOTLOGIN"] ELSE conn[c]
    BY DEF Became
  <1>5. conn' \in [Conn -> ConnRecord]
    <2>1. \A r \in ConnRecord : [r EXCEPT !.state = "NOTLOGIN"] \in ConnRecord
      BY DEF ConnRecord
    <2>2. \A c \in Conn : conn[c] \in ConnRecord
      BY InvFacts
    <2> QED
      BY <2>1, <2>2 DEF Became
  <1>6. TypeOK'
    BY <1>1, <1>2, <1>3, <1>5 DEF TypeOK, Queues
  <1>7. ASSUME NEW c \in C
        PROVE  ConnOK(c)' /\ AskOK(c)'
    <2>1. c \in Conn /\ ConnOK(c) /\ AskOK(c) /\ Live(c) /\ conn[c] \in ConnRecord
      BY <1>1, InvFacts DEF Asker
    <2>2. conn[c].state # "LOGIN"
      <3>1. CASE kind \in AsksKind
        BY <3>1, AskerFacts DEF Waiting
      <3>2. CASE conn[c].state = "WHILECREATE"
        BY <3>2
      <3> QED
        BY <3>1, <3>2
    <2>3. conn'[c] = [conn[c] EXCEPT !.state = "NOTLOGIN"]
      BY <1>4, <2>1
    <2>4. ConnOK(c)'
      BY <1>1, <1>3, <2>1, <2>2, <2>3, ConnBecomes DEF Waiting
    <2>5. PICK D \in {{}, {<<acfd[s], 1>>}} : OnlyAt(c, {}, D, {})
      <3>1. CASE kind \in AsksKind
        BY <3>1, AskerFacts
      <3>2. CASE conn[c].state = "WHILECREATE"
        BY <1>1, <2>1, <3>2, NobodyAsks
      <3> QED
        BY <3>1, <3>2
    <2>6. {} \subseteq {<<NoTi, 1>>} /\ D \subseteq {<<acfd[s], 1>>} /\ {} \intersect tasks' = {}
      BY <2>5
    <2>7. tasks' \ tasks = {} /\ "up" \in {"up", "down", "task"}
      BY <1>3
    <2>8. conn'[c].state \notin Dead => acfd'[conn'[c].srv] \in Ti
      BY <2>4 DEF ConnOK, Live
    <2>9. AskOK(c)'
      BY <1>1, <1>2, <2>1, <2>5, <2>6, <2>7, <2>8, AskStep
    <2> QED
      BY <2>4, <2>9
  <1>8. \A c \in Conn \ C :
              /\ conn'[c] = conn[c] \/ conn'[c] = [conn[c] EXCEPT !.close = TRUE]
              /\ NoTi \in Ti => ~AsksFor(Blank, c)
              /\ \A t \in tasks' \ tasks : t.conn # c
    BY <1>2, <1>3, <1>4
  <1>9. \A t \in tasks' \ tasks : TaskOK(t)
    BY <1>3
  <1>10. UNCHANGED <<acfd, eof, gs>>
    BY <1>3
  <1> QED
    BY <1>1, <1>2, <1>6, <1>7, <1>8, <1>9, <1>10, StepInv

LEMMA GetLoadInv ==
    ASSUME SessionInv, NEW s \in Server, GetLoad(s)
    PROVE  SessionInv'
  <1> DEFINE m == Answered(s)
  <1>1. Get(s, "load") /\ m.flag /\ "load" \in AsksKind
    BY KindFacts DEF GetLoad
  <1>2. PICK c \in Asker(s) : conn' = [conn EXCEPT ![c].state = "LOGIN", ![c].rec = m.rec, ![c].slot = m.slot]
    BY DEF GetLoad
  <1>3. /\ c \in Conn /\ Live(c) /\ OnlyAt(c, {}, {<<acfd[s], 1>>}, {}) /\ conn[c].acct \in Account
        /\ conn[c].srv \in Server /\ acfd[conn[c].srv] = acfd[s]
    BY <1>1, AskerFacts
  <1>4. TypeOK /\ LinesOK /\ SlotsOK /\ ConnOK(c) /\ conn[c] \in ConnRecord
    BY <1>3, InvFacts
  <1>5. down' = Consumed(s) /\ UNCHANGED <<acfd, up, eof, gs, lock, file, tasks>>
    BY DEF GetLoad, GetQuietly, saacVars
  <1>6. /\ acfd[s] \in Ti /\ m \in Msg /\ DownLineOK(m) /\ m.kind = "load"
        /\ down' \in Queues /\ Moved(down, down', acfd[s], NoTi, Blank)
        /\ up' \in Queues /\ Moved(up, up', NoTi, NoTi, Blank) /\ UpKeepsUnused /\ NoTi \notin Ti
    BY <1>1, <1>4, <1>5, DownConsumed, UpSame, SessionAssumption DEF SessionAssumption
  <1>7. m.rec \in Record /\ m.rec.char \in Char /\ m.slot \in Slot /\ m.slot \in SaveIndex
    BY <1>1, <1>6, MsgFacts DEF DownLineOK
  <1> HIDE DEF m
  <1>8. /\ conn'[c] = [conn[c] EXCEPT !.state = "LOGIN", !.rec = m.rec, !.slot = m.slot]
        /\ \A d \in Conn : d # c => conn'[d] = conn[d]
    BY <1>2, <1>3, <1>4 DEF TypeOK
  <1>9. /\ conn'[c] \in ConnRecord /\ conn'[c].state = "LOGIN" /\ conn'[c].srv = conn[c].srv
        /\ conn'[c].acct = conn[c].acct /\ conn'[c].rec = m.rec /\ conn'[c].slot = m.slot
    BY <1>4, <1>7, <1>8 DEF ConnRecord
  <1>10. conn' \in [Conn -> ConnRecord]
    BY <1>2, <1>4, <1>9 DEF TypeOK
  <1>11. TypeOK'
    BY <1>4, <1>5, <1>6, <1>10 DEF TypeOK, Queues
  <1>12. ConnOK(c)'
    BY <1>3, <1>4, <1>5, <1>7, <1>9, SessionAssumption DEF ConnOK, Live, Dead, Waiting, SessionAssumption
  <1>13. AskOK(c)'
    <2>1. {} \subseteq {<<NoTi, 1>>} /\ {<<acfd[s], 1>>} \subseteq {<<acfd[s], 1>>} /\ {} \intersect tasks' = {}
      OBVIOUS
    <2>2. tasks' \ tasks = {} /\ "up" \in {"up", "down", "task"}
      BY <1>5
    <2>3. conn'[c].state \notin Dead => acfd'[conn'[c].srv] \in Ti
      BY <1>3, <1>5, <1>6, <1>9
    <2> QED
      BY <1>3, <1>4, <1>6, <2>1, <2>2, <2>3, AskStep
  <1>14. (\A t \in tasks' \ tasks : TaskOK(t) /\ t.conn = c) /\ UNCHANGED <<acfd, eof, gs>>
    BY <1>5
  <1> QED
    BY <1>3, <1>6, <1>8, <1>11, <1>12, <1>13, <1>14, OneInv

(* The lock is given back, or the request to is repeated.                  *)
UnlockLine(c) == Line("unlock", c, conn[c].acct, Blank, NewSlot, FALSE)

LEMMA UnlockLineFacts ==
    ASSUME NEW c \in Conn, conn[c].acct \in Account
    PROVE  /\ UnlockLine(c) \in Msg /\ UpLineOK(UnlockLine(c)) /\ UnlockLine(c).kind = "unlock"
           /\ UnlockLine(c).conn = c /\ UnlockLine(c).acct = conn[c].acct
  <1> DEFINE m == UnlockLine(c)
  <1>1. m.kind = "unlock" /\ m.conn = c /\ m.acct = conn[c].acct
    BY DEF UnlockLine, Line
  <1>2. "unlock" \in Kind /\ FALSE \in BOOLEAN
    BY KindFacts
  <1>3. m \in Msg
    BY <1>2, BlankFacts, LineType DEF UnlockLine
  <1> HIDE DEF m
  <1>4. UpLineOK(m)
    BY <1>1 DEF UpLineOK, GMKind
  <1> QED
    BY <1>1, <1>3, <1>4 DEF m

UnlockSent(s, c, r) ==
    /\ conn' = [conn EXCEPT ![c] = r]
    /\ up' = [up EXCEPT ![acfd[s]] = Append(@, UnlockLine(c))]
    /\ down' = Consumed(s)
    /\ UNCHANGED <<acfd, eof, saacVars>>

LEMMA UnlockSentInv ==
    ASSUME SessionInv, NEW s \in Server, NEW kind \in AsksKind, Get(s, kind), NEW c \in Asker(s),
           NEW r \in ConnRecord, UnlockSent(s, c, r),
           r.state = "WHILECANNOTLOGIN", r.srv = conn[c].srv, r.acct = conn[c].acct, r.rec.char = NoChar
    PROVE  SessionInv'
  <1> DEFINE m == UnlockLine(c)
  <1>1. /\ c \in Conn /\ Live(c) /\ OnlyAt(c, {}, {<<acfd[s], 1>>}, {}) /\ conn[c].acct \in Account
        /\ conn[c].srv \in Server /\ acfd[conn[c].srv] = acfd[s]
    BY AskerFacts
  <1>2. TypeOK /\ LinesOK /\ SlotsOK /\ ConnOK(c) /\ conn[c] \in ConnRecord
    BY <1>1, InvFacts
  <1>3. m \in Msg /\ UpLineOK(m) /\ m.kind = "unlock" /\ m.conn = c /\ m.acct = conn[c].acct
    BY <1>1, UnlockLineFacts
  <1>4. UNCHANGED <<acfd, eof, gs, lock, file, tasks>>
    BY DEF UnlockSent, saacVars
  <1> HIDE DEF m
  <1>5. /\ acfd[s] \in Ti /\ acfd[s] # NoTi
        /\ down' \in Queues /\ Moved(down, down', acfd[s], NoTi, Blank) /\ NoTi \notin Ti
    BY <1>2, DownConsumed, SessionAssumption DEF UnlockSent, SessionAssumption
  <1>6. up' \in Queues /\ Moved(up, up', NoTi, acfd[s], m) /\ UpKeepsUnused
    BY <1>2, <1>3, <1>5, UpAppended DEF UnlockSent, m
  <1>7. conn'[c] = r /\ (\A d \in Conn : d # c => conn'[d] = conn[d]) /\ conn' \in [Conn -> ConnRecord]
    BY <1>1, <1>2 DEF UnlockSent, TypeOK
  <1>8. TypeOK'
    BY <1>2, <1>4, <1>5, <1>6, <1>7 DEF TypeOK, Queues
  <1>9. ConnOK(c)'
    BY <1>1, <1>2, <1>4, <1>7 DEF ConnOK, Live, Dead, Waiting
  <1>10. AskOK(c)'
    <2>1. {} \subseteq {<<NoTi, 1>>} /\ {<<acfd[s], 1>>} \subseteq {<<acfd[s], 1>>} /\ {} \intersect tasks' = {}
      OBVIOUS
    <2>2. tasks' \ tasks = {} /\ "up" \in {"up", "down", "task"}
      BY <1>4
    <2>3. conn'[c].state \notin Dead => acfd'[conn'[c].srv] \in Ti
      BY <1>1, <1>4, <1>5, <1>7
    <2>4. FitsNext(m, c, acfd[s])
      BY <1>1, <1>3, <1>4, <1>7 DEF FitsNext, Expects
    <2>5. c \in Conn /\ OnlyAt(c, {}, {<<acfd[s], 1>>}, {}) /\ TypeOK
      BY <1>1, <1>2
    <2> QED
      BY <1>5, <1>6, <2>1, <2>2, <2>3, <2>4, <2>5, AskStep
  <1>11. (\A t \in tasks' \ tasks : TaskOK(t) /\ t.conn = c) /\ UNCHANGED <<acfd, eof, gs>>
    BY <1>4
  <1>12. /\ acfd[s] \in Ti => UpLineOK(m) /\ m.kind # "login"
         /\ acfd[s] \in Ti /\ m.kind \in AsksKind => m.conn = c
         /\ c \in Conn
    BY <1>1, <1>3
  <1> QED
    BY <1>5, <1>6, <1>7, <1>8, <1>9, <1>10, <1>11, <1>12, OneInv

LEMMA GetLoadUnusableInv ==
    ASSUME SessionInv, NEW s \in Server, GetLoadUnusable(s)
    PROVE  SessionInv'
  <1>1. Get(s, "load") /\ "load" \in AsksKind
    BY KindFacts DEF GetLoadUnusable
  <1>2. PICK c \in Asker(s) :
          /\ conn' = [conn EXCEPT ![c].state = "WHILECANNOTLOGIN", ![c].rec = Blank]
          /\ up' = [up EXCEPT ![acfd[s]] = Append(@, UnlockLine(c))]
    BY DEF GetLoadUnusable, UnlockLine
  <1>3. c \in Conn /\ conn[c] \in ConnRecord /\ TypeOK
    BY InvFacts DEF Asker
  <1> DEFINE r == [conn[c] EXCEPT !.state = "WHILECANNOTLOGIN", !.rec = Blank]
  <1>4. /\ r \in ConnRecord /\ r.state = "WHILECANNOTLOGIN" /\ r.srv = conn[c].srv
        /\ r.acct = conn[c].acct /\ r.rec.char = NoChar
    BY <1>3, BlankFacts DEF ConnRecord, Waiting
  <1>5. conn' = [conn EXCEPT ![c] = r]
    BY <1>2, <1>3 DEF TypeOK
  <1> HIDE DEF r
  <1>6. down' = Consumed(s) /\ UNCHANGED <<acfd, eof, saacVars>>
    BY DEF GetLoadUnusable
  <1> QED
    BY <1>1, <1>2, <1>4, <1>5, <1>6, UnlockSentInv DEF UnlockSent

LEMMA GetUnlockedInv ==
    ASSUME SessionInv, NEW s \in Server, GetUnlocked(s)
    PROVE  SessionInv'
  <1> DEFINE waiting == {c \in Asker(s) : conn[c].state = "WHILECANNOTLOGIN"}
  <1>1. Get(s, "unlock") /\ "unlock" \in AsksKind /\ down' = Consumed(s) /\ UNCHANGED <<acfd, eof, saacVars>>
    BY KindFacts DEF GetUnlocked
  <1>2. CASE Became(waiting, "NOTLOGIN") /\ UNCHANGED up
    <2>1. waiting \in SUBSET Asker(s)
      OBVIOUS
    <2> HIDE DEF waiting
    <2> QED
      BY <1>1, <1>2, <2>1, AnsweredInv
  <1>3. CASE \E c \in waiting : up' = [up EXCEPT ![acfd[s]] = Append(@, UnlockLine(c))] /\ UNCHANGED conn
    <2>1. PICK c \in waiting : up' = [up EXCEPT ![acfd[s]] = Append(@, UnlockLine(c))] /\ UNCHANGED conn
      BY <1>3
    <2>2. c \in Asker(s) /\ conn[c].state = "WHILECANNOTLOGIN" /\ conn[c] \in ConnRecord /\ TypeOK
      BY InvFacts DEF Asker
    <2> HIDE DEF waiting
    <2>3. conn[c].rec.char = NoChar
      <3>1. c \in Conn /\ conn[c].state # "LOGIN"
        BY <2>2 DEF Asker
      <3>2. ConnOK(c)
        BY <3>1, InvFacts
      <3> QED
        BY <3>1, <3>2 DEF ConnOK
    <2>4. conn' = [conn EXCEPT ![c] = conn[c]]
      BY <2>1, <2>2 DEF TypeOK
    <2>5. UnlockSent(s, c, conn[c])
      BY <1>1, <2>1, <2>4 DEF UnlockSent
    <2> QED
      BY <1>1, <2>2, <2>3, <2>5, UnlockSentInv
  <1> QED
    BY <1>2, <1>3 DEF GetUnlocked, UnlockLine

(* Lines that are nobody's answers.                                        *)
LEMMA GetKickInv ==
    ASSUME SessionInv, NEW s \in Server, GetKick(s)
    PROVE  SessionInv'
  <1>1. /\ TypeOK /\ LinesOK /\ SlotsOK /\ Get(s, "kick") /\ down' = Consumed(s)
        /\ UNCHANGED <<acfd, up, eof, gs, lock, file, tasks>>
    BY InvFacts DEF GetKick, GetQuietly, saacVars
  <1>2. /\ down' \in Queues /\ Moved(down, down', acfd[s], NoTi, Blank)
        /\ up' \in Queues /\ Moved(up, up', NoTi, NoTi, Blank) /\ UpKeepsUnused /\ NoTi \notin Ti
    BY <1>1, DownConsumed, UpSame, SessionAssumption DEF SessionAssumption
  <1>3. \A c \in Conn : conn'[c] = conn[c] \/ conn'[c] = [conn[c] EXCEPT !.close = TRUE]
    BY DEF GetKick
  <1>4. \A r \in ConnRecord : [r EXCEPT !.close = TRUE] \in ConnRecord
    BY DEF ConnRecord
  <1>5. conn' \in [Conn -> ConnRecord]
    <2>1. \A c \in Conn : conn[c] \in ConnRecord
      BY InvFacts
    <2> QED
      BY <1>4, <2>1 DEF GetKick
  <1>6. TypeOK'
    BY <1>1, <1>2, <1>5 DEF TypeOK, Queues
  <1> QED
    BY <1>1, <1>2, <1>3, <1>6, QuietInv

LEMMA GetUCheckInv ==
    ASSUME SessionInv, NEW s \in Server, GetUCheck(s)
    PROVE  SessionInv'
  <1>1. /\ TypeOK /\ LinesOK /\ SlotsOK /\ Get(s, "ucheck") /\ down' = Consumed(s)
        /\ UNCHANGED <<acfd, conn, eof, gs, lock, file, tasks>>
    BY InvFacts DEF GetUCheck, saacVars
  <1>2. PICK playing \in BOOLEAN : up' = [up EXCEPT ![acfd[s]] =
                     Append(@, Line("ucheck", NoConn, Answered(s).acct, Blank, NewSlot, playing))]
    BY DEF GetUCheck
  <1> DEFINE m == Line("ucheck", NoConn, Answered(s).acct, Blank, NewSlot, playing)
  <1>3. /\ acfd[s] \in Ti /\ acfd[s] # NoTi /\ Answered(s) \in Msg
        /\ down' \in Queues /\ Moved(down, down', acfd[s], NoTi, Blank) /\ NoTi \notin Ti
    BY <1>1, DownConsumed, SessionAssumption DEF SessionAssumption
  <1>4. m \in Msg /\ m.kind = "ucheck"
    <2>1. "ucheck" \in Kind /\ NoConn \in Conn \union {NoConn} /\ Answered(s).acct \in Account \union {NoAccount}
      BY <1>3, KindFacts, MsgFacts
    <2>2. m \in Msg
      BY <2>1, LineType, BlankFacts
    <2> QED
      BY <2>2 DEF Line
  <1>5. UpLineOK(m) /\ m.kind \notin {"login"} \union AsksKind
    BY <1>4, KindFacts DEF UpLineOK, GMKind
  <1>6. up' = [up EXCEPT ![acfd[s]] = Append(@, m)]
    BY <1>2
  <1> HIDE DEF m
  <1>7. up' \in Queues /\ Moved(up, up', NoTi, acfd[s], m) /\ UpKeepsUnused
    BY <1>1, <1>3, <1>4, <1>6, UpAppended
  <1>8. TypeOK'
    BY <1>1, <1>3, <1>7 DEF TypeOK, Queues
  <1> QED
    BY <1>1, <1>3, <1>5, <1>7, <1>8, QuietInv

-----------------------------------------------------------------------------
(* Servers come and go.                                                    *)
(* A connection that the step does not concern, where acfd or gs change.   *)
LEMMA OthersInv ==
    ASSUME SessionInv, TypeOK', SlotsOK',
           NEW ts, NEW t0, NEW m, Moved(up, up', ts, t0, m), t0 \in Ti => UpLineOK(m) /\ m.kind \notin AsksKind,
           NEW us, NEW u0, NEW n, Moved(down, down', us, u0, n), u0 \in Ti => n.kind \notin AsksKind,
           UNCHANGED tasks,
           \A c \in Conn : \/ conn'[c] = Idle("ended", NoServer)
                           \/ /\ conn'[c] = conn[c]
                              /\ Live(c) => LET z == conn[c].srv
                                            IN  acfd'[z] = acfd[z] /\ gs'[acfd[z]].name \in {gs[acfd[z]].name, z}
    PROVE  SessionInv'
  <1>1. TypeOK /\ LinesOK
    BY InvFacts
  <1>2. up' \in Queues /\ down' \in Queues
    BY DEF TypeOK, Queues
  <1>3. LinesOK'
    <2>1. \A ti \in Ti : \A i \in DOMAIN up'[ti] : UpLineOK(up'[ti][i])
      BY <1>1, UpLinesKeep
    <2>2. u0 \in Ti => DownLineOK(n)
      BY KindFacts DEF DownLineOK
    <2>3. \A ti \in Ti : \A i \in DOMAIN down'[ti] : DownLineOK(down'[ti][i])
      BY <1>1, <2>2, DownLinesKeep
    <2> QED
      BY <1>1, <2>1, <2>3 DEF LinesOK
  <1>4. ASSUME NEW c \in Conn
        PROVE  ConnOK(c)' /\ AskOK(c)'
    <2>1. CASE conn'[c] = Idle("ended", NoServer)
      <3>1. conn'[c].state = "ended"
        BY <2>1 DEF Idle
      <3> QED
        BY <2>1, <3>1, ConnEnded, EndedAsks
    <2>2. CASE /\ conn'[c] = conn[c]
               /\ Live(c) => LET z == conn[c].srv
                             IN  acfd'[z] = acfd[z] /\ gs'[acfd[z]].name \in {gs[acfd[z]].name, z}
      <3>1. ConnOK(c) /\ AskOK(c)
        BY InvFacts
      <3>2. Live(c) => acfd'[conn[c].srv] = acfd[conn[c].srv] /\ acfd[conn[c].srv] \in Ti
        BY <2>2, <3>1 DEF ConnOK
      <3>3. ConnOK(c)'
        BY <2>2, <3>1 DEF ConnOK, Live
      <3>4. /\ t0 \in Ti => ~AsksFor(m, c)
            /\ u0 \in Ti => ~AsksFor(n, c)
            /\ \A t \in tasks' : t.conn = c => t \in tasks
            /\ conn'[c].state = conn[c].state /\ conn'[c].srv = conn[c].srv /\ conn'[c].acct = conn[c].acct
        BY <2>2 DEF AsksFor
      <3>5. AskOK(c)'
        BY <1>1, <1>2, <3>1, <3>2, <3>4, AskKeep
      <3> QED
        BY <3>3, <3>5
    <2> QED
      BY <2>1, <2>2
  <1> QED
    BY <1>3, <1>4 DEF SessionInv, Base, ConnsOK, Asking

LEMMA ProcessGoneInv ==
    ASSUME SessionInv, NEW s \in Server, acfd[s] # NoTi, ProcessGone(s)
    PROVE  SessionInv'
  <1> DEFINE ti == acfd[s]
  <1>1. TypeOK /\ LinesOK /\ SlotsOK /\ ConnsOK
    BY InvFacts
  <1>2. ti \in Ti /\ gs[ti].use /\ NoTi \notin Ti
    BY <1>1, SlotFacts, SessionAssumption DEF SessionAssumption
  <1>3. /\ acfd' = [acfd EXCEPT ![s] = NoTi] /\ eof' = [eof EXCEPT ![ti] = TRUE]
        /\ UNCHANGED <<gs, lock, file, tasks>> /\ down' = [down EXCEPT ![ti] = <<>>]
        /\ conn' = [c \in Conn |-> IF Live(c) /\ conn[c].srv = s THEN Idle("ended", NoServer) ELSE conn[c]]
    BY DEF ProcessGone, saacVars
  <1>4. PICK k \in 0 .. Len(up[ti]) : up' = [up EXCEPT ![ti] = SubSeq(@, 1, k)]
    BY DEF ProcessGone
  <1> HIDE DEF ti
  <1>5. up \in Queues /\ down \in Queues
    BY <1>1 DEF TypeOK, Queues
  <1>6. up' \in Queues /\ Moved(up, up', NoTi, NoTi, Blank)
    BY <1>2, <1>4, <1>5, MovedPrefix
  <1>7. down' \in Queues /\ Moved(down, down', NoTi, NoTi, Blank)
    BY <1>2, <1>3, <1>5, MovedEmpty
  <1>8. Idle("ended", NoServer) \in ConnRecord
    BY BlankFacts DEF Idle, ConnRecord, Dead
  <1>9. conn' \in [Conn -> ConnRecord]
    BY <1>1, <1>3, <1>8 DEF TypeOK
  <1>10. TypeOK'
    <2>1. acfd' \in [Server -> Ti \union {NoTi}] /\ eof' \in [Ti -> BOOLEAN]
      BY <1>1, <1>3 DEF TypeOK
    <2> QED
      BY <1>1, <1>3, <1>6, <1>7, <1>9, <2>1 DEF TypeOK, Queues
  <1>11. /\ \A z \in Server : acfd'[z] = IF z = s THEN NoTi ELSE acfd[z]
         /\ \A t \in Ti : eof'[t] = (t = ti \/ eof[t])
         /\ \A t \in Ti : t # ti => up'[t] = up[t]
         /\ \A z \in Server : z # s /\ acfd[z] # NoTi => acfd[z] # ti /\ acfd[z] \in Ti
    <2>1. up' = [up EXCEPT ![ti] = SubSeq(up[ti], 1, k)]
      BY <1>4
    <2>2. \A z \in Server : z # s /\ acfd[z] # NoTi => acfd[z] # ti /\ acfd[z] \in Ti
      BY <1>1, <1>2 DEF TypeOK, SlotsOK, ti
    <2>3. \A t \in Ti : t # ti => up'[t] = up[t]
      BY <1>5, <2>1 DEF Queues
    <2>4. \A t \in Ti : eof'[t] = (t = ti \/ eof[t])
      BY <1>1, <1>3 DEF TypeOK
    <2>5. \A z \in Server : acfd'[z] = IF z = s THEN NoTi ELSE acfd[z]
      BY <1>1, <1>3 DEF TypeOK
    <2> QED
      BY <2>2, <2>3, <2>4, <2>5
  <1>12. SlotsOK'
    <2>1. \A t \in Ti : ~gs'[t].use => gs'[t].name = NoServer /\ up'[t] = <<>> /\ ~eof'[t]
      BY <1>1, <1>2, <1>3, <1>11 DEF SlotsOK
    <2>2. ASSUME NEW t \in Ti, NEW i \in DOMAIN up'[t], up'[t][i].kind = "login"
          PROVE  i = 1 /\ gs'[t].name = NoServer /\ (eof'[t] \/ acfd'[up'[t][i].srv] = t)
      <3>1. i \in DOMAIN up[t] /\ up'[t][i] = up[t][i]
        BY <1>2, <1>6, <2>2 DEF Moved, Kept, Notice
      <3>2. i = 1 /\ gs[t].name = NoServer /\ (eof[t] \/ acfd[up[t][i].srv] = t) /\ UpLineOK(up[t][i])
        BY <1>1, <2>2, <3>1 DEF SlotsOK, LinesOK
      <3>3. up[t][i].srv \in Server
        BY <2>2, <3>1, <3>2 DEF UpLineOK
      <3>4. gs'[t].name = NoServer
        BY <1>3, <3>2
      <3>5. CASE t = ti
        BY <1>11, <3>2, <3>4, <3>5
      <3>6. CASE t # ti
        <4>1. eof[t] => eof'[t]
          BY <1>11, <3>6
        <4>2. acfd[up[t][i].srv] = t => up[t][i].srv # s
          BY <3>6 DEF ti
        <4>3. acfd[up[t][i].srv] = t => acfd'[up[t][i].srv] = t
          BY <1>11, <3>3, <4>2
        <4> QED
          BY <3>1, <3>2, <3>4, <4>1, <4>3
      <3> QED
        BY <3>5, <3>6
    <2>3. \A z \in Server : acfd'[z] # NoTi => /\ gs'[acfd'[z]].use /\ ~eof'[acfd'[z]]
                                              /\ gs'[acfd'[z]].name \in {z, NoServer}
      BY <1>1, <1>3, <1>11 DEF SlotsOK
    <2>4. \A z, y \in Server : acfd'[z] # NoTi /\ acfd'[z] = acfd'[y] => z = y
      BY <1>1, <1>11 DEF SlotsOK
    <2>5. \A t, u \in Ti : gs'[t].name # NoServer /\ gs'[t].name = gs'[u].name => t = u
      BY <1>1, <1>3 DEF SlotsOK
    <2> QED
      BY <2>1, <2>2, <2>3, <2>4, <2>5 DEF SlotsOK
  <1>13. ASSUME NEW c \in Conn, conn'[c] # Idle("ended", NoServer)
         PROVE  /\ conn'[c] = conn[c]
                /\ Live(c) => LET z == conn[c].srv
                              IN  acfd'[z] = acfd[z] /\ gs'[acfd[z]].name \in {gs[acfd[z]].name, z}
    BY <1>1, <1>3, <1>11, <1>13 DEF ConnsOK, ConnOK
  <1>14. UNCHANGED tasks
    BY <1>3
  <1> QED
    BY <1>2, <1>6, <1>7, <1>10, <1>12, <1>13, <1>14, OthersInv

LEMMA StartServerInv ==
    ASSUME SessionInv, NEW s \in Server, NEW ti \in Ti, StartServer(s, ti)
    PROVE  SessionInv'
  <1> DEFINE m == ServerLine(s, TRUE)
  <1>1. TypeOK /\ LinesOK /\ SlotsOK /\ ConnsOK /\ acfd[s] = NoTi /\ ~gs[ti].use /\ NoTi \notin Ti
    BY InvFacts, SessionAssumption DEF StartServer, SessionAssumption
  <1>2. /\ m \in Msg /\ m.kind = "login" /\ m.srv = s
    BY BlankFacts, KindFacts DEF ServerLine, Msg
  <1>3. /\ acfd' = [acfd EXCEPT ![s] = ti] /\ gs' = [gs EXCEPT ![ti].use = TRUE]
        /\ up' = [up EXCEPT ![ti] = <<m>>] /\ down' = [down EXCEPT ![ti] = <<>>]
        /\ UNCHANGED <<conn, eof, lock, file, tasks>>
    BY DEF StartServer
  <1>4. UpLineOK(m) /\ m.kind \notin AsksKind
    <2> HIDE DEF m
    <2> QED
      BY <1>2, KindFacts DEF UpLineOK, GMKind
  <1> HIDE DEF m
  <1>5. up[ti] = <<>> /\ gs[ti].name = NoServer /\ ~eof[ti] /\ up \in Queues /\ down \in Queues
    BY <1>1 DEF SlotsOK, TypeOK, Queues
  <1>6. \A t \in Ti : up'[t] = IF t = ti THEN <<m>> ELSE up[t]
    BY <1>3, <1>5 DEF Queues
  <1>7. <<m>> \in Seq(Msg) /\ DOMAIN <<m>> = {1} /\ <<m>>[1] = m
    BY <1>2
  <1>8. up' \in Queues
    BY <1>3, <1>5, <1>7 DEF Queues
  <1>9. Moved(up, up', NoTi, ti, m)
    <2>1. Len(up[ti]) = 0
      BY <1>5
    <2> SUFFICES ASSUME NEW t \in Ti, NEW i \in DOMAIN up'[t]
                 PROVE  \/ Kept(up, up', NoTi, t, i)
                        \/ t = ti /\ i = Len(up[ti]) + 1 /\ up'[t][i] = m
      BY DEF Moved
    <2>2. CASE t = ti
      BY <1>6, <1>7, <2>1, <2>2
    <2>3. CASE t # ti
      BY <1>1, <1>6, <2>3 DEF Kept
    <2> QED
      BY <2>2, <2>3
  <1>10. down' \in Queues /\ Moved(down, down', NoTi, NoTi, Blank)
    BY <1>3, <1>5, MovedEmpty
  <1>11. /\ \A z \in Server : acfd'[z] = IF z = s THEN ti ELSE acfd[z]
         /\ \A t \in Ti : gs'[t].name = gs[t].name /\ (gs'[t].use <=> t = ti \/ gs[t].use)
         /\ \A z \in Server : acfd[z] # NoTi => acfd[z] # ti /\ acfd[z] \in Ti
    <2>1. \A z \in Server : acfd'[z] = IF z = s THEN ti ELSE acfd[z]
      BY <1>1, <1>3 DEF TypeOK
    <2>2. \A t \in Ti : gs'[t].name = gs[t].name /\ (gs'[t].use <=> t = ti \/ gs[t].use)
      BY <1>1, <1>3 DEF TypeOK
    <2>3. \A z \in Server : acfd[z] # NoTi => acfd[z] # ti /\ acfd[z] \in Ti
      BY <1>1 DEF TypeOK, SlotsOK
    <2> QED
      BY <2>1, <2>2, <2>3
  <1>12. TypeOK'
    <2>1. acfd' \in [Server -> Ti \union {NoTi}]
      BY <1>1, <1>3 DEF TypeOK
    <2>2. gs' \in [Ti -> [use : BOOLEAN, name : Server \union {NoServer}]]
      BY <1>1, <1>3 DEF TypeOK
    <2> QED
      BY <1>1, <1>3, <1>8, <1>10, <2>1, <2>2 DEF TypeOK, Queues
  <1>13. SlotsOK'
    <2>1. \A t \in Ti : ~gs'[t].use => gs'[t].name = NoServer /\ up'[t] = <<>> /\ ~eof'[t]
      BY <1>1, <1>3, <1>6, <1>11 DEF SlotsOK
    <2>2. ASSUME NEW t \in Ti, NEW i \in DOMAIN up'[t], up'[t][i].kind = "login"
          PROVE  i = 1 /\ gs'[t].name = NoServer /\ (eof'[t] \/ acfd'[up'[t][i].srv] = t)
      <3>1. CASE t = ti
        BY <1>2, <1>5, <1>6, <1>7, <1>11, <3>1
      <3>2. CASE t # ti
        <4>1. i \in DOMAIN up[t] /\ up'[t][i] = up[t][i]
          BY <1>6, <3>2
        <4>2. i = 1 /\ gs[t].name = NoServer /\ (eof[t] \/ acfd[up[t][i].srv] = t) /\ UpLineOK(up[t][i])
          BY <1>1, <2>2, <4>1 DEF SlotsOK, LinesOK
        <4>3. up[t][i].srv \in Server
          BY <2>2, <4>1, <4>2 DEF UpLineOK
        <4> QED
          BY <1>1, <1>3, <1>11, <4>1, <4>2, <4>3
      <3> QED
        BY <3>1, <3>2
    <2>3. \A z \in Server : acfd'[z] # NoTi => /\ gs'[acfd'[z]].use /\ ~eof'[acfd'[z]]
                                              /\ gs'[acfd'[z]].name \in {z, NoServer}
      BY <1>1, <1>3, <1>5, <1>11 DEF SlotsOK
    <2>4. \A z, y \in Server : acfd'[z] # NoTi /\ acfd'[z] = acfd'[y] => z = y
      BY <1>1, <1>11 DEF SlotsOK
    <2>5. \A t, u \in Ti : gs'[t].name # NoServer /\ gs'[t].name = gs'[u].name => t = u
      BY <1>1, <1>11 DEF SlotsOK
    <2> QED
      BY <2>1, <2>2, <2>3, <2>4, <2>5 DEF SlotsOK
  <1>14. ASSUME NEW c \in Conn
         PROVE  /\ conn'[c] = conn[c]
                /\ Live(c) => LET z == conn[c].srv
                              IN  acfd'[z] = acfd[z] /\ gs'[acfd[z]].name \in {gs[acfd[z]].name, z}
    <2>1. ConnOK(c)
      BY <1>1 DEF ConnsOK
    <2> QED
      BY <1>1, <1>3, <1>11, <2>1 DEF ConnOK
  <1>15. UNCHANGED tasks
    BY <1>3
  <1> QED
    BY <1>1, <1>4, <1>9, <1>10, <1>12, <1>13, <1>14, <1>15, OthersInv

LEMMA GmsvInv ==
    ASSUME SessionInv, NEW s \in Server, GmsvReads(s)
    PROVE  SessionInv'
  <1>1. CASE GetRefusal(s)
    BY <1>1, ProcessGoneInv DEF GetRefusal, Get
  <1>2. CASE GetList(s) \/ GetLoadFailed(s)
    <2>1. Asker(s) \in SUBSET Asker(s)
      OBVIOUS
    <2> QED
      BY <1>2, <2>1, AnsweredInv, KindFacts DEF GetList, GetLoadFailed, GetQuietly
  <1>3. CASE GetSaved(s)
    <2> DEFINE C == {c \in Asker(s) : conn[c].state = "WHILECREATE"}
    <2>1. C \in SUBSET Asker(s) /\ \A c \in C : conn[c].state = "WHILECREATE"
      OBVIOUS
    <2>2. Get(s, "save") /\ Became(C, "NOTLOGIN") /\ GetQuietly(s)
      BY <1>3 DEF GetSaved
    <2> HIDE DEF C
    <2> QED
      BY <2>1, <2>2, AnsweredInv DEF GetQuietly
  <1>4. CASE GetDeleted(s)
    <2> DEFINE C == {c \in Asker(s) : conn[c].state = "WHILECHARDELETE"}
    <2>1. C \in SUBSET Asker(s) /\ "delete" \in AsksKind
      BY KindFacts
    <2>2. Get(s, "delete") /\ Became(C, "NOTLOGIN") /\ GetQuietly(s)
      BY <1>4 DEF GetDeleted
    <2> HIDE DEF C
    <2> QED
      BY <2>1, <2>2, AnsweredInv DEF GetQuietly
  <1> QED
    BY <1>1, <1>2, <1>3, <1>4, GetLoadInv, GetLoadUnusableInv, GetUnlockedInv, GetKickInv, GetUCheckInv
       DEF GmsvReads

-----------------------------------------------------------------------------
(* SAAC reads.                                                             *)
LockType == [Account -> Server \union {NoServer, Free}]
FileType == [Account -> [Slot -> Record]]

LEMMA ReleasedType == TypeOK => \A s : Released(s) \in LockType
  BY DEF TypeOK, Released, LockType

LEMMA ReadFacts ==
    ASSUME SessionInv, NEW ti \in Ti, NEW kinds, ReadsOneOf(ti, kinds), up' = Tidied(ti), NEW m
    PROVE  /\ TypeOK /\ LinesOK /\ SlotsOK /\ NoTi \notin Ti
           /\ up' \in Queues /\ Moved(up, up', ti, NoTi, m) /\ UpKeepsUnused
           /\ gs[ti].use /\ 1 \in DOMAIN up[ti] /\ Read(ti) = up[ti][1]
           /\ Read(ti) \in Msg /\ UpLineOK(Read(ti)) /\ Read(ti).kind \in kinds
  BY InvFacts, UpTidied, SessionAssumption DEF SessionAssumption

LEMMA RefusedLoginInv ==
    ASSUME SessionInv, NEW ti \in Ti, Reads(ti, "login"), up' = Tidied(ti),
           Post(To(ti, ServerLine(Read(ti).srv, FALSE))), UNCHANGED <<gs, lock, gmsvVars, eof, file, tasks>>
    PROVE  SessionInv'
  <1> DEFINE n == ServerLine(Read(ti).srv, FALSE)
  <1>1. ReadsOneOf(ti, {"login"})
    BY DEF Reads
  <1>2. /\ TypeOK /\ NoTi \notin Ti /\ Read(ti) \in Msg
        /\ up' \in Queues /\ Moved(up, up', ti, NoTi, Blank) /\ UpKeepsUnused
    BY <1>1, ReadFacts
  <1>3. n \in Msg /\ n.kind = "login"
    BY <1>2, BlankFacts, KindFacts, MsgFacts DEF ServerLine, Msg
  <1>4. down' \in Queues /\ Moved(down, down', NoTi, ti, n)
    BY <1>2, <1>3, PostTo
  <1>5. n.kind \notin AsksKind
    BY <1>3, KindFacts
  <1> HIDE DEF n
  <1>6. UNCHANGED <<acfd, conn, eof, gs, lock, file, tasks>>
    BY DEF gmsvVars
  <1>7. TypeOK'
    BY <1>2, <1>4, <1>6 DEF TypeOK, Queues
  <1> QED
    BY <1>2, <1>4, <1>5, <1>6, <1>7, QuietInv

LEMMA GrantedLoginInv ==
    ASSUME SessionInv, NEW ti \in Ti, Reads(ti, "login"), up' = Tidied(ti),
           ~ \E t \in Ti : gs[t].use /\ gs[t].name = Read(ti).srv,
           gs' = [gs EXCEPT ![ti].name = Read(ti).srv], lock' = Released(Read(ti).srv),
           UNCHANGED <<down, gmsvVars, eof, file, tasks>>
    PROVE  SessionInv'
  <1> DEFINE s == Read(ti).srv
  <1>1. ReadsOneOf(ti, {"login"})
    BY DEF Reads
  <1>2. /\ TypeOK /\ LinesOK /\ SlotsOK /\ NoTi \notin Ti
        /\ up' \in Queues /\ Moved(up, up', ti, NoTi, Blank)
        /\ gs[ti].use /\ 1 \in DOMAIN up[ti] /\ Read(ti) = up[ti][1]
        /\ UpLineOK(Read(ti)) /\ Read(ti).kind = "login"
    BY <1>1, ReadFacts
  <1>3. s \in Server /\ s # NoServer
    BY <1>2, SessionAssumption DEF UpLineOK, SessionAssumption
  <1>4. gs[ti].name = NoServer /\ (eof[ti] \/ acfd[s] = ti)
    BY <1>2 DEF SlotsOK
  <1>5. \A z \in Server : acfd[z] = ti => z = s
    BY <1>2, <1>3, <1>4 DEF SlotsOK
  <1>6. UNCHANGED <<acfd, conn, down, eof, file, tasks>>
    BY DEF gmsvVars
  <1>7. \A t \in Ti : gs'[t].use = gs[t].use /\ gs'[t].name = IF t = ti THEN s ELSE gs[t].name
    BY <1>2 DEF TypeOK
  <1>8. gs' \in [Ti -> [use : BOOLEAN, name : Server \union {NoServer}]]
    BY <1>2, <1>3 DEF TypeOK
  <1>9. \A t \in Ti : gs[t].name # s
    BY <1>2, <1>3 DEF SlotsOK
  <1>10. \A t \in Ti : t # ti => up'[t] = up[t]
    BY <1>2 DEF Tidied, TypeOK
  <1> HIDE DEF s
  <1>11. TypeOK'
    <2>1. lock' \in LockType
      BY <1>2, ReleasedType
    <2>2. down' \in [Ti -> Seq(Msg)]
      BY <1>2, <1>6 DEF TypeOK
    <2> QED
      BY <1>2, <1>6, <1>8, <2>1, <2>2 DEF TypeOK, LockType, Queues
  <1>12. SlotsOK'
    <2>1. \A t \in Ti : ~gs'[t].use => gs'[t].name = NoServer /\ up'[t] = <<>> /\ ~eof'[t]
      BY <1>2, <1>6, <1>7, <1>10 DEF SlotsOK
    <2>2. ASSUME NEW t \in Ti, NEW i \in DOMAIN up'[t], up'[t][i].kind = "login"
          PROVE  i = 1 /\ gs'[t].name = NoServer /\ (eof'[t] \/ acfd'[up'[t][i].srv] = t)
      <3>1. CASE t = ti
        <4>1. up'[t] \in Seq(Msg)
          BY <1>2 DEF Queues
        <4>2. i \in Nat \ {0}
          BY <4>1, SeqFacts
        <4>3. i + 1 \in DOMAIN up[t] /\ up'[t][i] = up[t][i + 1]
          BY <1>2, <2>2, <3>1 DEF Moved, Kept, Notice
        <4> QED
          BY <1>2, <2>2, <4>2, <4>3 DEF SlotsOK
      <3>2. CASE t # ti
        BY <1>2, <1>6, <1>7, <1>10, <2>2, <3>2 DEF SlotsOK
      <3> QED
        BY <3>1, <3>2
    <2>3. \A z \in Server : acfd'[z] # NoTi => /\ gs'[acfd'[z]].use /\ ~eof'[acfd'[z]]
                                              /\ gs'[acfd'[z]].name \in {z, NoServer}
      <3>1. \A z \in Server : acfd[z] # NoTi => acfd[z] \in Ti
        BY <1>2 DEF TypeOK
      <3> QED
        BY <1>2, <1>5, <1>6, <1>7, <3>1 DEF SlotsOK
    <2>4. \A z, y \in Server : acfd'[z] # NoTi /\ acfd'[z] = acfd'[y] => z = y
      BY <1>2, <1>6 DEF SlotsOK
    <2>5. \A t, u \in Ti : gs'[t].name # NoServer /\ gs'[t].name = gs'[u].name => t = u
      BY <1>2, <1>7, <1>9 DEF SlotsOK
    <2> QED
      BY <2>1, <2>2, <2>3, <2>4, <2>5 DEF SlotsOK
  <1>13. ASSUME NEW c \in Conn
         PROVE  /\ conn'[c] = conn[c]
                /\ Live(c) => LET z == conn[c].srv
                              IN  acfd'[z] = acfd[z] /\ gs'[acfd[z]].name \in {gs[acfd[z]].name, z}
    <2>1. ConnOK(c)
      BY InvFacts
    <2> QED
      BY <1>5, <1>6, <1>7, <2>1 DEF ConnOK
  <1>14. Moved(down, down', NoTi, NoTi, Blank) /\ UNCHANGED tasks
    BY <1>2, <1>6, DownSame
  <1> QED
    BY <1>2, <1>11, <1>12, <1>13, <1>14, OthersInv

LEMMA RecvEofInv ==
    ASSUME SessionInv, NEW ti \in Ti, RecvEof(ti)
    PROVE  SessionInv'
  <1>1. TypeOK /\ SlotsOK /\ NoTi \notin Ti
    BY InvFacts, SessionAssumption DEF SessionAssumption
  <1>2. /\ gs[ti].use /\ eof[ti] /\ up[ti] = <<>>
        /\ gs' = [gs EXCEPT ![ti] = [use |-> FALSE, name |-> NoServer]]
        /\ eof' = [eof EXCEPT ![ti] = FALSE] /\ down' = [down EXCEPT ![ti] = <<>>]
        /\ UNCHANGED <<acfd, conn, up, file, tasks>>
    BY DEF RecvEof, gmsvVars
  <1>3. down \in Queues
    BY <1>1 DEF TypeOK, Queues
  <1>4. down' \in Queues /\ Moved(down, down', NoTi, NoTi, Blank)
    BY <1>2, <1>3, MovedEmpty
  <1>5. Moved(up, up', NoTi, NoTi, Blank)
    BY <1>1, <1>2, UpSame
  <1>6. TypeOK'
    <2>1. lock' \in LockType
      BY <1>1, ReleasedType DEF RecvEof
    <2>2. gs' \in [Ti -> [use : BOOLEAN, name : Server \union {NoServer}]]
      BY <1>1, <1>2 DEF TypeOK
    <2>3. eof' \in [Ti -> BOOLEAN]
      BY <1>1, <1>2 DEF TypeOK
    <2> QED
      BY <1>1, <1>2, <1>4, <2>1, <2>2, <2>3 DEF TypeOK, LockType, Queues
  <1>7. \A t \in Ti : /\ t # ti => gs'[t].use = gs[t].use /\ gs'[t].name = gs[t].name /\ eof'[t] = eof[t]
                      /\ t = ti => gs'[t].use = FALSE /\ gs'[t].name = NoServer /\ eof'[t] = FALSE
    BY <1>1, <1>2 DEF TypeOK
  <1>8. \A z \in Server : acfd[z] # NoTi => acfd[z] # ti /\ acfd[z] \in Ti
    BY <1>1, <1>2 DEF TypeOK, SlotsOK
  <1>9. SlotsOK'
    <2>1. ASSUME NEW t \in Ti, ~gs'[t].use
          PROVE  gs'[t].name = NoServer /\ up'[t] = <<>> /\ ~eof'[t]
      <3>1. up'[t] = up[t]
        BY <1>2
      <3>2. CASE t = ti
        BY <1>2, <1>7, <3>1, <3>2
      <3>3. CASE t # ti
        BY <1>1, <1>7, <2>1, <3>1, <3>3 DEF SlotsOK
      <3> QED
        BY <3>2, <3>3
    <2>2. ASSUME NEW t \in Ti, NEW i \in DOMAIN up'[t], up'[t][i].kind = "login"
          PROVE  i = 1 /\ gs'[t].name = NoServer /\ (eof'[t] \/ acfd'[up'[t][i].srv] = t)
      <3>1. DOMAIN <<>> = {}
        OBVIOUS
      <3>2. t # ti
        BY <1>2, <2>2, <3>1
      <3> QED
        BY <1>1, <1>2, <1>7, <2>2, <3>2 DEF SlotsOK
    <2>3. \A z \in Server : acfd'[z] # NoTi => /\ gs'[acfd'[z]].use /\ ~eof'[acfd'[z]]
                                              /\ gs'[acfd'[z]].name \in {z, NoServer}
      BY <1>1, <1>2, <1>7, <1>8 DEF SlotsOK
    <2>4. \A z, y \in Server : acfd'[z] # NoTi /\ acfd'[z] = acfd'[y] => z = y
      BY <1>1, <1>2 DEF SlotsOK
    <2>5. ASSUME NEW t \in Ti, NEW u \in Ti, gs'[t].name # NoServer, gs'[t].name = gs'[u].name
          PROVE  t = u
      <3>1. t # ti /\ u # ti
        BY <1>7, <2>5
      <3> QED
        BY <1>1, <1>7, <2>5, <3>1 DEF SlotsOK
    <2> QED
      BY <2>1, <2>2, <2>3, <2>4, <2>5 DEF SlotsOK
  <1>10. ASSUME NEW c \in Conn
         PROVE  /\ conn'[c] = conn[c]
                /\ Live(c) => LET z == conn[c].srv
                              IN  acfd'[z] = acfd[z] /\ gs'[acfd[z]].name \in {gs[acfd[z]].name, z}
    <2>1. ConnOK(c)
      BY InvFacts
    <2> QED
      BY <1>1, <1>2, <1>7, <1>8, <2>1 DEF ConnOK
  <1>11. UNCHANGED tasks
    BY <1>2
  <1> QED
    BY <1>1, <1>4, <1>5, <1>6, <1>9, <1>10, <1>11, OthersInv

LEMMA AddTaskInv ==
    ASSUME SessionInv, NEW ti \in Ti, AddTask(ti)
    PROVE  SessionInv'
  <1> DEFINE m == Read(ti)
             t == [kind |-> m.kind, ti |-> ti, conn |-> m.conn, acct |-> m.acct, char |-> m.rec.char]
  <1>1. /\ ReadsOneOf(ti, Pooled) /\ up' = Tidied(ti) /\ tasks' = tasks \union {t}
        /\ UNCHANGED <<acfd, conn, down, eof, gs, lock, file>>
    BY DEF AddTask, gmsvVars
  <1>2. /\ TypeOK /\ NoTi \notin Ti
        /\ up' \in Queues /\ Moved(up, up', ti, NoTi, Blank) /\ UpKeepsUnused
        /\ 1 \in DOMAIN up[ti] /\ m = up[ti][1] /\ m \in Msg /\ UpLineOK(m) /\ m.kind \in Pooled
    BY <1>1, ReadFacts
  <1>3. m.kind \in AsksKind /\ Pooled = {"list", "load", "delete"}
    BY <1>2 DEF AsksKind, Pooled
  <1>4. m.conn \in Conn /\ m.acct \in Account /\ m.rec \in Record
    BY <1>2, <1>3, MsgFacts DEF UpLineOK
  <1>c. PICK c \in Conn : c = m.conn
    BY <1>4
  <1>5. t \in Task /\ TaskOK(t)
    BY <1>2, <1>3, <1>4 DEF Task, TaskOK, UpLineOK, Record
  <1>6. down' \in Queues /\ Moved(down, down', NoTi, NoTi, Blank)
    BY <1>1, <1>2, DownSame
  <1>7. t.kind = m.kind /\ t.conn = c /\ t.acct = m.acct /\ t.ti = ti
    BY <1>c
  <1>8. AsksFor(up[ti][1], c)
    BY <1>2, <1>3, <1>c DEF AsksFor
  <1> HIDE DEF m, t
  <1>9. TypeOK'
    BY <1>1, <1>2, <1>5, <1>6 DEF TypeOK, Queues
  <1>10. ConnOK(c) /\ AskOK(c)
    BY <1>4, InvFacts
  <1>11. ConnOK(c)'
    BY <1>1, <1>2, <1>4, <1>10, ConnKeep
  <1>12. AskOK(c)'
    <2>1. CASE Live(c)
      <3>1. OnlyAt(c, {<<ti, 1>>}, {}, {}) /\ Fits(up[ti][1], c, ti)
        BY <1>2, <1>4, <1>8, <1>10, <2>1, OnlyUp
      <3>2. FitsNext(t, c, t.ti)
        BY <1>1, <1>2, <1>7, <2>1, <3>1 DEF Fits, FitsNext
      <3>3. {<<ti, 1>>} \subseteq {<<ti, 1>>} /\ {} \subseteq {<<NoTi, 1>>} /\ {} \intersect tasks' = {}
        OBVIOUS
      <3>4. /\ \A u \in tasks' \ tasks : u.conn = c => FitsNext(u, c, u.ti)
            /\ \A u, z \in tasks' \ tasks : u = z
            /\ "task" \in {"up", "down", "task"}
        BY <1>1, <3>2
      <3>5. conn'[c].state \notin Dead => acfd'[conn'[c].srv] \in Ti
        BY <1>11 DEF ConnOK, Live
      <3> QED
        BY <1>2, <1>4, <1>6, <3>1, <3>3, <3>4, <3>5, AskStep
    <2>2. CASE ~Live(c)
      <3>1. Fits(up[ti][1], c, ti)
        BY <1>2, <1>8, <1>10 DEF AskOK, AllFit
      <3>2. conn'[c].state = "ended"
        BY <1>1, <2>2, <3>1 DEF Fits, Live, Dead
      <3> QED
        BY <1>4, <3>2, EndedAsks
    <2> QED
      BY <2>1, <2>2
  <1>13. \A u \in tasks' \ tasks : TaskOK(u) /\ u.conn = c
    BY <1>1, <1>5, <1>7
  <1>14. UNCHANGED <<acfd, eof, gs>> /\ \A d \in Conn : d # c => conn'[d] = conn[d]
    BY <1>1
  <1> QED
    BY <1>2, <1>4, <1>6, <1>9, <1>11, <1>12, <1>13, <1>14, OneInv

(* What is read is answered at once with n.                                *)
Replied(ti, n) ==
    /\ up' = Tidied(ti) /\ Post(To(ti, n))
    /\ UNCHANGED <<acfd, conn, eof, gs, tasks>>

LEMMA ReplyInv ==
    ASSUME SessionInv, NEW ti \in Ti, ReadsOneOf(ti, AsksKind), NEW n \in Msg, Replied(ti, n), UNCHANGED file,
           n.kind \in AsksKind, n.conn = Read(ti).conn, n.acct = Read(ti).acct, n.kind = "load" => ~n.flag,
           Expects(Read(ti).kind) \subseteq Expects(n.kind), lock' \in LockType
    PROVE  SessionInv'
  <1> DEFINE m == Read(ti)
  <1>1. /\ up' = Tidied(ti) /\ Post(To(ti, n)) /\ UNCHANGED <<acfd, conn, eof, gs, file, tasks>>
    BY DEF Replied
  <1>2. /\ TypeOK /\ NoTi \notin Ti
        /\ up' \in Queues /\ Moved(up, up', ti, NoTi, Blank) /\ UpKeepsUnused
        /\ 1 \in DOMAIN up[ti] /\ m = up[ti][1] /\ m \in Msg /\ UpLineOK(m) /\ m.kind \in AsksKind
    BY <1>1, ReadFacts
  <1>3. PICK c \in Conn : c = m.conn
    BY <1>2 DEF UpLineOK
  <1>4. down' \in Queues /\ Moved(down, down', NoTi, ti, n)
    BY <1>1, <1>2, PostTo
  <1>5. AsksFor(up[ti][1], c) /\ n.conn = c /\ n.acct = up[ti][1].acct
    BY <1>2, <1>3 DEF AsksFor
  <1>6. Expects(up[ti][1].kind) \subseteq Expects(n.kind)
    BY <1>2
  <1> HIDE DEF m
  <1>7. TypeOK'
    BY <1>1, <1>2, <1>4 DEF TypeOK, Queues, LockType
  <1>8. ConnOK(c) /\ AskOK(c)
    BY <1>3, InvFacts
  <1>9. ConnOK(c)'
    BY <1>1, <1>2, <1>3, <1>8, ConnKeep
  <1>10. AskOK(c)'
    <2>1. CASE Live(c)
      <3>1. OnlyAt(c, {<<ti, 1>>}, {}, {}) /\ Fits(up[ti][1], c, ti)
        BY <1>2, <1>3, <1>5, <1>8, <2>1, OnlyUp
      <3>2. FitsNext(n, c, ti)
        BY <1>1, <1>5, <1>6, <2>1, <3>1 DEF Fits, FitsNext
      <3>3. {<<ti, 1>>} \subseteq {<<ti, 1>>} /\ {} \subseteq {<<NoTi, 1>>} /\ {} \intersect tasks' = {}
        OBVIOUS
      <3>4. tasks' \ tasks = {} /\ "down" \in {"up", "down", "task"}
        BY <1>1
      <3>5. conn'[c].state \notin Dead => acfd'[conn'[c].srv] \in Ti
        BY <1>9 DEF ConnOK, Live
      <3> QED
        BY <1>2, <1>3, <1>4, <3>1, <3>2, <3>3, <3>4, <3>5, AskStep
    <2>2. CASE ~Live(c)
      <3>1. Fits(up[ti][1], c, ti)
        BY <1>2, <1>5, <1>8 DEF AskOK, AllFit
      <3>2. conn'[c].state = "ended"
        BY <1>1, <2>2, <3>1 DEF Fits, Live, Dead
      <3> QED
        BY <1>3, <3>2, EndedAsks
    <2> QED
      BY <2>1, <2>2
  <1>11. DownLineOK(n)
    BY <1>3, <1>5 DEF DownLineOK
  <1>12. /\ \A u \in tasks' \ tasks : TaskOK(u) /\ u.conn = c
         /\ UNCHANGED <<acfd, eof, gs>> /\ \A d \in Conn : d # c => conn'[d] = conn[d]
    BY <1>1
  <1> QED
    BY <1>2, <1>3, <1>4, <1>5, <1>7, <1>9, <1>10, <1>11, <1>12, OneInv

LEMMA RefuseTaskInv ==
    ASSUME SessionInv, NEW ti \in Ti, RefuseTask(ti)
    PROVE  SessionInv'
  <1> DEFINE m == Read(ti)
  <1>1. PICK as \in {m.kind} \union (IF m.kind = "load" THEN {"list"} ELSE {}) :
           Post(To(ti, Line(as, m.conn, m.acct, Blank, NewSlot, FALSE)))
    BY DEF RefuseTask
  <1> DEFINE n == Line(as, m.conn, m.acct, Blank, NewSlot, FALSE)
  <1>2. ReadsOneOf(ti, Pooled) /\ up' = Tidied(ti) /\ UNCHANGED <<acfd, conn, eof, gs, lock, file, tasks>>
    BY DEF RefuseTask, gmsvVars, saacVars
  <1>3. TypeOK /\ m \in Msg /\ m.kind \in Pooled
    BY <1>2, ReadFacts
  <1>4. as \in Pooled /\ m.kind \in AsksKind /\ as \in AsksKind /\ as \in Kind
    BY <1>3, KindFacts DEF Pooled
  <1>5. Expects(m.kind) \subseteq Expects(as)
    BY <1>3, <1>4 DEF Expects, Pooled
  <1>6. n \in Msg
    BY <1>3, <1>4, MsgFacts, LineType, BlankFacts
  <1>7. n.kind = as /\ n.conn = m.conn /\ n.acct = m.acct /\ ~n.flag
    BY DEF Line
  <1>8. Replied(ti, n)
    BY <1>1, <1>2 DEF Replied
  <1>9. ReadsOneOf(ti, AsksKind)
    BY <1>2, <1>4 DEF ReadsOneOf, Read
  <1>10. lock' \in LockType
    BY <1>2, <1>3 DEF TypeOK, LockType
  <1> HIDE DEF m, n
  <1> QED
    BY <1>2, <1>4, <1>5, <1>6, <1>7, <1>8, <1>9, <1>10, ReplyInv DEF m

LEMMA RecvUnlockInv ==
    ASSUME SessionInv, NEW ti \in Ti, RecvUnlock(ti)
    PROVE  SessionInv'
  <1> DEFINE m == Read(ti)
  <1>1. PICK b \in BOOLEAN : Post(To(ti, Reply(m, b)))
    BY DEF RecvUnlock
  <1> DEFINE n == Reply(m, b)
  <1>2. /\ ReadsOneOf(ti, {"unlock"}) /\ up' = Tidied(ti) /\ UNCHANGED <<acfd, conn, eof, gs, file, tasks>>
        /\ lock' = [lock EXCEPT ![m.acct] = Free]
    BY DEF RecvUnlock, Reads, gmsvVars
  <1>3. TypeOK /\ m \in Msg /\ m.kind = "unlock"
    BY <1>2, ReadFacts
  <1>4. m.kind \in AsksKind /\ m.kind \in Kind
    BY <1>3, KindFacts
  <1>5. n \in Msg
    BY <1>3, <1>4, MsgFacts, LineType, BlankFacts DEF Reply
  <1>6. n.kind = "unlock" /\ n.conn = m.conn /\ n.acct = m.acct
    BY <1>3 DEF Line, Reply
  <1>7. Replied(ti, n)
    BY <1>1, <1>2 DEF Replied
  <1>8. ReadsOneOf(ti, AsksKind)
    BY <1>2, <1>4 DEF ReadsOneOf, Read
  <1>9. lock' \in LockType
    BY <1>2, <1>3 DEF TypeOK, LockType
  <1> HIDE DEF m, n
  <1> QED
    BY <1>2, <1>3, <1>4, <1>5, <1>6, <1>7, <1>8, <1>9, ReplyInv DEF m

LEMMA SaveReadInv ==
    ASSUME SessionInv, NEW ti \in Ti, Reads(ti, "save"), NEW b \in BOOLEAN, Replied(ti, Reply(Read(ti), b)),
           lock' = Unlocked(Read(ti)), file' \in FileType
    PROVE  SessionInv'
  <1> DEFINE m == Read(ti)
             n == Reply(m, b)
  <1>1. /\ ReadsOneOf(ti, {"save"}) /\ up' = Tidied(ti) /\ Post(To(ti, n))
        /\ UNCHANGED <<acfd, conn, eof, gs, tasks>>
    BY DEF Reads, Replied
  <1>2. /\ TypeOK /\ NoTi \notin Ti /\ m \in Msg /\ m.kind = "save"
        /\ up' \in Queues /\ Moved(up, up', ti, NoTi, Blank) /\ UpKeepsUnused
    BY <1>1, ReadFacts
  <1>3. n \in Msg
    <2>1. m.kind \in Kind
      BY <1>2, MsgFacts
    <2> QED
      BY <1>2, <2>1, MsgFacts, LineType, BlankFacts DEF Reply
  <1>4. n.kind \notin AsksKind
    BY <1>2, KindFacts DEF Reply, Line
  <1>5. lock' \in LockType
    BY <1>2 DEF TypeOK, LockType, Unlocked
  <1> HIDE DEF m, n
  <1>6. down' \in Queues /\ Moved(down, down', NoTi, ti, n)
    BY <1>1, <1>2, <1>3, PostTo
  <1>7. TypeOK'
    BY <1>1, <1>2, <1>5, <1>6 DEF TypeOK, Queues, LockType, FileType
  <1> QED
    BY <1>1, <1>2, <1>4, <1>6, <1>7, QuietInv

LEMMA RecvSaveInv ==
    ASSUME SessionInv, NEW ti \in Ti, RecvSave(ti) \/ RecvSaveFailed(ti)
    PROVE  SessionInv'
  <1> DEFINE m == Read(ti)
  <1>1. TypeOK
    BY InvFacts
  <1>2. CASE RecvSave(ti)
    <2>1. /\ Reads(ti, "save") /\ lock' = Unlocked(m) /\ Replied(ti, Reply(m, TRUE)) /\ TRUE \in BOOLEAN
          /\ ReadsOneOf(ti, {"save"}) /\ up' = Tidied(ti)
      BY <1>2 DEF RecvSave, Replied, gmsvVars, Reads
    <2>2. PICK k \in SaveTarget(m) : file' = [file EXCEPT ![m.acct][k] = m.rec]
      BY <1>2 DEF RecvSave
    <2>3. k \in Slot /\ m.rec \in Record /\ m.acct \in Account
      <3>1. m \in Msg /\ UpLineOK(m) /\ m.kind = "save"
        BY <2>1, ReadFacts
      <3> QED
        BY <3>1, MsgFacts DEF SaveTarget, UpLineOK
    <2>4. file' \in FileType
      BY <1>1, <2>2, <2>3 DEF TypeOK, FileType
    <2> QED
      BY <2>1, <2>4, SaveReadInv
  <1>3. CASE RecvSaveFailed(ti)
    <2>1. Reads(ti, "save") /\ lock' = Unlocked(m) /\ Replied(ti, Reply(m, FALSE)) /\ FALSE \in BOOLEAN
      BY <1>3 DEF RecvSaveFailed, Replied, gmsvVars
    <2>2. file' \in FileType
      BY <1>1, <1>3 DEF RecvSaveFailed, TypeOK, FileType
    <2> QED
      BY <2>1, <2>2, SaveReadInv
  <1> QED
    BY <1>2, <1>3

(* Kicks, and the lock: ACUCheck and the GM.                               *)
LEMMA NoticeReadInv ==
    ASSUME SessionInv, NEW ti \in Ti, NEW kinds, ReadsOneOf(ti, kinds), up' = Tidied(ti),
           Post(Kicks(ti, Ti, Read(ti).acct)) \/ UNCHANGED down, lock' \in LockType,
           UNCHANGED <<acfd, conn, eof, gs, file, tasks>>
    PROVE  SessionInv'
  <1>1. /\ TypeOK /\ NoTi \notin Ti /\ Read(ti) \in Msg
        /\ up' \in Queues /\ Moved(up, up', ti, NoTi, Blank) /\ UpKeepsUnused
    BY ReadFacts
  <1>2. Read(ti).acct \in Account \union {NoAccount}
    BY <1>1, MsgFacts
  <1>3. down' \in Queues /\ Moved(down, down', NoTi, NoTi, Blank)
    BY <1>1, <1>2, PostKicks, DownSame
  <1>4. TypeOK'
    BY <1>1, <1>3 DEF TypeOK, Queues, LockType
  <1> QED
    BY <1>1, <1>3, <1>4, QuietInv

LEMMA RecvGMInv ==
    ASSUME SessionInv, NEW ti \in Ti, RecvUCheck(ti) \/ RecvGM(ti)
    PROVE  SessionInv'
  <1>1. TypeOK
    BY InvFacts
  <1>2. CASE RecvUCheck(ti)
    <2>1. lock' \in LockType
      BY <1>1, <1>2 DEF RecvUCheck, saacVars, TypeOK, LockType
    <2> QED
      BY <1>2, <2>1, NoticeReadInv DEF RecvUCheck, Reads, gmsvVars, saacVars
  <1>3. CASE RecvGM(ti)
    <2>1. lock' \in LockType
      <3>1. gs[ti].name \in Server \union {NoServer}
        BY <1>1 DEF TypeOK
      <3>2. \A a, v : v \in Server \union {NoServer, Free} => [lock EXCEPT ![a] = v] \in LockType
        BY <1>1 DEF TypeOK, LockType
      <3>3. \A a : [lock EXCEPT ![a] = IF @ = Free THEN gs[ti].name ELSE @] \in LockType
        BY <1>1, <3>1 DEF TypeOK, LockType
      <3>4. \/ lock' = [lock EXCEPT ![Read(ti).acct] = IF @ = Free THEN gs[ti].name ELSE @]
            \/ lock' = [lock EXCEPT ![Read(ti).acct] = Free]
            \/ lock' = Released(Read(ti).srv)
            \/ UNCHANGED lock
        BY <1>3 DEF RecvGM
      <3>5. lock \in LockType /\ Free \in Server \union {NoServer, Free}
        BY <1>1 DEF TypeOK, LockType
      <3> QED
        BY <1>1, <3>2, <3>3, <3>4, <3>5, ReleasedType
    <2>2. \/ Post(Kicks(ti, Ti, Read(ti).acct)) \/ UNCHANGED down
      BY <1>3 DEF RecvGM
    <2>3. PICK kind \in GMKind : ReadsOneOf(ti, {kind})
      BY <1>3 DEF RecvGM, Reads, GMKind
    <2>4. up' = Tidied(ti) /\ UNCHANGED <<acfd, conn, eof, gs, file, tasks>>
      BY <1>3 DEF RecvGM, gmsvVars
    <2> QED
      BY <2>1, <2>2, <2>3, <2>4, NoticeReadInv
  <1> QED
    BY <1>2, <1>3

LEMMA SaacInv ==
    ASSUME SessionInv, NEW ti \in Ti, SaacReads(ti)
    PROVE  SessionInv'
  <1>1. CASE RecvLogin(ti)
    BY <1>1, RefusedLoginInv, GrantedLoginInv DEF RecvLogin
  <1> QED
    BY <1>1, AddTaskInv, RefuseTaskInv, RecvSaveInv, RecvUnlockInv, RecvGMInv, RecvEofInv
       DEF SaacReads, RecvRequest

-----------------------------------------------------------------------------
(* SAAC's callbacks.                                                       *)
LEMMA TaskFacts ==
    ASSUME SessionInv, NEW t \in tasks
    PROVE  /\ t.kind \in Pooled /\ t.kind \in AsksKind /\ t.kind \in Kind
           /\ t.ti \in Ti /\ t.conn \in Conn /\ t.acct \in Account /\ TaskOK(t)
           /\ t.char \in Char \union {NoChar}
  <1>1. t \in Task /\ TaskOK(t)
    BY InvFacts DEF TypeOK, LinesOK
  <1> QED
    BY <1>1, KindFacts DEF Task, Pooled

LEMMA CallbackStepInv ==
    ASSUME SessionInv, NEW t \in tasks, tasks' = tasks \ {t}, NEW n \in Msg,
           n.kind = t.kind, n.conn = t.conn, n.acct = t.acct, DownLineOK(n),
           down' \in Queues, Moved(down, down', NoTi, t.ti, n),
           lock' \in LockType, file' \in FileType, UNCHANGED <<acfd, conn, up, eof, gs>>
    PROVE  SessionInv'
  <1>1. TypeOK /\ NoTi \notin Ti
    BY InvFacts, SessionAssumption DEF SessionAssumption
  <1>2. PICK c \in Conn : c = t.conn
    BY TaskFacts
  <1>3. t.ti \in Ti /\ t.kind \in AsksKind
    BY TaskFacts
  <1>4. up' \in Queues /\ Moved(up, up', NoTi, NoTi, Blank) /\ UpKeepsUnused
    BY <1>1, UpSame
  <1>5. TypeOK'
    BY <1>1, <1>4 DEF TypeOK, Queues, LockType, FileType
  <1>6. ConnOK(c) /\ AskOK(c)
    BY InvFacts
  <1>7. ConnOK(c)'
    BY <1>1, <1>6, ConnKeep
  <1>8. AskOK(c)'
    <2>1. CASE Live(c)
      <3>1. OnlyAt(c, {}, {}, {t}) /\ Fits(t, c, t.ti)
        BY <1>1, <1>2, <1>6, <2>1, OnlyTask
      <3>2. FitsNext(n, c, t.ti)
        BY <2>1, <3>1 DEF Fits, FitsNext
      <3>3. {} \subseteq {<<NoTi, 1>>} /\ {t} \intersect tasks' = {}
        OBVIOUS
      <3>4. tasks' \ tasks = {} /\ "down" \in {"up", "down", "task"}
        OBVIOUS
      <3>5. conn'[c].state \notin Dead => acfd'[conn'[c].srv] \in Ti
        BY <1>7 DEF ConnOK, Live
      <3> QED
        BY <1>1, <1>4, <3>1, <3>2, <3>3, <3>4, <3>5, AskStep
    <2>2. CASE ~Live(c)
      <3>1. Fits(t, c, t.ti)
        BY <1>2, <1>6 DEF AskOK, AllFit
      <3>2. conn'[c].state = "ended"
        BY <2>2, <3>1 DEF Fits, Live, Dead
      <3> QED
        BY <3>2, EndedAsks
    <2> QED
      BY <2>1, <2>2
  <1>9. /\ \A u \in tasks' \ tasks : TaskOK(u) /\ u.conn = c
        /\ \A d \in Conn : d # c => conn'[d] = conn[d]
        /\ n.conn = c
    BY <1>2
  <1> QED
    BY <1>1, <1>4, <1>5, <1>7, <1>8, <1>9, OneInv

LEMMA CallbackInv ==
    ASSUME SessionInv, NEW t \in tasks, Callback(t)
    PROVE  SessionInv'
  <1> DEFINE no == Line(t.kind, t.conn, t.acct, Blank, NewSlot, FALSE)
             ok == Line(t.kind, t.conn, t.acct, Blank, NewSlot, TRUE)
  <1>0. /\ t.kind \in Kind /\ t.conn \in Conn /\ t.conn \in Conn \union {NoConn}
        /\ t.acct \in Account \union {NoAccount}
    BY TaskFacts
  <1>1. /\ TypeOK /\ t.ti \in Ti /\ t.acct \in Account /\ t.acct \in Account \union {NoAccount}
        /\ t.kind \in Pooled
    BY InvFacts, TaskFacts
  <1>2. /\ no \in Msg /\ no.kind = t.kind /\ no.conn = t.conn /\ no.acct = t.acct /\ DownLineOK(no)
    <2>1. no.kind = t.kind /\ no.conn = t.conn /\ no.acct = t.acct /\ ~no.flag
      BY DEF Line
    <2>2. no \in Msg
      BY <1>0, LineType, BlankFacts
    <2> HIDE DEF no, ok
    <2> QED
      BY <2>1, <2>2, <1>0 DEF DownLineOK
  <1>3. t.kind # "load" =>
           ok \in Msg /\ ok.kind = t.kind /\ ok.conn = t.conn /\ ok.acct = t.acct /\ DownLineOK(ok)
    <2>1. ok.kind = t.kind /\ ok.conn = t.conn /\ ok.acct = t.acct
      BY DEF Line
    <2>2. ok \in Msg
      BY <1>0, LineType, BlankFacts
    <2> HIDE DEF no, ok
    <2> QED
      BY <2>1, <2>2, <1>0 DEF DownLineOK
  <1>4. lock \in LockType /\ file \in FileType
    BY <1>1 DEF TypeOK, LockType, FileType
  <1> HIDE DEF no, ok
  <1>5. \A T : /\ Kicks(t.ti, T, t.acct) \in Queues
               /\ \A u \in Ti : \A i \in DOMAIN Kicks(t.ti, T, t.acct)[u] :
                     Kicks(t.ti, T, t.acct)[u][i].kind \in Notice
    BY <1>1, KicksQueues
  <1>6. CASE CallbackRefused(t)
    <2>1. Post(To(t.ti, no))
      BY <1>6 DEF CallbackRefused, AnswerTask, no
    <2>2. down' \in Queues /\ Moved(down, down', NoTi, t.ti, no)
      BY <1>1, <1>2, <2>1, PostTo
    <2>3. tasks' = tasks \ {t} /\ UNCHANGED <<acfd, conn, up, eof, gs, lock, file>>
      BY <1>6 DEF CallbackRefused, Finish, gmsvVars
    <2> QED
      BY <1>2, <1>4, <2>2, <2>3, CallbackStepInv
  <1>7. CASE ListCallback(t)
    <2>1. t.kind = "list" /\ tasks' = tasks \ {t} /\ UNCHANGED <<acfd, conn, up, eof, gs, lock, file>>
      BY <1>7 DEF ListCallback, Finish, gmsvVars
    <2>2. CASE lock[t.acct] = Free
      <3>1. Post(To(t.ti, ok))
        BY <1>7, <2>2 DEF ListCallback, AnswerTask, ok
      <3>2. ok \in Msg /\ ok.kind = t.kind /\ ok.conn = t.conn /\ ok.acct = t.acct /\ DownLineOK(ok)
        BY <1>3, <2>1
      <3>3. down' \in Queues /\ Moved(down, down', NoTi, t.ti, ok)
        BY <1>1, <3>1, <3>2, PostTo
      <3> QED
        BY <1>4, <2>1, <3>2, <3>3, CallbackStepInv
    <2>3. CASE lock[t.acct] # Free
      <3> DEFINE ask == Line("ucheck", NoConn, t.acct, Blank, NewSlot, FALSE)
                 lines == [u \in Ti |-> IF gs[u].name = lock[t.acct] /\ gs[u].name # NoServer
                                        THEN <<ask>> ELSE <<>>]
      <3>1. ask \in Msg /\ ask.kind \in Notice
        <4>1. "ucheck" \in Kind /\ NoConn \in Conn \union {NoConn} /\ FALSE \in BOOLEAN
          BY KindFacts
        <4>2. ask \in Msg
          BY <1>1, <4>1, LineType, BlankFacts
        <4> QED
          BY <4>2 DEF Line, Notice
      <3> HIDE DEF ask
      <3>2. <<ask>> \in Seq(Msg) /\ <<>> \in Seq(Msg) /\ DOMAIN <<ask>> = {1} /\ <<ask>>[1] = ask /\ DOMAIN <<>> = {}
        BY <3>1
      <3>3. lines \in Queues
        BY <3>2 DEF Queues
      <3>4. ASSUME NEW u \in Ti, NEW i \in DOMAIN lines[u]
            PROVE  lines[u][i].kind \in Notice
        <4>1. lines[u] = <<ask>> \/ lines[u] = <<>>
          OBVIOUS
        <4> HIDE DEF lines
        <4> QED
          BY <3>1, <3>2, <4>1
      <3>5. Post(Both(To(t.ti, no), lines))
        BY <1>7, <2>3 DEF ListCallback, AnswerTask, no, ask
      <3> HIDE DEF lines
      <3>6. down' \in Queues /\ Moved(down, down', NoTi, t.ti, no)
        BY <1>1, <1>2, <3>3, <3>4, <3>5, PostBoth
      <3> QED
        BY <1>2, <1>4, <2>1, <3>6, CallbackStepInv
    <2> QED
      BY <2>2, <2>3
  <1>8. CASE LoadCallbackLocked(t)
    <2>1. Post(Both(To(t.ti, no), Kicks(t.ti, Ti, t.acct)))
      BY <1>8 DEF LoadCallbackLocked, AnswerTask, no
    <2>2. down' \in Queues /\ Moved(down, down', NoTi, t.ti, no)
      BY <1>1, <1>2, <1>5, <2>1, PostBoth
    <2>3. tasks' = tasks \ {t} /\ UNCHANGED <<acfd, conn, up, eof, gs, lock, file>>
      BY <1>8 DEF LoadCallbackLocked, Finish, gmsvVars
    <2> QED
      BY <1>2, <1>4, <2>2, <2>3, CallbackStepInv
  <1>9. CASE LoadCallback(t)
    <2>1. PICK k \in Slot :
             /\ IsIndexOf(t.acct, t.char, k)
             /\ Post(Both(AnswerTask(t, file[t.acct][k], k, TRUE), Kicks(t.ti, Ti \ {t.ti}, t.acct)))
      BY <1>9 DEF LoadCallback
    <2> DEFINE n == Line(t.kind, t.conn, t.acct, file[t.acct][k], k, TRUE)
    <2>2. t.kind = "load" /\ t.char \in Char
      BY <1>9, TaskFacts DEF LoadCallback, TaskOK
    <2>3. file[t.acct][k] \in Record /\ file[t.acct][k].char \in Char /\ k \in SaveIndex
      BY <1>1, <1>4, <2>1, <2>2 DEF FileType, IsIndexOf, SaveIndex
    <2>4. n \in Msg /\ n.kind = t.kind /\ n.conn = t.conn /\ n.acct = t.acct /\ DownLineOK(n)
      <3>1. /\ n.kind = t.kind /\ n.conn = t.conn /\ n.acct = t.acct
            /\ n.rec = file[t.acct][k] /\ n.slot = k
        BY DEF Line
      <3>2. n \in Msg
        BY <1>0, <2>3, LineType
      <3> HIDE DEF n
      <3> QED
        BY <1>0, <1>1, <2>3, <3>1, <3>2 DEF DownLineOK
    <2>5. Post(Both(To(t.ti, n), Kicks(t.ti, Ti \ {t.ti}, t.acct)))
      BY <2>1 DEF AnswerTask
    <2> HIDE DEF n
    <2>6. down' \in Queues /\ Moved(down, down', NoTi, t.ti, n)
      BY <1>1, <1>5, <2>4, <2>5, PostBoth
    <2>7. tasks' = tasks \ {t} /\ UNCHANGED <<acfd, conn, up, eof, gs, file>>
      BY <1>9 DEF LoadCallback, Finish, gmsvVars
    <2>8. lock' \in LockType
      BY <1>1, <1>4, <1>9 DEF LoadCallback, LockType, TypeOK
    <2> QED
      BY <1>4, <2>4, <2>6, <2>7, <2>8, CallbackStepInv
  <1>10. CASE DeleteCallback(t)
    <2>1. t.kind = "delete" /\ Post(To(t.ti, ok))
      BY <1>10 DEF DeleteCallback, AnswerTask, ok
    <2>2. ok \in Msg /\ ok.kind = t.kind /\ ok.conn = t.conn /\ ok.acct = t.acct /\ DownLineOK(ok)
      BY <1>3, <2>1
    <2>3. down' \in Queues /\ Moved(down, down', NoTi, t.ti, ok)
      BY <1>1, <2>1, <2>2, PostTo
    <2>4. tasks' = tasks \ {t} /\ UNCHANGED <<acfd, conn, up, eof, gs, lock>>
      BY <1>10 DEF DeleteCallback, Finish, gmsvVars
    <2>5. file' \in FileType
      BY <1>1, <1>4, <1>10, BlankFacts DEF DeleteCallback, FileType
    <2> QED
      BY <1>4, <2>2, <2>3, <2>4, <2>5, CallbackStepInv
  <1> QED
    BY <1>6, <1>7, <1>8, <1>9, <1>10 DEF Callback

-----------------------------------------------------------------------------
LEMMA SessionInit == Init => SessionInv
  <1> SUFFICES ASSUME Init PROVE SessionInv
    OBVIOUS
  <1>1. DOMAIN <<>> = {} /\ <<>> \in Seq(Msg)
    OBVIOUS
  <1>2. Idle("unused", NoServer) \in ConnRecord
    BY BlankFacts DEF Idle, ConnRecord, Dead
  <1>3. TypeOK
    <2>1. \A f \in [Account -> [Slot -> {Blank} \union {Fresh(ch) : ch \in Char}]] : f \in FileType
      BY BlankFacts DEF FileType
    <2>2. file \in FileType
      BY <2>1 DEF Init
    <2> QED
      BY <1>1, <1>2, <2>2 DEF Init, TypeOK, FileType
  <1>4. LinesOK /\ SlotsOK
    BY <1>1 DEF Init, LinesOK, SlotsOK
  <1>5. \A c \in Conn : /\ conn[c].state = "unused" /\ conn[c].rec = Blank /\ ~Live(c)
    BY DEF Init, Idle, Live, Dead
  <1>6. ConnsOK
    BY <1>5, BlankFacts DEF ConnsOK, ConnOK, Waiting
  <1>7. Asking
    BY <1>1, <1>5 DEF Init, Asking, AskOK, AllFit, Alone
  <1> QED
    BY <1>3, <1>4, <1>6, <1>7 DEF SessionInv, Base

LEMMA SessionStep == SessionInv /\ [Next]_vars => SessionInv'
  <1> SUFFICES ASSUME SessionInv, [Next]_vars PROVE SessionInv'
    OBVIOUS
  <1>1. ASSUME NEW s \in Server, NEW ti \in Ti, StartServer(s, ti) PROVE SessionInv'
    BY <1>1, StartServerInv
  <1>2. ASSUME NEW s \in Server, Crash(s) \/ GmsvReads(s) PROVE SessionInv'
    BY <1>2, ProcessGoneInv, GmsvInv DEF Crash
  <1>3. ASSUME NEW c \in Conn, Client(c) PROVE SessionInv'
    BY <1>3, ClientInv
  <1>4. ASSUME NEW ti \in Ti, SaacReads(ti) PROVE SessionInv'
    BY <1>4, SaacInv
  <1>5. ASSUME NEW t \in tasks, Callback(t) PROVE SessionInv'
    BY <1>5, CallbackInv
  <1>6. CASE UNCHANGED vars
    <2>1. Base <=> Base'
      BY <1>6 DEF vars, Base, TypeOK, LinesOK, SlotsOK, ConnsOK, ConnOK, Live, Asking, AskOK
    <2>2. Asking <=> Asking'
      BY <1>6 DEF vars, Asking, AllFit, Alone, Fits, Live, AskOK
    <2> QED
      BY <2>1, <2>2 DEF SessionInv
  <1> QED
    BY <1>1, <1>2, <1>3, <1>4, <1>5, <1>6 DEF Next

(* The invariant holds in every state of the system.                       *)
THEOREM SessionInvariant == Spec => []SessionInv
  BY SessionInit, SessionStep, PTL DEF Spec

(* Every value is of its type: the states of connections, the lines of the *)
(* protocol between GMSV and SAAC, the requests given to the worker pool.  *)
THEOREM SessionTypes == Spec => []TypeOK
  <1>1. SessionInv => TypeOK
    BY DEF SessionInv, Base
  <1> QED
    BY <1>1, SessionInvariant, PTL

(* ACCharList_recv, ACCharLoad_recv, ACCharDelete_recv and ACLock_recv do  *)
(* not compare: an answer of SAAC finds its connection waiting for it, for *)
(* the account it asked about, whatever ends, crashes or starts meanwhile. *)
THEOREM AnswersFit == Spec => []AnswerFitsState
  <1>1. SessionInv => AnswerFitsState
    <2> SUFFICES ASSUME SessionInv, NEW s \in Server, acfd[s] # NoTi, NEW i \in DOMAIN down[acfd[s]],
                        NEW c \in Conn, c = down[acfd[s]][i].conn, Live(c),
                        down[acfd[s]][i].kind \in {"list", "load", "delete", "unlock"}
                 PROVE  /\ conn[c].state \in Expects(down[acfd[s]][i].kind)
                        /\ conn[c].acct = down[acfd[s]][i].acct /\ conn[c].srv = s
      BY DEF AnswerFitsState
    <2>1. TypeOK /\ SlotsOK /\ ConnOK(c) /\ AskOK(c) /\ acfd[s] \in Ti
      BY InvFacts, SlotFacts
    <2>2. AsksFor(down[acfd[s]][i], c)
      BY KindFacts DEF AsksFor
    <2>3. Fits(down[acfd[s]][i], c, acfd[s])
      BY <2>1, <2>2 DEF AskOK, AllFit
    <2>4. conn[c].srv \in Server /\ acfd[conn[c].srv] = acfd[s]
      BY <2>1, <2>3 DEF ConnOK, Fits
    <2>5. conn[c].srv = s
      BY <2>1, <2>4 DEF SlotsOK
    <2> QED
      BY <2>3, <2>5 DEF Fits
  <1> QED
    BY <1>1, SessionInvariant, PTL
=============================================================================
