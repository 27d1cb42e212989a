------------------------- MODULE SessionLockProofs -------------------------
(***************************************************************************)
(* Proofs about the account locks of Session: who plays holds the lock, an *)
(* account has one session, and whoever saves is the holder.               *)
(***************************************************************************)
EXTENDS SessionProofs

(***************************************************************************)
(* Most steps are quiet: no lock or file changes, nobody comes into play,  *)
(* no line is sent that saves a loaded character or unlocks, and no        *)
(* character is granted.                                                   *)
(***************************************************************************)
QuietLine(m)   == m.kind # "unlock" /\ (m.kind = "save" => m.slot = NewSlot)
QuietAnswer(m) == m.kind # "unlock" /\ ~(m.kind = "load" /\ m.flag)

UpKept(ts) ==
    \A t \in Ti : \A i \in DOMAIN up'[t] : QuietLine(up'[t][i]) \/ Kept(up, up', ts, t, i)
DownKept(ts) ==
    \A t \in Ti : \A i \in DOMAIN down'[t] : QuietAnswer(down'[t][i]) \/ Kept(down, down', ts, t, i)

ConnsKept ==
    \A c \in Conn :
        /\ conn'[c].state = "LOGIN" =>
              /\ conn[c].state = "LOGIN" /\ conn'[c].srv = conn[c].srv
              /\ conn'[c].acct = conn[c].acct /\ conn'[c].rec = conn[c].rec
              /\ conn'[c].slot = conn[c].slot
        /\ conn'[c].state \notin Dead => conn[c].state # "ended"

NamesKept == \A t \in Ti : gs'[t].name = gs[t].name
FilesKept ==
    \A a \in Account, k \in Slot :
        file'[a][k] = file[a][k] \/ ("delete" \in ClientOps /\ file'[a][k] = Blank)

Quiet ==
    /\ \E ts, us \in Ti \union {NoTi} : UpKept(ts) /\ DownKept(us)
    /\ ConnsKept /\ NamesKept /\ FilesKept
    /\ "gm" \notin ClientOps => lock' = lock

LEMMA UpIsKept ==
    ASSUME NEW ts, NEW t0, NEW m, Moved(up, up', ts, t0, m), t0 \in Ti => QuietLine(m)
    PROVE  UpKept(ts)
  <1> SUFFICES ASSUME NEW t \in Ti, NEW i \in DOMAIN up'[t], ~Kept(up, up', ts, t, i)
               PROVE  QuietLine(up'[t][i])
    BY DEF UpKept
  <1>1. (t = t0 /\ up'[t][i] = m) \/ up'[t][i].kind \in Notice
    BY DEF Moved
  <1> QED
    BY <1>1 DEF QuietLine, Notice

LEMMA DownIsKept ==
    ASSUME NEW ts, NEW t0, NEW m, Moved(down, down', ts, t0, m), t0 \in Ti => QuietAnswer(m)
    PROVE  DownKept(ts)
  <1> SUFFICES ASSUME NEW t \in Ti, NEW i \in DOMAIN down'[t], ~Kept(down, down', ts, t, i)
               PROVE  QuietAnswer(down'[t][i])
    BY DEF DownKept
  <1>1. (t = t0 /\ down'[t][i] = m) \/ down'[t][i].kind \in Notice
    BY DEF Moved
  <1> QED
    BY <1>1 DEF QuietAnswer, Notice

LEMMA ConnsAreKept ==
    ASSUME SessionInv,
           \A c \in Conn : \/ conn'[c] = conn[c]
                           \/ conn'[c] = [conn[c] EXCEPT !.close = TRUE]
                           \/ conn'[c].state = "ended"
                           \/ conn'[c].state # "LOGIN" /\ conn[c].state # "ended"
    PROVE  ConnsKept
  <1> SUFFICES ASSUME NEW c \in Conn
               PROVE  /\ conn'[c].state = "LOGIN" =>
                            /\ conn[c].state = "LOGIN" /\ conn'[c].srv = conn[c].srv
                            /\ conn'[c].acct = conn[c].acct /\ conn'[c].rec = conn[c].rec
                            /\ conn'[c].slot = conn[c].slot
                      /\ conn'[c].state \notin Dead => conn[c].state # "ended"
    BY DEF ConnsKept
  <1>1. conn[c] \in ConnRecord
    BY InvFacts
  <1>2. CASE conn'[c] = [conn[c] EXCEPT !.close = TRUE]
    BY <1>1, <1>2 DEF ConnRecord, Dead
  <1> QED
    BY <1>2 DEF Dead

LEMMA QuietStep ==
    ASSUME NEW ts \in Ti \union {NoTi}, NEW t0, NEW m, Moved(up, up', ts, t0, m),
           t0 \in Ti => QuietLine(m),
           NEW us \in Ti \union {NoTi}, NEW u0, NEW n, Moved(down, down', us, u0, n),
           u0 \in Ti => QuietAnswer(n),
           ConnsKept, NamesKept, UNCHANGED <<lock, file>>
    PROVE  Quiet
  <1>1. UpKept(ts) /\ DownKept(us)
    BY UpIsKept, DownIsKept
  <1> QED
    BY <1>1 DEF Quiet, FilesKept

(* A server starts or is gone.                                             *)
LEMMA StartServerQuiet ==
    ASSUME SessionInv, NEW s \in Server, NEW ti \in Ti, StartServer(s, ti)
    PROVE  Quiet
  <1>1. TypeOK /\ NoTi \notin Ti
    BY InvFacts, SessionAssumption DEF SessionAssumption
  <1>2. up \in Queues /\ down \in Queues
    BY <1>1 DEF TypeOK, Queues
  <1>3. /\ up' = [up EXCEPT ![ti] = <<ServerLine(s, TRUE)>>] /\ down' = [down EXCEPT ![ti] = <<>>]
        /\ gs' = [gs EXCEPT ![ti].use = TRUE] /\ UNCHANGED <<conn, lock, file>>
    BY DEF StartServer
  <1>4. UpKept(NoTi)
    <2> SUFFICES ASSUME NEW t \in Ti, NEW i \in DOMAIN up'[t]
                 PROVE  QuietLine(up'[t][i]) \/ Kept(up, up', NoTi, t, i)
      BY DEF UpKept
    <2>1. CASE t = ti
      <3>1. up'[t] = <<ServerLine(s, TRUE)>>
        BY <1>2, <1>3, <2>1 DEF Queues
      <3>2. up'[t][i].kind = "login"
        BY <3>1 DEF ServerLine
      <3> QED
        BY <3>2 DEF QuietLine
    <2>2. CASE t # ti
      <3>1. up'[t] = up[t]
        BY <1>2, <1>3, <2>2 DEF Queues
      <3> QED
        BY <1>1, <3>1 DEF Kept
    <2> QED
      BY <2>1, <2>2
  <1>5. DownKept(NoTi)
    BY <1>1, <1>2, <1>3, MovedEmpty, DownIsKept
  <1>6. NamesKept
    BY <1>1, <1>3 DEF NamesKept, TypeOK
  <1>7. ConnsKept
    BY <1>3, ConnsAreKept
  <1> QED
    BY <1>3, <1>4, <1>5, <1>6, <1>7 DEF Quiet, FilesKept

LEMMA ProcessGoneQuiet ==
    ASSUME SessionInv, NEW s \in Server, acfd[s] # NoTi, ProcessGone(s)
    PROVE  Quiet
  <1>1. TypeOK /\ SlotsOK /\ NoTi \notin Ti
    BY InvFacts, SessionAssumption DEF SessionAssumption
  <1>2. up \in Queues /\ down \in Queues /\ acfd[s] \in Ti
    BY <1>1, SlotFacts DEF TypeOK, Queues
  <1>3. /\ UNCHANGED <<gs, lock, file>> /\ down' = [down EXCEPT ![acfd[s]] = <<>>]
        /\ conn' = [c \in Conn |-> IF Live(c) /\ conn[c].srv = s THEN Idle("ended", NoServer) ELSE conn[c]]
    BY DEF ProcessGone, saacVars
  <1>4. PICK k \in 0 .. Len(up[acfd[s]]) : up' = [up EXCEPT ![acfd[s]] = SubSeq(@, 1, k)]
    BY DEF ProcessGone
  <1>5. UpKept(NoTi) /\ DownKept(NoTi)
    BY <1>1, <1>2, <1>3, <1>4, MovedPrefix, MovedEmpty, UpIsKept, DownIsKept
  <1>6. \A c \in Conn : conn'[c] = conn[c] \/ conn'[c].state = "ended"
    BY <1>3 DEF Idle
  <1>7. ConnsKept /\ NamesKept
    BY <1>3, <1>6, ConnsAreKept DEF NamesKept
  <1> QED
    BY <1>3, <1>5, <1>7 DEF Quiet, FilesKept

(* Requests of clients that do not save what is played.                    *)
LEMMA AskQuiet ==
    ASSUME SessionInv, NEW c \in Conn, NEW st, NEW kind, NEW rec, Request(st, kind, rec),
           Ask(c, st, kind, rec)
    PROVE  Quiet
  <1> DEFINE s == conn[c].srv
             m == Line(kind, c, conn[c].acct, rec, NewSlot, FALSE)
  <1>1. /\ TypeOK /\ SlotsOK /\ ConnOK(c) /\ conn[c] \in ConnRecord /\ conn[c].state = "NOTLOGIN"
        /\ NoTi \notin Ti
    BY InvFacts, SessionAssumption DEF Ask, SessionAssumption
  <1>2. conn[c].acct \in Account /\ s \in Server /\ acfd[s] \in Ti /\ acfd[s] # NoTi
    BY <1>1 DEF Ask, IsCLI, ConnRecord, ConnOK, Live, Dead
  <1>3. /\ st \in Waiting /\ kind \in Kind /\ rec \in Record /\ kind # "unlock"
    BY KindFacts, BlankFacts DEF Request, Waiting
  <1>4. m \in Msg
    BY <1>2, <1>3, BlankFacts, LineType
  <1>5. m.kind = kind /\ m.slot = NewSlot
    BY DEF Line
  <1>6. /\ up' = [up EXCEPT ![acfd[s]] = Append(@, m)]
        /\ UNCHANGED <<acfd, down, eof, gs, lock, file, tasks>>
    BY DEF Ask, Send, saacVars
  <1>7. conn'[c] = [conn[c] EXCEPT !.state = st] /\ \A d \in Conn : d # c => conn'[d] = conn[d]
    BY <1>1 DEF Ask, TypeOK
  <1>8. conn'[c].state # "LOGIN" /\ conn[c].state # "ended"
    BY <1>1, <1>3, <1>7 DEF ConnRecord, Waiting
  <1>9. ConnsKept /\ NamesKept
    BY <1>6, <1>7, <1>8, ConnsAreKept DEF NamesKept
  <1>10. QuietLine(m)
    BY <1>3, <1>5 DEF QuietLine
  <1> HIDE DEF m
  <1>11. Moved(up, up', NoTi, acfd[s], m) /\ Moved(down, down', NoTi, NoTi, Blank)
    BY <1>1, <1>2, <1>4, <1>6, UpAppended, DownSame
  <1> HIDE DEF s
  <1> QED
    BY <1>1, <1>6, <1>9, <1>10, <1>11, QuietStep

LEMMA GMCommandQuiet ==
    ASSUME SessionInv, NEW c \in Conn, conn[c].state = "LOGIN",
           NEW kind \in GMKind, NEW a \in Account, NEW z \in Server, GMCommand(c, kind, a, z)
    PROVE  Quiet
  <1> DEFINE s == conn[c].srv
             m == [Line(kind, c, a, Blank, NewSlot, FALSE) EXCEPT !.srv = z]
  <1>1. TypeOK /\ SlotsOK /\ ConnOK(c) /\ NoTi \notin Ti
    BY InvFacts, SessionAssumption DEF SessionAssumption
  <1>2. s \in Server /\ acfd[s] \in Ti /\ acfd[s] # NoTi
    BY <1>1 DEF ConnOK, Live, Dead
  <1>3. m \in Msg
    <2>1. kind \in Kind /\ a \in Account \union {NoAccount} /\ c \in Conn \union {NoConn} /\ FALSE \in BOOLEAN
      BY KindFacts
    <2>2. Line(kind, c, a, Blank, NewSlot, FALSE) \in Msg
      BY <2>1, LineType, BlankFacts
    <2> QED
      BY <2>2 DEF Msg
  <1>4. QuietLine(m)
    BY DEF Line, QuietLine, GMKind
  <1>5. up' = [up EXCEPT ![acfd[s]] = Append(@, m)] /\ UNCHANGED <<conn, down, gs, lock, file>>
    BY DEF GMCommand, Send, saacVars
  <1>6. ConnsKept /\ NamesKept
    BY <1>5, ConnsAreKept DEF NamesKept
  <1> HIDE DEF m
  <1>7. Moved(up, up', NoTi, acfd[s], m) /\ Moved(down, down', NoTi, NoTi, Blank)
    BY <1>1, <1>2, <1>3, <1>5, UpAppended, DownSame
  <1> HIDE DEF s
  <1> QED
    BY <1>1, <1>4, <1>5, <1>6, <1>7, QuietStep

LEMMA IdleQuiet ==
    ASSUME SessionInv, UNCHANGED <<up, down, gs, lock, file>>, ConnsKept
    PROVE  Quiet
  <1>1. Moved(up, up', NoTi, NoTi, Blank) /\ Moved(down, down', NoTi, NoTi, Blank) /\ NoTi \notin Ti
    BY InvFacts, UpSame, DownSame, SessionAssumption DEF SessionAssumption
  <1>2. NamesKept
    BY DEF NamesKept
  <1> QED
    BY <1>1, <1>2, QuietStep

LEMMA AcceptQuiet ==
    ASSUME SessionInv, NEW c \in Conn, NEW s \in Server, Accept(c, s)
    PROVE  Quiet
  <1>1. /\ conn[c].state = "unused" /\ conn' = [conn EXCEPT ![c] = Idle("NOTLOGIN", s)]
        /\ UNCHANGED <<up, down, gs, lock, file>> /\ TypeOK
    BY InvFacts DEF Accept, netVars, saacVars
  <1>2. conn'[c].state = "NOTLOGIN" /\ \A d \in Conn : d # c => conn'[d] = conn[d]
    BY <1>1 DEF Idle, TypeOK
  <1>3. \A d \in Conn : conn'[d] = conn[d] \/ (conn'[d].state # "LOGIN" /\ conn[d].state # "ended")
    BY <1>1, <1>2
  <1> QED
    BY <1>1, <1>3, ConnsAreKept, IdleQuiet

LEMMA ClientLoginQuiet ==
    ASSUME SessionInv, NEW c \in Conn, NEW a \in Account, ClientLogin(c, a)
    PROVE  Quiet
  <1>1. /\ conn[c].state = "NOTLOGIN" /\ conn' = [conn EXCEPT ![c].acct = a]
        /\ UNCHANGED <<up, down, gs, lock, file>> /\ TypeOK
    BY InvFacts DEF ClientLogin, netVars, saacVars
  <1>2. conn'[c].state = "NOTLOGIN" /\ \A d \in Conn : d # c => conn'[d] = conn[d]
    <2>1. conn[c] \in ConnRecord /\ conn'[c] = [conn[c] EXCEPT !.acct = a]
      BY <1>1 DEF TypeOK
    <2> QED
      BY <1>1, <2>1 DEF TypeOK, ConnRecord
  <1>3. \A d \in Conn : conn'[d] = conn[d] \/ (conn'[d].state # "LOGIN" /\ conn[d].state # "ended")
    BY <1>1, <1>2
  <1> QED
    BY <1>1, <1>3, ConnsAreKept, IdleQuiet

LEMMA EndIdleQuiet ==
    ASSUME SessionInv, NEW c \in Conn, EndConn(c), ~InPlay(c)
    PROVE  Quiet
  <1>1. /\ conn' = [conn EXCEPT ![c] = Idle("ended", NoServer)] /\ TypeOK
        /\ UNCHANGED <<up, down, gs, lock, file>>
    BY InvFacts DEF EndConn, netVars, saacVars
  <1>2. \A d \in Conn : conn'[d] = conn[d] \/ conn'[d].state = "ended"
    BY <1>1 DEF Idle, TypeOK
  <1> QED
    BY <1>1, <1>2, ConnsAreKept, IdleQuiet

-----------------------------------------------------------------------------
(* What a server reads.                                                    *)
LEMMA AnsweredQuiet ==
    ASSUME SessionInv, NEW s \in Server, NEW kind, Get(s, kind), NEW C \in SUBSET Asker(s),
           Became(C, "NOTLOGIN"), down' = Consumed(s), UNCHANGED <<acfd, up, eof, saacVars>>
    PROVE  Quiet
  <1>1. TypeOK /\ LinesOK /\ SlotsOK /\ NoTi \notin Ti /\ UNCHANGED <<up, gs, lock, file>>
    BY InvFacts, SessionAssumption DEF SessionAssumption, saacVars
  <1>2. /\ acfd[s] \in Ti /\ Moved(down, down', acfd[s], NoTi, Blank) /\ Moved(up, up', NoTi, NoTi, Blank)
    BY <1>1, DownConsumed, UpSame
  <1>3. ASSUME NEW c \in Conn, conn'[c] # conn[c]
        PROVE  conn'[c].state # "LOGIN" /\ conn[c].state # "ended"
    <2>1. c \in C /\ conn'[c] = [conn[c] EXCEPT !.state = "NOTLOGIN"] /\ conn[c] \in ConnRecord
      BY <1>1, <1>3 DEF Became, TypeOK
    <2>2. Live(c)
      BY <2>1 DEF Asker
    <2> QED
      BY <2>1, <2>2 DEF Live, Dead, ConnRecord
  <1>4. ConnsKept /\ NamesKept
    BY <1>1, <1>3, ConnsAreKept DEF NamesKept
  <1> QED
    BY <1>1, <1>2, <1>4, QuietStep

LEMMA GetKickQuiet ==
    ASSUME SessionInv, NEW s \in Server, GetKick(s)
    PROVE  Quiet
  <1>1. /\ TypeOK /\ LinesOK /\ SlotsOK /\ Get(s, "kick") /\ down' = Consumed(s)
        /\ UNCHANGED <<up, gs, lock, file>> /\ NoTi \notin Ti
    BY InvFacts, SessionAssumption DEF SessionAssumption, GetKick, GetQuietly, saacVars
  <1>2. acfd[s] \in Ti /\ Moved(down, down', acfd[s], NoTi, Blank) /\ Moved(up, up', NoTi, NoTi, Blank)
    BY <1>1, DownConsumed, UpSame
  <1>3. \A c \in Conn : conn'[c] = conn[c] \/ conn'[c] = [conn[c] EXCEPT !.close = TRUE]
    BY DEF GetKick
  <1>4. ConnsKept /\ NamesKept
    BY <1>1, <1>3, ConnsAreKept DEF NamesKept
  <1> QED
    BY <1>1, <1>2, <1>4, QuietStep

LEMMA GetUCheckQuiet ==
    ASSUME SessionInv, NEW s \in Server, GetUCheck(s)
    PROVE  Quiet
  <1>1. /\ TypeOK /\ LinesOK /\ SlotsOK /\ Get(s, "ucheck") /\ down' = Consumed(s) /\ NoTi \notin Ti
        /\ UNCHANGED <<acfd, conn, eof, gs, lock, file, tasks>>
    BY InvFacts, SessionAssumption DEF SessionAssumption, GetUCheck, saacVars
  <1>2. PICK playing \in BOOLEAN : up' = [up EXCEPT ![acfd[s]] =
                     Append(@, Line("ucheck", NoConn, Answered(s).acct, Blank, NewSlot, playing))]
    BY DEF GetUCheck
  <1> DEFINE m == Line("ucheck", NoConn, Answered(s).acct, Blank, NewSlot, playing)
  <1>3. /\ acfd[s] \in Ti /\ acfd[s] # NoTi /\ Answered(s) \in Msg /\ Moved(down, down', acfd[s], NoTi, Blank)
    BY <1>1, DownConsumed
  <1>4. m \in Msg
    <2>1. /\ "ucheck" \in Kind /\ NoConn \in Conn \union {NoConn}
          /\ Answered(s).acct \in Account \union {NoAccount}
      BY <1>3, KindFacts, MsgFacts
    <2> QED
      BY <2>1, LineType, BlankFacts
  <1>5. QuietLine(m)
    BY DEF Line, QuietLine
  <1>6. up' = [up EXCEPT ![acfd[s]] = Append(@, m)]
    BY <1>2
  <1> HIDE DEF m
  <1>7. Moved(up, up', NoTi, acfd[s], m)
    BY <1>1, <1>3, <1>4, <1>6, UpAppended
  <1>8. ConnsKept /\ NamesKept
    BY <1>1, ConnsAreKept DEF NamesKept
  <1> QED
    BY <1>1, <1>3, <1>5, <1>7, <1>8, QuietStep

(* A refused unlock is repeated.                                           *)
Resent(s, c) ==
    /\ Get(s, "unlock") /\ ~Answered(s).flag
    /\ up' = [up EXCEPT ![acfd[s]] = Append(@, UnlockLine(c))]
    /\ down' = Consumed(s)
    /\ UNCHANGED <<acfd, conn, eof, saacVars>>

LEMMA GetUnlockedSteps ==
    ASSUME SessionInv, NEW s \in Server, GetUnlocked(s)
    PROVE  Quiet \/ \E c \in Asker(s) : Resent(s, c)
  <1> DEFINE waiting == {c \in Asker(s) : conn[c].state = "WHILECANNOTLOGIN"}
  <1>1. Get(s, "unlock") /\ down' = Consumed(s) /\ UNCHANGED <<acfd, eof, saacVars>>
    BY DEF GetUnlocked
  <1>2. CASE Became(waiting, "NOTLOGIN") /\ UNCHANGED up
    <2>1. waiting \in SUBSET Asker(s)
      OBVIOUS
    <2> HIDE DEF waiting
    <2> QED
      BY <1>1, <1>2, <2>1, AnsweredQuiet
  <1>3. CASE /\ ~Answered(s).flag
             /\ \E c \in waiting : up' = [up EXCEPT ![acfd[s]] = Append(@, UnlockLine(c))]
             /\ UNCHANGED conn
    BY <1>1, <1>3 DEF Resent
  <1> QED
    BY <1>2, <1>3 DEF GetUnlocked, UnlockLine

LEMMA GmsvSteps ==
    ASSUME SessionInv, NEW s \in Server, GmsvReads(s)
    PROVE  \/ Quiet \/ GetLoad(s) \/ GetLoadUnusable(s)
           \/ \E c \in Asker(s) : Resent(s, c)
  <1>1. CASE GetRefusal(s)
    BY <1>1, ProcessGoneQuiet DEF GetRefusal, Get
  <1>2. CASE GetList(s) \/ GetLoadFailed(s)
    <2>1. Asker(s) \in SUBSET Asker(s)
      OBVIOUS
    <2> QED
      BY <1>2, <2>1, AnsweredQuiet DEF GetList, GetLoadFailed, GetQuietly
  <1>3. CASE GetSaved(s)
    <2> DEFINE C == {c \in Asker(s) : conn[c].state = "WHILECREATE"}
    <2>1. C \in SUBSET Asker(s) /\ Get(s, "save") /\ Became(C, "NOTLOGIN") /\ GetQuietly(s)
      BY <1>3 DEF GetSaved
    <2> HIDE DEF C
    <2> QED
      BY <2>1, AnsweredQuiet DEF GetQuietly
  <1>4. CASE GetDeleted(s)
    <2> DEFINE C == {c \in Asker(s) : conn[c].state = "WHILECHARDELETE"}
    <2>1. C \in SUBSET Asker(s) /\ Get(s, "delete") /\ Became(C, "NOTLOGIN") /\ GetQuietly(s)
      BY <1>4 DEF GetDeleted
    <2> HIDE DEF C
    <2> QED
      BY <2>1, AnsweredQuiet DEF GetQuietly
  <1> QED
    BY <1>1, <1>2, <1>3, <1>4, GetUnlockedSteps, GetKickQuiet, GetUCheckQuiet DEF GmsvReads

-----------------------------------------------------------------------------
(* What SAAC reads.                                                        *)
LEMMA RepliedQuiet ==
    ASSUME SessionInv, NEW ti \in Ti, NEW kinds, ReadsOneOf(ti, kinds), NEW n \in Msg, Replied(ti, n),
           QuietAnswer(n), UNCHANGED <<lock, file>>
    PROVE  Quiet
  <1>1. /\ up' = Tidied(ti) /\ Post(To(ti, n)) /\ UNCHANGED <<conn, gs>>
    BY DEF Replied
  <1>2. TypeOK /\ NoTi \notin Ti /\ Moved(up, up', ti, NoTi, Blank)
    BY <1>1, ReadFacts
  <1>3. Moved(down, down', NoTi, ti, n)
    BY <1>1, <1>2, PostTo
  <1>4. ConnsKept /\ NamesKept
    BY <1>1, ConnsAreKept DEF NamesKept
  <1> QED
    BY <1>2, <1>3, <1>4, QuietStep

LEMMA RefusedLoginQuiet ==
    ASSUME SessionInv, NEW ti \in Ti, Reads(ti, "login"), up' = Tidied(ti),
           Post(To(ti, ServerLine(Read(ti).srv, FALSE))), UNCHANGED <<gs, lock, gmsvVars, eof, file, tasks>>
    PROVE  Quiet
  <1> DEFINE n == ServerLine(Read(ti).srv, FALSE)
  <1>1. ReadsOneOf(ti, {"login"}) /\ UNCHANGED <<acfd, conn>>
    BY DEF Reads, gmsvVars
  <1>2. Read(ti) \in Msg
    BY <1>1, ReadFacts
  <1>3. n \in Msg /\ QuietAnswer(n)
    BY <1>2, BlankFacts, KindFacts, MsgFacts DEF ServerLine, Msg, QuietAnswer
  <1>4. Replied(ti, n)
    BY <1>1 DEF Replied
  <1> HIDE DEF n
  <1> QED
    BY <1>1, <1>3, <1>4, RepliedQuiet

LEMMA AddTaskQuiet ==
    ASSUME SessionInv, NEW ti \in Ti, AddTask(ti)
    PROVE  Quiet
  <1>1. /\ ReadsOneOf(ti, Pooled) /\ up' = Tidied(ti) /\ UNCHANGED <<conn, down, gs, lock, file>>
    BY DEF AddTask, gmsvVars
  <1>2. /\ TypeOK /\ NoTi \notin Ti /\ Moved(up, up', ti, NoTi, Blank)
        /\ Moved(down, down', NoTi, NoTi, Blank)
    BY <1>1, ReadFacts, DownSame
  <1>3. ConnsKept /\ NamesKept
    BY <1>1, ConnsAreKept DEF NamesKept
  <1> QED
    BY <1>1, <1>2, <1>3, QuietStep

LEMMA RefuseTaskQuiet ==
    ASSUME SessionInv, NEW ti \in Ti, RefuseTask(ti)
    PROVE  Quiet
  <1> DEFINE m == Read(ti)
  <1>1. PICK as \in {m.kind} \union (IF m.kind = "load" THEN {"list"} ELSE {}) :
           Post(To(ti, Line(as, m.conn, m.acct, Blank, NewSlot, FALSE)))
    BY DEF RefuseTask
  <1> DEFINE n == Line(as, m.conn, m.acct, Blank, NewSlot, FALSE)
  <1>2. ReadsOneOf(ti, Pooled) /\ up' = Tidied(ti) /\ UNCHANGED <<acfd, conn, eof, gs, lock, file, tasks>>
    BY DEF RefuseTask, gmsvVars, saacVars
  <1>3. m \in Msg /\ m.kind \in Pooled
    BY <1>2, ReadFacts
  <1>4. as \in Pooled /\ as \in Kind
    BY <1>3, KindFacts DEF Pooled
  <1>5. n \in Msg
    BY <1>3, <1>4, MsgFacts, LineType, BlankFacts
  <1>6. n.kind = as /\ ~n.flag
    BY DEF Line
  <1>7. Replied(ti, n)
    BY <1>1, <1>2 DEF Replied
  <1> HIDE DEF m, n
  <1>8. QuietAnswer(n)
    BY <1>4, <1>6 DEF QuietAnswer, Pooled
  <1> QED
    BY <1>2, <1>5, <1>7, <1>8, RepliedQuiet

LEMMA NoticeReadQuiet ==
    ASSUME SessionInv, NEW ti \in Ti, NEW kinds, ReadsOneOf(ti, kinds), up' = Tidied(ti),
           Post(Kicks(ti, Ti, Read(ti).acct)) \/ UNCHANGED down, "gm" \notin ClientOps => UNCHANGED lock,
           UNCHANGED <<conn, gs, file>>
    PROVE  Quiet
  <1>1. TypeOK /\ NoTi \notin Ti /\ Read(ti) \in Msg /\ Moved(up, up', ti, NoTi, Blank)
    BY ReadFacts
  <1>2. Read(ti).acct \in Account \union {NoAccount}
    BY <1>1, MsgFacts
  <1>3. Moved(down, down', NoTi, NoTi, Blank)
    BY <1>1, <1>2, PostKicks, DownSame
  <1>4. ConnsKept /\ NamesKept
    BY ConnsAreKept DEF NamesKept
  <1>5. UpKept(ti) /\ DownKept(NoTi)
    BY <1>1, <1>3, UpIsKept, DownIsKept
  <1> QED
    BY <1>4, <1>5 DEF Quiet, FilesKept

LEMMA RecvGMQuiet ==
    ASSUME SessionInv, NEW ti \in Ti, RecvUCheck(ti) \/ RecvGM(ti)
    PROVE  Quiet
  <1>1. CASE RecvUCheck(ti)
    BY <1>1, NoticeReadQuiet DEF RecvUCheck, Reads, gmsvVars, saacVars
  <1>2. CASE RecvGM(ti)
    <2>1. Post(Kicks(ti, Ti, Read(ti).acct)) \/ UNCHANGED down
      BY <1>2 DEF RecvGM
    <2>2. PICK kind \in GMKind : ReadsOneOf(ti, {kind})
      BY <1>2 DEF RecvGM, Reads, GMKind
    <2>3. up' = Tidied(ti) /\ UNCHANGED <<conn, gs, file>>
      BY <1>2 DEF RecvGM, gmsvVars
    <2>4. "gm" \in ClientOps
      BY <2>2, <2>3, ReadFacts DEF UpLineOK
    <2> QED
      BY <2>1, <2>2, <2>3, <2>4, NoticeReadQuiet
  <1> QED
    BY <1>1, <1>2

LoginGranted(ti) ==
    /\ Reads(ti, "login") /\ up' = Tidied(ti)
    /\ ~ \E t \in Ti : gs[t].use /\ gs[t].name = Read(ti).srv
    /\ gs' = [gs EXCEPT ![ti].name = Read(ti).srv]
    /\ lock' = Released(Read(ti).srv)
    /\ UNCHANGED <<down, gmsvVars, eof, file, tasks>>

LEMMA SaacSteps ==
    ASSUME SessionInv, NEW ti \in Ti, SaacReads(ti)
    PROVE  \/ Quiet \/ LoginGranted(ti) \/ RecvEof(ti)
           \/ RecvSave(ti) \/ RecvSaveFailed(ti) \/ RecvUnlock(ti)
  <1>1. CASE RecvLogin(ti)
    BY <1>1, RefusedLoginQuiet DEF RecvLogin, LoginGranted
  <1> QED
    BY <1>1, AddTaskQuiet, RefuseTaskQuiet, RecvGMQuiet DEF SaacReads, RecvRequest
-----------------------------------------------------------------------------
(* What SAAC's workers answer.                                             *)
LEMMA CallbackQuiet ==
    ASSUME SessionInv, NEW t \in tasks, NEW n \in Msg, QuietAnswer(n), Moved(down, down', NoTi, t.ti, n),
           UNCHANGED <<conn, up, gs, lock>>, UNCHANGED file \/ FilesKept
    PROVE  Quiet
  <1>1. TypeOK /\ NoTi \notin Ti /\ Moved(up, up', NoTi, NoTi, Blank)
    BY InvFacts, UpSame, SessionAssumption DEF SessionAssumption
  <1>2. UpKept(NoTi) /\ DownKept(NoTi)
    BY <1>1, UpIsKept, DownIsKept
  <1>3. ConnsKept /\ NamesKept
    BY ConnsAreKept DEF NamesKept
  <1> QED
    BY <1>2, <1>3 DEF Quiet, FilesKept

LEMMA CallbackSteps ==
    ASSUME SessionInv, NEW t \in tasks, Callback(t)
    PROVE  Quiet \/ LoadCallback(t)
  <1> DEFINE no == Line(t.kind, t.conn, t.acct, Blank, NewSlot, FALSE)
             ok == Line(t.kind, t.conn, t.acct, Blank, NewSlot, TRUE)
  <1>1. /\ TypeOK /\ t.ti \in Ti /\ t.acct \in Account /\ t.kind \in Pooled /\ t.kind # "unlock"
        /\ t.kind \in Kind /\ t.conn \in Conn \union {NoConn} /\ t.acct \in Account \union {NoAccount}
    BY InvFacts, TaskFacts DEF Pooled
  <1>2. no \in Msg /\ QuietAnswer(no)
    <2>1. no \in Msg
      BY <1>1, LineType, BlankFacts
    <2>2. no.kind = t.kind /\ ~no.flag
      BY DEF Line
    <2> HIDE DEF no
    <2> QED
      BY <1>1, <2>1, <2>2 DEF QuietAnswer
  <1>3. ok \in Msg /\ (t.kind # "load" => QuietAnswer(ok))
    <2>1. ok \in Msg
      BY <1>1, LineType, BlankFacts
    <2>2. ok.kind = t.kind
      BY DEF Line
    <2> HIDE DEF ok
    <2> QED
      BY <1>1, <2>1, <2>2 DEF QuietAnswer
  <1> HIDE DEF no, ok
  <1>4. \A T : /\ Kicks(t.ti, T, t.acct) \in Queues
               /\ \A u \in Ti : \A i \in DOMAIN Kicks(t.ti, T, t.acct)[u] :
                     Kicks(t.ti, T, t.acct)[u][i].kind \in Notice
    BY <1>1, KicksQueues
  <1>5. CASE CallbackRefused(t)
    <2>1. Post(To(t.ti, no)) /\ UNCHANGED <<conn, up, gs, lock, file>>
      BY <1>5 DEF CallbackRefused, AnswerTask, gmsvVars, no
    <2>2. Moved(down, down', NoTi, t.ti, no)
      BY <1>1, <1>2, <2>1, PostTo
    <2> QED
      BY <1>2, <2>1, <2>2, CallbackQuiet
  <1>6. CASE ListCallback(t)
    <2>1. t.kind = "list" /\ UNCHANGED <<conn, up, gs, lock, file>>
      BY <1>6 DEF ListCallback, gmsvVars
    <2>2. CASE lock[t.acct] = Free
      <3>1. Post(To(t.ti, ok))
        BY <1>6, <2>2 DEF ListCallback, AnswerTask, ok
      <3>2. Moved(down, down', NoTi, t.ti, ok) /\ ok \in Msg /\ QuietAnswer(ok)
        BY <1>1, <1>3, <2>1, <3>1, PostTo
      <3> QED
        BY <2>1, <3>2, CallbackQuiet
    <2>3. CASE lock[t.acct] # Free
      <3> DEFINE ask == Line("ucheck", NoConn, t.acct, Blank, NewSlot, FALSE)
                 lines == [u \in Ti |-> IF gs[u].name = lock[t.acct] /\ gs[u].name # NoServer
                                        THEN <<ask>> ELSE <<>>]
      <3>1. ask \in Msg /\ ask.kind \in Notice
        <4>1. "ucheck" \in Kind /\ NoConn \in Conn \union {NoConn} /\ FALSE \in BOOLEAN
          BY KindFacts
        <4>2. ask \in Msg
          BY <1>1, <4>1, LineType, BlankFacts
        <4> QED
          BY <4>2 DEF Line, Notice
      <3> HIDE DEF ask
      <3>2. <<ask>> \in Seq(Msg) /\ <<>> \in Seq(Msg) /\ <<ask>>[1] = ask
        BY <3>1
      <3>3. DOMAIN <<ask>> = {1} /\ DOMAIN <<>> = {}
        OBVIOUS
      <3>4. lines \in Queues
        BY <3>2 DEF Queues
      <3>5. ASSUME NEW u \in Ti, NEW i \in DOMAIN lines[u]
            PROVE  lines[u][i].kind \in Notice
        <4>1. lines[u] = <<ask>> \/ lines[u] = <<>>
          OBVIOUS
        <4> HIDE DEF lines
        <4> QED
          BY <3>1, <3>2, <3>3, <4>1
      <3>6. Post(Both(To(t.ti, no), lines))
        BY <1>6, <2>3 DEF ListCallback, AnswerTask, no, ask
      <3> HIDE DEF lines
      <3>7. Moved(down, down', NoTi, t.ti, no)
        BY <1>1, <1>2, <3>4, <3>5, <3>6, PostBoth
      <3> QED
        BY <1>2, <2>1, <3>7, CallbackQuiet
    <2> QED
      BY <2>2, <2>3
  <1>7. CASE LoadCallbackLocked(t)
    <2>1. Post(Both(To(t.ti, no), Kicks(t.ti, Ti, t.acct))) /\ UNCHANGED <<conn, up, gs, lock, file>>
      BY <1>7 DEF LoadCallbackLocked, AnswerTask, gmsvVars, no
    <2>2. Moved(down, down', NoTi, t.ti, no)
      BY <1>1, <1>2, <1>4, <2>1, PostBoth
    <2> QED
      BY <1>2, <2>1, <2>2, CallbackQuiet
  <1>8. CASE DeleteCallback(t)
    <2>1. t.kind = "delete" /\ Post(To(t.ti, ok)) /\ UNCHANGED <<conn, up, gs, lock>>
      BY <1>8 DEF DeleteCallback, AnswerTask, gmsvVars, ok
    <2>2. Moved(down, down', NoTi, t.ti, ok) /\ ok \in Msg /\ QuietAnswer(ok)
      BY <1>1, <1>3, <2>1, PostTo
    <2>3. "delete" \in ClientOps /\ file \in FileType
      BY <1>1, <2>1, TaskFacts DEF TaskOK, TypeOK, FileType
    <2>4. PICK k \in Slot : file' = [file EXCEPT ![t.acct][k] = Blank]
      BY <1>8 DEF DeleteCallback
    <2>5. FilesKept
      BY <1>1, <2>3, <2>4 DEF FilesKept, FileType
    <2> QED
      BY <2>1, <2>2, <2>5, CallbackQuiet
  <1> QED
    BY <1>5, <1>6, <1>7, <1>8 DEF Callback

-----------------------------------------------------------------------------
(* What clients do: the periodic save, and the one that ends play.         *)
Saves(c, b) ==
    /\ InPlay(c) /\ Send(conn[c].srv, SaveLine(c, b))
    /\ IF b THEN conn' = [conn EXCEPT ![c] = Idle("ended", NoServer)] ELSE UNCHANGED conn
    /\ UNCHANGED <<acfd, saacVars>>

LEMMA ClientSteps ==
    ASSUME SessionInv, NEW c \in Conn, Client(c)
    PROVE  Quiet \/ Play(c) \/ \E b \in BOOLEAN : Saves(c, b)
  <1>1. ASSUME NEW ch \in Char, CharLogin(c, ch) \/ CreateNewChar(c, ch) \/ CharDelete(c, ch)
        PROVE  Quiet
    BY <1>1, AskQuiet DEF CharLogin, CreateNewChar, CharDelete, Request
  <1>2. CASE CharList(c)
    BY <1>2, AskQuiet DEF CharList, Request
  <1>3. CASE Autosave(c)
    <2>1. InPlay(c)
      <3>1. conn[c].state = "LOGIN" /\ ConnOK(c)
        BY <1>3, InvFacts DEF Autosave
      <3> QED
        BY <3>1 DEF ConnOK, InPlay, Live, Dead
    <2>2. Saves(c, FALSE)
      BY <1>3, <2>1 DEF Autosave, Saves
    <2> QED
      BY <2>2
  <1>4. CASE EndConn(c)
    <2>1. CASE InPlay(c)
      <3>1. Saves(c, TRUE)
        BY <1>4, <2>1 DEF EndConn, Saves
      <3> QED
        BY <3>1
    <2>2. CASE ~InPlay(c)
      BY <1>4, <2>2, EndIdleQuiet
    <2> QED
      BY <2>1, <2>2
  <1>5. ASSUME conn[c].state = "LOGIN", NEW kind \in GMKind, NEW a \in Account, NEW s \in Server,
               GMCommand(c, kind, a, s)
        PROVE  Quiet
    BY <1>5, GMCommandQuiet
  <1> QED
    BY <1>1, <1>2, <1>3, <1>4, <1>5, AcceptQuiet, ClientLoginQuiet DEF Client

(* Every step is quiet, or one of ten.                                     *)
LEMMA Steps ==
    ASSUME SessionInv, [Next]_vars
    PROVE  \/ Quiet
           \/ \E c \in Conn : Play(c) \/ \E b \in BOOLEAN : Saves(c, b)
           \/ \E s \in Server : \/ GetLoad(s) \/ GetLoadUnusable(s)
                                \/ \E c \in Asker(s) : Resent(s, c)
           \/ \E ti \in Ti : \/ LoginGranted(ti) \/ RecvEof(ti)
                             \/ RecvSave(ti) \/ RecvSaveFailed(ti) \/ RecvUnlock(ti)
           \/ \E t \in tasks : LoadCallback(t)
  <1>1. CASE UNCHANGED vars
    <2>1. UNCHANGED <<up, down, gs, lock, file, conn>>
      BY <1>1 DEF vars
    <2> QED
      BY <2>1, ConnsAreKept, IdleQuiet
  <1>2. ASSUME NEW s \in Server, Crash(s) PROVE Quiet
    BY <1>2, ProcessGoneQuiet DEF Crash
  <1> QED
    BY <1>1, <1>2, StartServerQuiet, GmsvSteps, ClientSteps, SaacSteps, CallbackSteps DEF Next
-----------------------------------------------------------------------------
(***************************************************************************)
(* The holder of an account.  Of an account a there are lines on their way *)
(* to SAAC that save its character or unlock it, grants that have not been *)
(* read, and players.  Where there is any of them the account is locked    *)
(* for their server; a grant is alone; a line that unlocks is the last.    *)
(***************************************************************************)
OfAt(t, i, a) == i \in DOMAIN up[t] /\ up[t][i].acct = a /\ ~QuietLine(up[t][i])
FreesAt(t, i, a) ==
    OfAt(t, i, a) /\ (up[t][i].kind = "unlock" \/ up[t][i].flag)
GrantAt(t, i, a) ==
    /\ i \in DOMAIN down[t] /\ down[t][i].kind = "load" /\ down[t][i].flag /\ down[t][i].acct = a
    /\ down[t][i].conn \in Conn /\ Live(down[t][i].conn)
Plays(c, a) == InPlay(c) /\ conn[c].acct = a

LinesLocked(a) ==
    \A t \in Ti, i \in Nat : OfAt(t, i, a) => lock[a] = gs[t].name /\ gs[t].name # NoServer
FreesLast(a)   == \A t \in Ti, i, j \in Nat : i < j /\ OfAt(t, j, a) => ~FreesAt(t, i, a)
PlayerLocked(a) == \A c \in Conn : Plays(c, a) => lock[a] = conn[c].srv
OnePlayer(a)    == \A c, d \in Conn : Plays(c, a) /\ Plays(d, a) => c = d
PlayerAlone(a) ==
    \A c \in Conn : Plays(c, a) => \A t \in Ti, i \in Nat : ~FreesAt(t, i, a) /\ ~GrantAt(t, i, a)
GrantLocked(a) ==
    \A t \in Ti, i \in Nat : GrantAt(t, i, a) => lock[a] = gs[t].name /\ gs[t].name # NoServer
GrantAlone(a) ==
    \A t \in Ti, i \in Nat : GrantAt(t, i, a) =>
        /\ \A u \in Ti, j \in Nat : ~OfAt(u, j, a)
        /\ \A j \in Nat : GrantAt(t, j, a) => i = j

Holder(a) == /\ LinesLocked(a) /\ FreesLast(a)
             /\ PlayerLocked(a) /\ OnePlayer(a) /\ PlayerAlone(a)
             /\ GrantLocked(a) /\ GrantAlone(a)

(* No unlock is refused: the account is still locked when it is read.      *)
UnlockAnswers ==
    \A t \in Ti, i \in Nat : i \in DOMAIN down[t] /\ down[t][i].kind = "unlock" => down[t][i].flag

Holders == UnlockAnswers /\ \A a \in Account : Holder(a)

(* What stays of these in a step.                                          *)
Pos(ts, t, i) == IF t = ts THEN i + 1 ELSE i

LinesStay(a, ts) ==
    \A t \in Ti, i \in Nat :
        /\ OfAt(t, i, a)' => OfAt(t, Pos(ts, t, i), a)
        /\ FreesAt(t, i, a)' => FreesAt(t, Pos(ts, t, i), a)
GrantsStay(a, us) ==
    \A t \in Ti, i \in Nat : GrantAt(t, i, a)' => GrantAt(t, Pos(us, t, i), a)
PlayersStay(a) ==
    \A c \in Conn : Plays(c, a)' => Plays(c, a) /\ conn'[c].srv = conn[c].srv
NamesStay ==
    \A t \in Ti : \/ gs'[t].name = gs[t].name \/ gs[t].name = NoServer
                  \/ up'[t] = <<>> /\ down'[t] = <<>>
NoneRevives == \A c \in Conn : conn'[c].state \notin Dead => conn[c].state # "ended"

LEMMA KeptStays ==
    ASSUME NEW a, NEW ts, NEW t \in Ti, NEW i \in Nat, OfAt(t, i, a)', Kept(up, up', ts, t, i)
    PROVE  /\ OfAt(t, Pos(ts, t, i), a)
           /\ FreesAt(t, i, a)' => FreesAt(t, Pos(ts, t, i), a)
  BY DEF OfAt, FreesAt, Kept, Pos

LEMMA LinesOfQuiet ==
    ASSUME NEW a, NEW ts, UpKept(ts)
    PROVE  LinesStay(a, ts)
  <1> SUFFICES ASSUME NEW t \in Ti, NEW i \in Nat, OfAt(t, i, a)'
               PROVE  /\ OfAt(t, Pos(ts, t, i), a)
                      /\ FreesAt(t, i, a)' => FreesAt(t, Pos(ts, t, i), a)
    BY DEF LinesStay, FreesAt
  <1>1. Kept(up, up', ts, t, i)
    BY DEF OfAt, UpKept
  <1> QED
    BY <1>1, KeptStays

LEMMA GrantStays ==
    ASSUME SessionInv, NoneRevives, NEW a, NEW us, NEW t \in Ti, NEW i \in Nat,
           GrantAt(t, i, a)', Kept(down, down', us, t, i)
    PROVE  GrantAt(t, Pos(us, t, i), a)
  <1>1. /\ down'[t][i].conn \in Conn /\ conn'[down'[t][i].conn].state \notin Dead
        /\ down'[t][i].kind = "load" /\ down'[t][i].flag /\ down'[t][i].acct = a
    BY DEF GrantAt, Live
  <1>2. Pos(us, t, i) \in DOMAIN down[t] /\ down'[t][i] = down[t][Pos(us, t, i)]
    BY DEF Kept, Pos
  <1>3. PICK c \in Conn : c = down[t][Pos(us, t, i)].conn
    BY <1>1, <1>2
  <1>4. AsksFor(down[t][Pos(us, t, i)], c)
    BY <1>1, <1>2, <1>3, KindFacts DEF AsksFor
  <1>5. AskOK(c)
    BY InvFacts
  <1>6. conn[c].state # "unused"
    BY <1>2, <1>4, <1>5 DEF AskOK, AllFit, Fits
  <1>7. Live(c)
    BY <1>1, <1>2, <1>3, <1>6 DEF NoneRevives, Live, Dead
  <1> QED
    BY <1>1, <1>2, <1>3, <1>7 DEF GrantAt

LEMMA GrantsOfQuiet ==
    ASSUME SessionInv, NoneRevives, NEW a, NEW us, DownKept(us)
    PROVE  GrantsStay(a, us)
  <1> SUFFICES ASSUME NEW t \in Ti, NEW i \in Nat, GrantAt(t, i, a)'
               PROVE  GrantAt(t, Pos(us, t, i), a)
    BY DEF GrantsStay
  <1>1. Kept(down, down', us, t, i)
    BY DEF GrantAt, DownKept, QuietAnswer
  <1> QED
    BY <1>1, GrantStays

LEMMA PlayFacts ==
    ASSUME SessionInv, NEW c \in Conn
    PROVE  /\ InPlay(c) <=> conn[c].state = "LOGIN"
           /\ InPlay(c) => /\ Live(c) /\ conn[c].srv \in Server /\ conn[c].acct \in Account
                           /\ conn[c].slot \in Slot /\ conn[c].rec \in Record
                           /\ acfd[conn[c].srv] \in Ti /\ acfd[conn[c].srv] # NoTi
  <1>1. ConnOK(c) /\ conn[c] \in ConnRecord /\ NoTi \notin Ti
    BY InvFacts, SessionAssumption DEF SessionAssumption
  <1>2. InPlay(c) <=> conn[c].state = "LOGIN"
    BY <1>1 DEF ConnOK, InPlay, Live, Dead
  <1> QED
    BY <1>1, <1>2 DEF ConnOK, InPlay, ConnRecord

LEMMA PlayersOfQuiet ==
    ASSUME SessionInv, SessionInv', ConnsKept, NEW a
    PROVE  PlayersStay(a)
  <1> SUFFICES ASSUME NEW c \in Conn, Plays(c, a)'
               PROVE  Plays(c, a) /\ conn'[c].srv = conn[c].srv
    BY DEF PlayersStay
  <1>1. ConnOK(c)'
    BY DEF SessionInv, Base, ConnsOK
  <1>2. conn'[c].state = "LOGIN"
    BY <1>1 DEF ConnOK, Plays, InPlay
  <1>3. conn[c].state = "LOGIN" /\ conn'[c].srv = conn[c].srv /\ conn'[c].acct = conn[c].acct
    BY <1>2 DEF ConnsKept
  <1>4. conn'[c].acct = a
    BY DEF Plays
  <1> QED
    BY <1>3, <1>4, PlayFacts DEF Plays

LEMMA HolderStays ==
    ASSUME NEW a, Holder(a), NEW ts, NEW us, LinesStay(a, ts), GrantsStay(a, us), PlayersStay(a),
           NamesStay, lock'[a] = lock[a]
    PROVE  Holder(a)'
  <1>1. ASSUME NEW t, NEW i \in Nat PROVE Pos(ts, t, i) \in Nat /\ Pos(us, t, i) \in Nat
    BY DEF Pos
  <1>2. ASSUME NEW t \in Ti, NEW i \in Nat, OfAt(t, i, a)' \/ GrantAt(t, i, a)',
               lock[a] = gs[t].name, gs[t].name # NoServer
        PROVE  lock'[a] = gs'[t].name /\ gs'[t].name # NoServer
    <2>1. i \in DOMAIN up'[t] \/ i \in DOMAIN down'[t]
      BY <1>2 DEF OfAt, GrantAt
    <2>2. DOMAIN <<>> = {}
      OBVIOUS
    <2> QED
      BY <1>2, <2>1, <2>2 DEF NamesStay
  <1>3. LinesLocked(a)'
    <2> SUFFICES ASSUME NEW t \in Ti, NEW i \in Nat, OfAt(t, i, a)'
                 PROVE  (lock[a] = gs[t].name /\ gs[t].name # NoServer)'
      BY DEF LinesLocked
    <2>1. OfAt(t, Pos(ts, t, i), a) /\ Pos(ts, t, i) \in Nat
      BY <1>1 DEF LinesStay
    <2> QED
      BY <1>2, <2>1 DEF Holder, LinesLocked
  <1>4. FreesLast(a)'
    <2> SUFFICES ASSUME NEW t \in Ti, NEW i \in Nat, NEW j \in Nat, i < j, OfAt(t, j, a)', FreesAt(t, i, a)'
                 PROVE  FALSE
      BY DEF FreesLast
    <2>1. OfAt(t, Pos(ts, t, j), a) /\ FreesAt(t, Pos(ts, t, i), a)
      BY DEF LinesStay
    <2>2. Pos(ts, t, i) \in Nat /\ Pos(ts, t, j) \in Nat /\ Pos(ts, t, i) < Pos(ts, t, j)
      BY DEF Pos
    <2> QED
      BY <2>1, <2>2 DEF Holder, FreesLast
  <1>5. PlayerLocked(a)'
    BY DEF PlayersStay, Holder, PlayerLocked
  <1>6. OnePlayer(a)'
    BY DEF PlayersStay, Holder, OnePlayer
  <1>7. PlayerAlone(a)'
    <2> SUFFICES ASSUME NEW c \in Conn, Plays(c, a)', NEW t \in Ti, NEW i \in Nat
                 PROVE  ~FreesAt(t, i, a)' /\ ~GrantAt(t, i, a)'
      BY DEF PlayerAlone
    <2>1. ~FreesAt(t, Pos(ts, t, i), a) /\ ~GrantAt(t, Pos(us, t, i), a)
      BY <1>1 DEF PlayersStay, Holder, PlayerAlone
    <2> QED
      BY <2>1 DEF LinesStay, GrantsStay
  <1>8. GrantLocked(a)'
    <2> SUFFICES ASSUME NEW t \in Ti, NEW i \in Nat, GrantAt(t, i, a)'
                 PROVE  (lock[a] = gs[t].name /\ gs[t].name # NoServer)'
      BY DEF GrantLocked
    <2>1. GrantAt(t, Pos(us, t, i), a) /\ Pos(us, t, i) \in Nat
      BY <1>1 DEF GrantsStay
    <2> QED
      BY <1>2, <2>1 DEF Holder, GrantLocked
  <1>9. GrantAlone(a)'
    <2> SUFFICES ASSUME NEW t \in Ti, NEW i \in Nat, GrantAt(t, i, a)'
                 PROVE  /\ \A u \in Ti, j \in Nat : ~OfAt(u, j, a)'
                        /\ \A j \in Nat : GrantAt(t, j, a)' => i = j
      BY DEF GrantAlone
    <2>1. /\ \A u \in Ti, j \in Nat : ~OfAt(u, j, a)
          /\ \A j \in Nat : GrantAt(t, j, a) => Pos(us, t, i) = j
      BY <1>1 DEF Holder, GrantAlone, GrantsStay
    <2>2. \A u \in Ti, j \in Nat : ~OfAt(u, j, a)'
      BY <1>1, <2>1 DEF LinesStay
    <2>3. ASSUME NEW j \in Nat, GrantAt(t, j, a)' PROVE i = j
      <3>1. Pos(us, t, i) = Pos(us, t, j)
        BY <1>1, <2>1, <2>3 DEF GrantsStay
      <3> QED
        BY <3>1 DEF Pos
    <2> QED
      BY <2>2, <2>3
  <1> QED
    BY <1>3, <1>4, <1>5, <1>6, <1>7, <1>8, <1>9 DEF Holder

LEMMA LinesOfMove ==
    ASSUME NEW a, NEW ts, NEW t0, NEW m, Moved(up, up', ts, t0, m), t0 \in Ti => QuietLine(m) \/ m.acct # a
    PROVE  LinesStay(a, ts)
  <1> SUFFICES ASSUME NEW t \in Ti, NEW i \in Nat, OfAt(t, i, a)'
               PROVE  /\ OfAt(t, Pos(ts, t, i), a)
                      /\ FreesAt(t, i, a)' => FreesAt(t, Pos(ts, t, i), a)
    BY DEF LinesStay, FreesAt
  <1>1. i \in DOMAIN up'[t] /\ up'[t][i].acct = a /\ ~QuietLine(up'[t][i])
    BY DEF OfAt
  <1>2. up'[t][i].kind \notin Notice
    BY <1>1 DEF QuietLine, Notice
  <1>3. Kept(up, up', ts, t, i)
    BY <1>1, <1>2 DEF Moved
  <1> QED
    BY <1>3, KeptStays

LEMMA GrantsOfMove ==
    ASSUME SessionInv, NoneRevives, NEW a, NEW us, NEW u0, NEW n, Moved(down, down', us, u0, n),
           u0 \in Ti => ~(n.kind = "load" /\ n.flag /\ n.acct = a)
    PROVE  GrantsStay(a, us)
  <1> SUFFICES ASSUME NEW t \in Ti, NEW i \in Nat, GrantAt(t, i, a)'
               PROVE  GrantAt(t, Pos(us, t, i), a)
    BY DEF GrantsStay
  <1>1. /\ i \in DOMAIN down'[t] /\ down'[t][i].acct = a
        /\ down'[t][i].kind = "load" /\ down'[t][i].flag
    BY DEF GrantAt
  <1>2. down'[t][i].kind \notin Notice
    BY <1>1 DEF Notice
  <1>3. Kept(down, down', us, t, i)
    BY <1>1, <1>2 DEF Moved
  <1> QED
    BY <1>3, GrantStays

LEMMA PlayersSame ==
    ASSUME NEW a, \A c \in Conn : conn'[c] = conn[c] \/ ~(Plays(c, a)')
    PROVE  PlayersStay(a)
  BY DEF PlayersStay, Plays, InPlay, Live

(* One line read and one written, that do not concern the account.         *)
LEMMA MoveStays ==
    ASSUME SessionInv, NoneRevives, NEW a, Holder(a),
           NEW ts, NEW t0, NEW m, Moved(up, up', ts, t0, m), t0 \in Ti => QuietLine(m) \/ m.acct # a,
           NEW us, NEW u0, NEW n, Moved(down, down', us, u0, n),
           u0 \in Ti => ~(n.kind = "load" /\ n.flag /\ n.acct = a),
           PlayersStay(a), NamesStay, lock'[a] = lock[a]
    PROVE  Holder(a)'
  <1>1. LinesStay(a, ts) /\ GrantsStay(a, us)
    BY LinesOfMove, GrantsOfMove
  <1> QED
    BY <1>1, HolderStays

LEMMA EmptyHolder ==
    ASSUME NEW a, \A t \in Ti, i \in Nat : ~(OfAt(t, i, a)') /\ ~(GrantAt(t, i, a)'),
           \A c \in Conn : ~(Plays(c, a)')
    PROVE  Holder(a)'
  <1>1. LinesLocked(a)' /\ FreesLast(a)'
    BY DEF LinesLocked, FreesLast
  <1>2. PlayerLocked(a)' /\ OnePlayer(a)' /\ PlayerAlone(a)'
    BY DEF PlayerLocked, OnePlayer, PlayerAlone
  <1>3. GrantLocked(a)' /\ GrantAlone(a)'
    BY DEF GrantLocked, GrantAlone
  <1> QED
    BY <1>1, <1>2, <1>3 DEF Holder

LEMMA UnlocksStay ==
    ASSUME UnlockAnswers, TypeOK', NEW us, NEW u0, NEW n, Moved(down, down', us, u0, n),
           u0 \in Ti => (n.kind = "unlock" => n.flag)
    PROVE  UnlockAnswers'
  <1> SUFFICES ASSUME NEW t \in Ti, NEW i \in Nat, i \in DOMAIN down'[t], down'[t][i].kind = "unlock"
               PROVE  down'[t][i].flag
    BY DEF UnlockAnswers
  <1>1. CASE Kept(down, down', us, t, i)
    <2>1. PICK j \in Nat : j \in DOMAIN down[t] /\ down'[t][i] = down[t][j]
      BY <1>1 DEF Kept
    <2> QED
      BY <2>1 DEF UnlockAnswers
  <1> QED
    BY <1>1 DEF Moved, Notice

(* The name of a slot is that of one slot.                                 *)
LEMMA NameFacts ==
    ASSUME SessionInv
    PROVE  /\ \A t, u \in Ti : gs[t].name # NoServer /\ gs[t].name = gs[u].name => t = u
           /\ \A t \in Ti : gs[t].name \in Server \union {NoServer}
           /\ Free \notin Server /\ NoServer \notin Server /\ Free # NoServer /\ NoTi \notin Ti
  BY InvFacts, SessionAssumption DEF SlotsOK, TypeOK, SessionAssumption

-----------------------------------------------------------------------------
(***************************************************************************)
(* Clients come when their server is logged in, and no game master locks   *)
(* or unlocks by hand: without the first a lock is in nobody's name, the    *)
(* second breaks any lock.                                                 *)
(***************************************************************************)
LateClients == ~EarlyClients /\ "gm" \notin ClientOps

LEMMA QuietHolders ==
    ASSUME SessionInv, SessionInv', LateClients, Holders, Quiet
    PROVE  Holders'
  <1>1. PICK ts \in Ti \union {NoTi}, us \in Ti \union {NoTi} : UpKept(ts) /\ DownKept(us)
    BY DEF Quiet
  <1>2. ConnsKept /\ lock' = lock /\ NamesStay /\ NoneRevives
    BY DEF Quiet, LateClients, NamesKept, NamesStay, ConnsKept, NoneRevives
  <1>3. ASSUME NEW a \in Account PROVE Holder(a)'
    <2>1. LinesStay(a, ts) /\ GrantsStay(a, us) /\ PlayersStay(a)
      BY <1>1, <1>2, LinesOfQuiet, GrantsOfQuiet, PlayersOfQuiet
    <2>2. Holder(a)
      BY DEF Holders
    <2> QED
      BY <1>2, <2>1, <2>2, HolderStays
  <1>4. UnlockAnswers'
    <2> SUFFICES ASSUME NEW t \in Ti, NEW i \in Nat, i \in DOMAIN down'[t], down'[t][i].kind = "unlock"
                 PROVE  down'[t][i].flag
      BY DEF UnlockAnswers
    <2>1. Kept(down, down', us, t, i)
      BY <1>1 DEF DownKept, QuietAnswer
    <2>2. PICK j \in Nat : j \in DOMAIN down[t] /\ down'[t][i] = down[t][j]
      BY <2>1 DEF Kept
    <2> QED
      BY <2>2 DEF Holders, UnlockAnswers
  <1> QED
    BY <1>3, <1>4 DEF Holders

LEMMA PlayHolders ==
    ASSUME SessionInv, SessionInv', Holders, NEW c \in Conn, Play(c)
    PROVE  Holders'
  <1>1. /\ TypeOK /\ conn[c] \in ConnRecord /\ conn[c].state = "LOGIN" /\ InPlay(c)
        /\ UNCHANGED <<up, down, gs, lock>>
    BY InvFacts, PlayFacts DEF Play, netVars, saacVars
  <1>2. conn'[c] = [conn[c] EXCEPT !.rec.ver = @ + 1] /\ \A d \in Conn : d # c => conn'[d] = conn[d]
    BY <1>1 DEF Play, TypeOK
  <1>3. conn'[c].srv = conn[c].srv /\ conn'[c].acct = conn[c].acct /\ conn'[c].state = "LOGIN"
    BY <1>1, <1>2 DEF ConnRecord
  <1>4. /\ Moved(up, up', NoTi, NoTi, Blank) /\ Moved(down, down', NoTi, NoTi, Blank) /\ NoTi \notin Ti
    BY <1>1, UpSame, DownSame, NameFacts
  <1>5. NamesStay /\ NoneRevives
    <2>1. \A d \in Conn : d = c \/ conn'[d].state = conn[d].state
      BY <1>2
    <2>2. conn[c].state # "ended"
      BY <1>1
    <2>3. \A d \in Conn : conn'[d].state \notin Dead => conn[d].state # "ended"
      BY <2>1, <2>2 DEF Dead
    <2> QED
      BY <1>1, <2>3 DEF NamesStay, NoneRevives
  <1>6. ASSUME NEW a \in Account PROVE Holder(a)'
    <2>1. PlayersStay(a)
      BY <1>1, <1>2, <1>3 DEF PlayersStay, Plays, InPlay, Live
    <2>2. Holder(a) /\ lock'[a] = lock[a]
      BY <1>1 DEF Holders
    <2> QED
      BY <1>4, <1>5, <2>1, <2>2, MoveStays
  <1>7. UnlockAnswers'
    BY <1>1 DEF Holders, UnlockAnswers
  <1> QED
    BY <1>6, <1>7 DEF Holders

(* A connection in play is on a server that has logged in, and its account *)
(* is locked for it.                                                       *)
LEMMA PlayerFacts ==
    ASSUME SessionInv, LateClients, NEW a, Holder(a), NEW c \in Conn, Plays(c, a)
    PROVE  /\ acfd[conn[c].srv] \in Ti /\ conn[c].srv \in Server /\ conn[c].acct = a
           /\ gs[acfd[conn[c].srv]].name = conn[c].srv /\ lock[a] = conn[c].srv
           /\ ~eof[acfd[conn[c].srv]]
           /\ \A d \in Conn : Plays(d, a) => d = c
           /\ \A t \in Ti, i \in Nat : ~FreesAt(t, i, a) /\ ~GrantAt(t, i, a)
  <1>1. ConnOK(c) /\ Live(c) /\ conn[c].acct = a /\ SlotsOK /\ TypeOK /\ NoTi \notin Ti
    BY InvFacts, PlayFacts, NameFacts DEF Plays
  <1>2. acfd[conn[c].srv] \in Ti /\ conn[c].srv \in Server /\ gs[acfd[conn[c].srv]].name = conn[c].srv
    BY <1>1 DEF ConnOK, LateClients
  <1>3. ~eof[acfd[conn[c].srv]]
    BY <1>1, <1>2, SlotFacts
  <1> QED
    BY <1>1, <1>2, <1>3 DEF Holder, PlayerLocked, OnePlayer, PlayerAlone

LEMMA SaverHolder ==
    ASSUME SessionInv, LateClients, NEW c \in Conn, NEW b \in BOOLEAN, Saves(c, b), NEW a, Holder(a),
           a = conn[c].acct
    PROVE  Holder(a)'
  <1> DEFINE h == acfd[conn[c].srv]
             m == SaveLine(c, b)
  <1>1. /\ Plays(c, a) /\ up' = [up EXCEPT ![h] = Append(@, m)]
        /\ UNCHANGED <<acfd, down, gs, lock>>
    BY DEF Saves, Plays, Send, saacVars
  <1>2. /\ h \in Ti /\ conn[c].srv \in Server /\ h # NoTi
        /\ gs[h].name = conn[c].srv /\ lock[a] = conn[c].srv
        /\ \A d \in Conn : Plays(d, a) => d = c
        /\ \A t \in Ti, i \in Nat : ~FreesAt(t, i, a) /\ ~GrantAt(t, i, a)
    BY <1>1, PlayerFacts, NameFacts
  <1>3. TypeOK /\ SlotsOK
    BY InvFacts
  <1>4. m \in Msg /\ m.kind = "save" /\ m.flag = b
    BY <1>1, SaveLineFacts DEF Plays
  <1> HIDE DEF m
  <1>5. Moved(up, up', NoTi, h, m) /\ up' \in Queues
    BY <1>1, <1>2, <1>3, <1>4, UpAppended
  <1>6. ASSUME NEW t \in Ti, NEW i \in Nat, OfAt(t, i, a)'
        PROVE  \/ OfAt(t, i, a) /\ i \in DOMAIN up[t] /\ ~(FreesAt(t, i, a)')
               \/ t = h /\ i = Len(up[h]) + 1 /\ up'[t][i] = m
    <2>1. Kept(up, up', NoTi, t, i) \/ (t = h /\ i = Len(up[h]) + 1 /\ up'[t][i] = m)
      <3>1. i \in DOMAIN up'[t] /\ up'[t][i].kind \notin Notice
        BY <1>6 DEF OfAt, QuietLine, Notice
      <3> QED
        BY <1>5, <3>1 DEF Moved
    <2>2. CASE Kept(up, up', NoTi, t, i)
      <3>1. Pos(NoTi, t, i) = i
        BY NameFacts DEF Pos
      <3>2. OfAt(t, i, a) /\ (FreesAt(t, i, a)' => FreesAt(t, i, a))
        BY <1>6, <2>2, <3>1, KeptStays
      <3> QED
        BY <1>2, <3>2 DEF OfAt
    <2> QED
      BY <2>1, <2>2
  <1>7. LinesLocked(a)'
    <2> SUFFICES ASSUME NEW t \in Ti, NEW i \in Nat, OfAt(t, i, a)'
                 PROVE  (lock[a] = gs[t].name /\ gs[t].name # NoServer)'
      BY DEF LinesLocked
    <2>1. CASE OfAt(t, i, a)
      BY <1>1, <2>1 DEF Holder, LinesLocked
    <2>2. CASE t = h
      BY <1>1, <1>2, <2>2, NameFacts
    <2> QED
      BY <1>6, <2>1, <2>2
  <1>8. FreesLast(a)'
    <2> SUFFICES ASSUME NEW t \in Ti, NEW i \in Nat, NEW j \in Nat, i < j, OfAt(t, j, a)', FreesAt(t, i, a)'
                 PROVE  FALSE
      BY DEF FreesLast
    <2>1. OfAt(t, i, a)'
      BY DEF FreesAt
    <2>2. t = h /\ i = Len(up[h]) + 1
      BY <1>6, <2>1
    <2>3. j \in DOMAIN up[h] \/ j = Len(up[h]) + 1
      BY <1>6, <2>2
    <2>4. Len(up[h]) \in Nat /\ DOMAIN up[h] = 1 .. Len(up[h])
      BY <1>2, <1>3, QueueFacts
    <2> QED
      BY <2>2, <2>3, <2>4
  <1>9. ASSUME NEW d \in Conn, Plays(d, a)'
        PROVE  d = c /\ ~b /\ conn'[c] = conn[c]
    <2>1. CASE b
      <3>1. conn'[c] = Idle("ended", NoServer) /\ \A e \in Conn : e # c => conn'[e] = conn[e]
        BY <1>3, <2>1 DEF Saves, TypeOK
      <3>2. d # c
        BY <1>9, <3>1 DEF Plays, InPlay, Live, Dead, Idle
      <3>3. Plays(d, a)
        BY <1>9, <3>1, <3>2 DEF Plays, InPlay, Live
      <3> QED
        BY <1>2, <3>2, <3>3
    <2>2. CASE ~b
      <3>1. conn' = conn
        BY <2>2 DEF Saves
      <3>2. Plays(d, a)
        BY <1>9, <3>1 DEF Plays, InPlay, Live
      <3> QED
        BY <1>2, <2>2, <3>1, <3>2
    <2> QED
      BY <2>1, <2>2
  <1>10. ASSUME NEW t \in Ti, NEW i \in Nat PROVE ~(GrantAt(t, i, a)')
    <2>1. \A d \in Conn : conn'[d] = conn[d] \/ conn'[d].state = "ended"
      BY <1>3 DEF Saves, TypeOK, Idle
    <2>2. SUFFICES ASSUME GrantAt(t, i, a)' PROVE FALSE
      OBVIOUS
    <2>3. PICK d \in Conn : d = down[t][i].conn /\ conn'[d].state \notin Dead
      BY <1>1, <2>2 DEF GrantAt, Live
    <2>4. Live(d)
      BY <2>1, <2>3 DEF Live, Dead
    <2>5. GrantAt(t, i, a)
      BY <1>1, <2>2, <2>3, <2>4 DEF GrantAt
    <2> QED
      BY <1>2, <2>5
  <1>11. PlayerLocked(a)' /\ OnePlayer(a)'
    BY <1>1, <1>2, <1>9 DEF PlayerLocked, OnePlayer
  <1>12. PlayerAlone(a)'
    <2> SUFFICES ASSUME NEW d \in Conn, Plays(d, a)', NEW t \in Ti, NEW i \in Nat
                 PROVE  ~(FreesAt(t, i, a)') /\ ~(GrantAt(t, i, a)')
      BY DEF PlayerAlone
    <2>1. ~m.flag /\ m.kind # "unlock"
      BY <1>4, <1>9
    <2>2. FreesAt(t, i, a)' => OfAt(t, i, a)' /\ (up'[t][i].kind = "unlock" \/ up'[t][i].flag)
      BY DEF FreesAt
    <2> QED
      BY <1>6, <1>10, <2>1, <2>2
  <1>13. GrantLocked(a)' /\ GrantAlone(a)'
    BY <1>10 DEF GrantLocked, GrantAlone
  <1> QED
    BY <1>7, <1>8, <1>11, <1>12, <1>13 DEF Holder

LEMMA SavesHolders ==
    ASSUME SessionInv, SessionInv', LateClients, Holders, NEW c \in Conn, NEW b \in BOOLEAN, Saves(c, b)
    PROVE  Holders'
  <1> DEFINE h == acfd[conn[c].srv]
             m == SaveLine(c, b)
  <1>1. InPlay(c) /\ up' = [up EXCEPT ![h] = Append(@, m)] /\ UNCHANGED <<down, gs, lock>>
    BY DEF Saves, Send, saacVars
  <1>2. TypeOK /\ SlotsOK /\ m \in Msg /\ m.acct = conn[c].acct /\ h # NoTi /\ conn[c].srv \in Server
    BY <1>1, InvFacts, SaveLineFacts
  <1> HIDE DEF m
  <1>3. /\ Moved(up, up', NoTi, h, m) /\ Moved(down, down', NoTi, NoTi, Blank) /\ NoTi \notin Ti
    BY <1>1, <1>2, UpAppended, DownSame, NameFacts
  <1>4. \A d \in Conn : conn'[d] = conn[d] \/ conn'[d].state = "ended"
    BY <1>2 DEF Saves, TypeOK, Idle
  <1>5. NamesStay /\ NoneRevives
    BY <1>1, <1>4 DEF NamesStay, NoneRevives, Dead
  <1>6. ASSUME NEW a \in Account PROVE Holder(a)'
    <2>1. Holder(a) /\ lock'[a] = lock[a]
      BY <1>1 DEF Holders
    <2>2. PlayersStay(a)
      BY <1>4, PlayersSame DEF Plays, InPlay, Live, Dead
    <2>3. CASE a = conn[c].acct
      BY <2>1, <2>3, SaverHolder
    <2>4. CASE a # conn[c].acct
      <3>1. m.acct # a
        BY <1>2, <2>4
      <3> HIDE DEF h
      <3> QED
        BY <1>3, <1>5, <2>1, <2>2, <3>1, MoveStays
    <2> QED
      BY <2>3, <2>4
  <1>7. UnlockAnswers'
    BY <1>1 DEF Holders, UnlockAnswers
  <1> QED
    BY <1>6, <1>7 DEF Holders

-----------------------------------------------------------------------------
(* A grant that is read.                                                   *)
LEMMA LoadAsker ==
    ASSUME SessionInv, NEW s \in Server, Get(s, "load"), NEW c \in Asker(s)
    PROVE  conn[c].srv = s /\ conn[c].acct \in Account /\ conn[c].acct = Answered(s).acct
  <1>1. "load" \in AsksKind
    BY KindFacts
  <1> QED
    BY <1>1, AskerFacts, ZenonT(30)

LEMMA GrantTaken ==
    ASSUME SessionInv, Holders, NEW s \in Server, Get(s, "load"), Answered(s).flag,
           NEW c \in Asker(s), down' = Consumed(s), NoneRevives, NEW a, a = conn[c].acct
    PROVE  /\ a \in Account /\ Holder(a) /\ lock[a] = s /\ conn[c].srv = s
           /\ acfd[s] \in Ti /\ acfd[s] # NoTi /\ gs[acfd[s]].name = s
           /\ \A t \in Ti, i \in Nat : ~OfAt(t, i, a)
           /\ \A t \in Ti, i \in Nat : ~(GrantAt(t, i, a)')
           /\ \A d \in Conn : ~Plays(d, a)
  <1> DEFINE h == acfd[s]
             m == Answered(s)
  <1>1. /\ TypeOK /\ LinesOK /\ SlotsOK /\ "load" \in AsksKind
    BY InvFacts, KindFacts
  <1>2. /\ h \in Ti /\ h # NoTi /\ Moved(down, down', h, NoTi, Blank)
        /\ 1 \in DOMAIN down[h] /\ m = down[h][1] /\ m.kind = "load" /\ down' \in Queues
    BY <1>1, DownConsumed
  <1>3. /\ c \in Conn /\ Live(c) /\ conn[c].acct = m.acct /\ conn[c].acct \in Account /\ conn[c].srv = s
    <2>1. c \in Conn /\ Live(c)
      BY DEF Asker
    <2> QED
      BY <2>1, LoadAsker
  <1>4. m.conn = c
    BY DEF Asker
  <1>5. GrantAt(h, 1, a) /\ Holder(a) /\ a \in Account
    BY <1>2, <1>3, <1>4 DEF GrantAt, Holders
  <1> HIDE DEF m
  <1>6. lock[a] = gs[h].name /\ gs[h].name # NoServer
    BY <1>2, <1>5 DEF Holder, GrantLocked
  <1>7. gs[h].name = s
    BY <1>1, <1>2, <1>6 DEF SlotsOK
  <1>8. \A t \in Ti, i \in Nat : ~OfAt(t, i, a)
    BY <1>2, <1>5 DEF Holder, GrantAlone
  <1>9. \A d \in Conn : ~Plays(d, a)
    BY <1>2, <1>5 DEF Holder, PlayerAlone
  <1>10. ASSUME NEW t \in Ti, NEW i \in Nat PROVE ~(GrantAt(t, i, a)')
    <2> SUFFICES ASSUME GrantAt(t, i, a)' PROVE FALSE
      OBVIOUS
    <2>1. GrantsStay(a, h)
      BY <1>2, GrantsOfMove, NameFacts
    <2>2. GrantAt(t, Pos(h, t, i), a) /\ Pos(h, t, i) \in Nat
      BY <2>1 DEF GrantsStay, Pos
    <2>3. t = h
      BY <1>2, <1>5, <1>6, <2>2, NameFacts DEF Holder, GrantLocked
    <2>4. Pos(h, t, i) = 1
      BY <1>2, <1>5, <2>2, <2>3 DEF Holder, GrantAlone
    <2>5. i \in DOMAIN down'[t] /\ down'[t] \in Seq(Msg)
      BY <1>2 DEF GrantAt, Queues
    <2>6. i # 0
      BY <2>5, SeqFacts
    <2> QED
      BY <2>3, <2>4, <2>6 DEF Pos
  <1> QED
    BY <1>2, <1>3, <1>5, <1>6, <1>7, <1>8, <1>9, <1>10

LEMMA GetLoadHolders ==
    ASSUME SessionInv, SessionInv', Holders, NEW s \in Server, GetLoad(s)
    PROVE  Holders'
  <1>1. /\ Get(s, "load") /\ Answered(s).flag /\ down' = Consumed(s) /\ UNCHANGED <<up, gs, lock>>
    BY DEF GetLoad, GetQuietly, saacVars
  <1>2. PICK c \in Asker(s) :
          conn' = [conn EXCEPT ![c].state = "LOGIN", ![c].rec = Answered(s).rec, ![c].slot = Answered(s).slot]
    BY DEF GetLoad
  <1>3. TypeOK /\ LinesOK /\ SlotsOK /\ TypeOK' /\ c \in Conn /\ Live(c) /\ conn[c] \in ConnRecord
    BY InvFacts DEF SessionInv, Base, Asker
  <1>4. /\ conn'[c] = [conn[c] EXCEPT !.state = "LOGIN", !.rec = Answered(s).rec, !.slot = Answered(s).slot]
        /\ \A d \in Conn : d # c => conn'[d] = conn[d]
    BY <1>2, <1>3 DEF TypeOK
  <1>5. conn'[c].srv = conn[c].srv /\ conn'[c].acct = conn[c].acct
    BY <1>3, <1>4 DEF ConnRecord
  <1>6. NamesStay /\ NoneRevives
    <2>1. \A d \in Conn : conn'[d] = conn[d] \/ conn[d].state # "ended"
      BY <1>3, <1>4 DEF Live, Dead
    <2> QED
      BY <1>1, <2>1 DEF NamesStay, NoneRevives, Dead
  <1>7. Moved(up, up', NoTi, NoTi, Blank) /\ Moved(down, down', acfd[s], NoTi, Blank) /\ NoTi \notin Ti
    BY <1>1, <1>3, UpSame, DownConsumed, NameFacts
  <1>8. ASSUME NEW a \in Account PROVE Holder(a)'
    <2>1. CASE a # conn[c].acct
      <3>1. Holder(a) /\ lock'[a] = lock[a]
        BY <1>1 DEF Holders
      <3>2. PlayersStay(a)
        BY <1>4, <1>5, <2>1, PlayersSame DEF Plays
      <3> QED
        BY <1>6, <1>7, <3>1, <3>2, MoveStays
    <2>2. CASE a = conn[c].acct
      <3>1. /\ lock[a] = s /\ conn[c].srv = s
            /\ \A t \in Ti, i \in Nat : ~OfAt(t, i, a)
            /\ \A t \in Ti, i \in Nat : ~(GrantAt(t, i, a)')
            /\ \A d \in Conn : ~Plays(d, a)
        BY <1>1, <1>6, <2>2, GrantTaken
      <3>2. \A t \in Ti, i \in Nat : ~(OfAt(t, i, a)')
        BY <1>1, <3>1 DEF OfAt
      <3>3. \A d \in Conn : Plays(d, a)' => d = c
        BY <1>4, <3>1 DEF Plays, InPlay, Live
      <3>4. PlayerLocked(a)' /\ OnePlayer(a)'
        BY <1>1, <1>5, <3>1, <3>3 DEF PlayerLocked, OnePlayer
      <3>5. PlayerAlone(a)' /\ LinesLocked(a)' /\ FreesLast(a)'
        BY <3>1, <3>2 DEF PlayerAlone, LinesLocked, FreesLast, FreesAt
      <3>6. GrantLocked(a)' /\ GrantAlone(a)'
        BY <3>1 DEF GrantLocked, GrantAlone
      <3> QED
        BY <3>4, <3>5, <3>6 DEF Holder
    <2> QED
      BY <2>1, <2>2
  <1>9. UnlockAnswers'
    BY <1>3, <1>7, UnlocksStay DEF Holders
  <1> QED
    BY <1>8, <1>9 DEF Holders

LEMMA GetLoadUnusableHolders ==
    ASSUME SessionInv, SessionInv', Holders, NEW s \in Server, GetLoadUnusable(s)
    PROVE  Holders'
  <1>1. /\ Get(s, "load") /\ Answered(s).flag /\ down' = Consumed(s) /\ UNCHANGED <<gs, lock>>
    BY DEF GetLoadUnusable, saacVars
  <1>2. PICK c \in Asker(s) :
          /\ conn' = [conn EXCEPT ![c].state = "WHILECANNOTLOGIN", ![c].rec = Blank]
          /\ up' = [up EXCEPT ![acfd[s]] = Append(@, UnlockLine(c))]
    BY DEF GetLoadUnusable, UnlockLine
  <1> DEFINE h == acfd[s]
             m == UnlockLine(c)
  <1>3. /\ TypeOK /\ LinesOK /\ SlotsOK /\ TypeOK' /\ c \in Conn /\ Live(c) /\ conn[c] \in ConnRecord
        /\ "load" \in AsksKind
    BY InvFacts, KindFacts DEF SessionInv, Base, Asker
  <1>4. /\ conn'[c] = [conn[c] EXCEPT !.state = "WHILECANNOTLOGIN", !.rec = Blank]
        /\ \A d \in Conn : d # c => conn'[d] = conn[d]
    BY <1>2, <1>3 DEF TypeOK
  <1>5. conn'[c].rec.char = NoChar
    BY <1>3, <1>4, BlankFacts DEF ConnRecord
  <1>6. NamesStay /\ NoneRevives
    <2>1. \A d \in Conn : conn'[d] = conn[d] \/ conn[d].state # "ended"
      BY <1>3, <1>4 DEF Live, Dead
    <2> QED
      BY <1>1, <2>1 DEF NamesStay, NoneRevives, Dead
  <1>7. \A d \in Conn, a \in Account : conn'[d] = conn[d] \/ ~(Plays(d, a)')
    BY <1>4, <1>5 DEF Plays, InPlay
  <1>8. conn[c].acct \in Account /\ h # NoTi
    BY <1>1, <1>3, AskerFacts, DownConsumed
  <1>9. m \in Msg /\ m.acct = conn[c].acct /\ m.kind = "unlock"
    BY <1>3, <1>8, UnlockLineFacts
  <1> HIDE DEF m
  <1>10. Moved(up, up', NoTi, h, m) /\ Moved(down, down', h, NoTi, Blank) /\ NoTi \notin Ti
    BY <1>1, <1>2, <1>3, <1>8, <1>9, UpAppended, DownConsumed, NameFacts DEF m
  <1>11. ASSUME NEW a \in Account PROVE Holder(a)'
    <2>1. CASE a # conn[c].acct
      <3>1. Holder(a) /\ lock'[a] = lock[a]
        BY <1>1 DEF Holders
      <3>2. PlayersStay(a)
        BY <1>7, PlayersSame
      <3>3. m.acct # a
        BY <1>9, <2>1
      <3> HIDE DEF h
      <3> QED
        BY <1>6, <1>10, <3>1, <3>2, <3>3, MoveStays
    <2>2. CASE a = conn[c].acct
      <3>1. /\ lock[a] = s /\ gs[h].name = s /\ h \in Ti
            /\ \A t \in Ti, i \in Nat : ~OfAt(t, i, a)
            /\ \A t \in Ti, i \in Nat : ~(GrantAt(t, i, a)')
            /\ \A d \in Conn : ~Plays(d, a)
        BY <1>1, <1>6, <2>2, GrantTaken
      <3>2. ASSUME NEW t \in Ti, NEW i \in Nat, OfAt(t, i, a)'
            PROVE  t = h /\ i = Len(up[h]) + 1
        <4>1. i \in DOMAIN up'[t] /\ up'[t][i].kind \notin Notice
          BY <3>2 DEF OfAt, QuietLine, Notice
        <4>2. Pos(NoTi, t, i) = i
          BY <1>10 DEF Pos
        <4>3. ~Kept(up, up', NoTi, t, i)
          BY <3>1, <3>2, <4>2, KeptStays
        <4> QED
          BY <1>10, <4>1, <4>3 DEF Moved
      <3>3. \A d \in Conn : ~(Plays(d, a)')
        BY <1>7, <3>1 DEF Plays, InPlay, Live
      <3>4. PlayerLocked(a)' /\ OnePlayer(a)' /\ PlayerAlone(a)'
        BY <3>3 DEF PlayerLocked, OnePlayer, PlayerAlone
      <3>5. LinesLocked(a)'
        BY <1>1, <3>1, <3>2, NameFacts DEF LinesLocked
      <3>6. FreesLast(a)'
        <4> SUFFICES ASSUME NEW t \in Ti, NEW i \in Nat, NEW j \in Nat, i < j,
                            OfAt(t, j, a)', FreesAt(t, i, a)'
                     PROVE  FALSE
          BY DEF FreesLast
        <4>1. OfAt(t, i, a)'
          BY DEF FreesAt
        <4>2. i = j
          BY <3>2, <4>1
        <4> QED
          BY <4>2
      <3>7. GrantLocked(a)' /\ GrantAlone(a)'
        BY <3>1 DEF GrantLocked, GrantAlone
      <3> QED
        BY <3>4, <3>5, <3>6, <3>7 DEF Holder
    <2> QED
      BY <2>1, <2>2
  <1>12. UnlockAnswers'
    BY <1>3, <1>10, UnlocksStay DEF Holders
  <1> QED
    BY <1>11, <1>12 DEF Holders

(* No unlock is ever sent again.                                           *)
LEMMA NeverResent ==
    ASSUME SessionInv, Holders, NEW s \in Server, NEW c \in Asker(s), Resent(s, c)
    PROVE  FALSE
  <1>1. TypeOK /\ LinesOK /\ SlotsOK /\ Get(s, "unlock") /\ down' = Consumed(s) /\ ~Answered(s).flag
    BY InvFacts DEF Resent
  <1>2. /\ acfd[s] \in Ti /\ 1 \in DOMAIN down[acfd[s]]
        /\ Answered(s) = down[acfd[s]][1] /\ Answered(s).kind = "unlock"
    BY <1>1, DownConsumed
  <1> QED
    BY <1>1, <1>2 DEF Holders, UnlockAnswers

-----------------------------------------------------------------------------
(* A line that SAAC reads and answers.                                     *)
LEMMA ReadHolders ==
    ASSUME SessionInv, SessionInv', Holders, NEW ti \in Ti, NEW kind \in {"save", "unlock"}, Reads(ti, kind),
           up' = Tidied(ti), NEW b \in BOOLEAN, Post(To(ti, Reply(Read(ti), b))), UNCHANGED <<conn, gs>>,
           IF kind = "unlock" \/ Read(ti).flag
           THEN lock' = [lock EXCEPT ![Read(ti).acct] = Free] ELSE lock' = lock,
           kind = "unlock" => (lock[Read(ti).acct] # Free => b)
    PROVE  Holders'
  <1> DEFINE m == Read(ti)
             n == Reply(m, b)
             frees == kind = "unlock" \/ m.flag
  <1>1. ReadsOneOf(ti, {kind})
    BY DEF Reads
  <1>2. /\ TypeOK /\ LinesOK /\ SlotsOK /\ TypeOK' /\ NoTi \notin Ti
        /\ up' \in Queues /\ Moved(up, up', ti, NoTi, Blank)
        /\ 1 \in DOMAIN up[ti] /\ m = up[ti][1] /\ m \in Msg /\ UpLineOK(m) /\ m.kind \in {kind}
    BY <1>1, ReadFacts DEF SessionInv, Base
  <1>3. m.acct \in Account /\ m.conn \in Conn \union {NoConn} /\ m.kind = kind /\ m.kind \in Kind
    BY <1>2, KindFacts, MsgFacts DEF UpLineOK
  <1>4. n \in Msg /\ n.kind = kind /\ n.flag = b /\ n.kind # "load"
    <2>1. n \in Msg
      BY <1>3, LineType, BlankFacts DEF Reply
    <2> QED
      BY <1>3, <2>1 DEF Reply, Line
  <1>5. Post(To(ti, n))
    OBVIOUS
  <1> HIDE DEF n
  <1>6. Moved(down, down', NoTi, ti, n)
    BY <1>2, <1>4, <1>5, PostTo
  <1>7. NamesStay /\ NoneRevives
    BY DEF NamesStay, NoneRevives, Dead
  <1>8. frees => FreesAt(ti, 1, m.acct)
    BY <1>2, <1>3 DEF FreesAt, OfAt, QuietLine, UpLineOK
  <1>9. lock' = IF frees THEN [lock EXCEPT ![m.acct] = Free] ELSE lock
    OBVIOUS
  <1>10. UnlockAnswers'
    <2>1. kind = "unlock" => lock[m.acct] # Free
      <3> SUFFICES ASSUME kind = "unlock" PROVE lock[m.acct] # Free
        OBVIOUS
      <3>1. OfAt(ti, 1, m.acct) /\ Holder(m.acct)
        BY <1>3, <1>8 DEF FreesAt, Holders
      <3>2. lock[m.acct] = gs[ti].name /\ gs[ti].name # NoServer
        BY <3>1 DEF Holder, LinesLocked
      <3> QED
        BY <3>2, NameFacts
    <2>2. n.kind = "unlock" => n.flag
      BY <1>4, <2>1
    <2> QED
      BY <1>2, <1>6, <2>2, UnlocksStay DEF Holders
  <1> HIDE DEF m
  <1>11. ASSUME NEW a \in Account PROVE Holder(a)'
    <2>1. Holder(a) /\ PlayersStay(a)
      BY PlayersSame DEF Holders
    <2>2. CASE frees /\ a = m.acct
      <3>1. FreesAt(ti, 1, a) /\ OfAt(ti, 1, a)
        BY <1>8, <2>2 DEF FreesAt
      <3>2. lock[a] = gs[ti].name /\ gs[ti].name # NoServer
        BY <2>1, <3>1 DEF Holder, LinesLocked
      <3>3. ASSUME NEW t \in Ti, NEW i \in Nat PROVE ~(OfAt(t, i, a)')
        <4> SUFFICES ASSUME OfAt(t, i, a)' PROVE FALSE
          OBVIOUS
        <4>1. LinesStay(a, ti)
          BY <1>2, LinesOfMove
        <4>2. OfAt(t, Pos(ti, t, i), a) /\ Pos(ti, t, i) \in Nat
          BY <4>1 DEF LinesStay, Pos
        <4>3. t = ti
          BY <2>1, <3>2, <4>2, NameFacts DEF Holder, LinesLocked
        <4>4. i \in DOMAIN up'[t] /\ up'[t] \in Seq(Msg)
          BY <1>2 DEF OfAt, Queues
        <4>5. i # 0
          BY <4>4, SeqFacts
        <4>6. 1 < Pos(ti, t, i)
          BY <4>3, <4>5 DEF Pos
        <4> QED
          BY <2>1, <3>1, <4>2, <4>3, <4>6 DEF Holder, FreesLast
      <3>4. ASSUME NEW t \in Ti, NEW i \in Nat PROVE ~GrantAt(t, i, a)
        BY <2>1, <3>1 DEF Holder, GrantAlone
      <3>5. ASSUME NEW t \in Ti, NEW i \in Nat PROVE ~(GrantAt(t, i, a)')
        <4>1. GrantsStay(a, NoTi)
          BY <1>4, <1>6, <1>7, GrantsOfMove
        <4>2. Pos(NoTi, t, i) = i
          BY <1>2 DEF Pos
        <4> QED
          BY <3>4, <4>1, <4>2 DEF GrantsStay
      <3>6. ASSUME NEW d \in Conn PROVE ~(Plays(d, a)')
        BY <2>1, <3>1 DEF Holder, PlayerAlone, PlayersStay
      <3> QED
        BY <3>3, <3>5, <3>6, EmptyHolder
    <2>3. CASE ~(frees /\ a = m.acct)
      <3>1. lock'[a] = lock[a]
        BY <1>2, <1>9, <2>3 DEF TypeOK
      <3>2. ~(n.kind = "load" /\ n.flag /\ n.acct = a)
        BY <1>4
      <3> HIDE DEF frees
      <3> QED
        BY <1>2, <1>6, <1>7, <2>1, <3>1, <3>2, MoveStays
    <2> QED
      BY <2>2, <2>3
  <1> QED
    BY <1>10, <1>11 DEF Holders

LEMMA SaveReadHolders ==
    ASSUME SessionInv, SessionInv', Holders, NEW ti \in Ti,
           RecvSave(ti) \/ RecvSaveFailed(ti) \/ RecvUnlock(ti)
    PROVE  Holders'
  <1> DEFINE m == Read(ti)
  <1>1. TypeOK
    BY InvFacts
  <1>2. ASSUME RecvSave(ti) \/ RecvSaveFailed(ti) PROVE Holders'
    <2>1. PICK b \in BOOLEAN : Post(To(ti, Reply(m, b)))
      BY <1>2 DEF RecvSave, RecvSaveFailed
    <2>2. Reads(ti, "save") /\ up' = Tidied(ti) /\ UNCHANGED <<conn, gs>> /\ lock' = Unlocked(m)
      BY <1>2 DEF RecvSave, RecvSaveFailed, gmsvVars
    <2>3. IF m.flag THEN lock' = [lock EXCEPT ![m.acct] = Free] ELSE lock' = lock
      BY <1>1, <2>2 DEF Unlocked, TypeOK
    <2>4. "save" \in {"save", "unlock"} /\ "save" # "unlock"
      OBVIOUS
    <2> HIDE DEF m
    <2> QED
      BY <2>1, <2>2, <2>3, <2>4, ReadHolders DEF m
  <1>3. ASSUME RecvUnlock(ti) PROVE Holders'
    <2>1. PICK b \in BOOLEAN : b = (lock[m.acct] # Free)
      OBVIOUS
    <2>2. /\ Reads(ti, "unlock") /\ up' = Tidied(ti) /\ UNCHANGED <<conn, gs>>
          /\ lock' = [lock EXCEPT ![m.acct] = Free] /\ Post(To(ti, Reply(m, b)))
      BY <1>3, <2>1 DEF RecvUnlock, gmsvVars
    <2>3. "unlock" \in {"save", "unlock"}
      OBVIOUS
    <2> QED
      BY <2>1, <2>2, <2>3, ReadHolders
  <1> QED
    BY <1>2, <1>3

-----------------------------------------------------------------------------
(* A server's login and its end.                                           *)
LEMMA LoginHolders ==
    ASSUME SessionInv, SessionInv', LateClients, Holders, NEW ti \in Ti, LoginGranted(ti)
    PROVE  Holders'
  <1> DEFINE s == Read(ti).srv
  <1>1. ReadsOneOf(ti, {"login"}) /\ up' = Tidied(ti) /\ UNCHANGED <<down, conn>>
    BY DEF LoginGranted, Reads, gmsvVars
  <1>2. /\ TypeOK /\ SlotsOK /\ NoTi \notin Ti /\ Moved(up, up', ti, NoTi, Blank)
        /\ 1 \in DOMAIN up[ti] /\ Read(ti) = up[ti][1] /\ UpLineOK(Read(ti)) /\ Read(ti).kind \in {"login"}
    BY <1>1, ReadFacts
  <1>3. s \in Server /\ gs[ti].name = NoServer /\ Moved(down, down', NoTi, NoTi, Blank)
    BY <1>1, <1>2, DownSame DEF UpLineOK, SlotsOK
  <1>4. ~ \E t \in Ti : gs[t].use /\ gs[t].name = s
    BY DEF LoginGranted
  <1>5. lock' = Released(s) /\ gs' = [gs EXCEPT ![ti].name = s]
    BY DEF LoginGranted
  <1> HIDE DEF s
  <1>6. \A t \in Ti : gs[t].name # s
    BY <1>2, <1>3, <1>4, NameFacts DEF SlotsOK
  <1>7. NamesStay /\ NoneRevives
    <2>1. \A t \in Ti : t # ti => gs'[t].name = gs[t].name
      BY <1>2, <1>5 DEF TypeOK
    <2>2. \A t \in Ti : gs'[t].name = gs[t].name \/ gs[t].name = NoServer
      BY <1>3, <2>1
    <2> QED
      BY <1>1, <2>2 DEF NamesStay, NoneRevives, Dead
  <1>8. ASSUME NEW a \in Account PROVE Holder(a)'
    <2>1. Holder(a) /\ PlayersStay(a) /\ lock'[a] = IF lock[a] = s THEN Free ELSE lock[a]
      BY <1>1, <1>5, PlayersSame DEF Holders, Released
    <2>2. CASE lock[a] # s
      BY <1>2, <1>3, <1>7, <2>1, <2>2, MoveStays
    <2>3. CASE lock[a] = s
      <3>1. ASSUME NEW t \in Ti, NEW i \in Nat PROVE ~OfAt(t, i, a) /\ ~GrantAt(t, i, a)
        BY <1>6, <2>1, <2>3 DEF Holder, LinesLocked, GrantLocked
      <3>2. LinesStay(a, ti) /\ GrantsStay(a, NoTi)
        BY <1>2, <1>3, <1>7, LinesOfMove, GrantsOfMove
      <3>3. ASSUME NEW t \in Ti, NEW i \in Nat PROVE ~(OfAt(t, i, a)') /\ ~(GrantAt(t, i, a)')
        <4>1. Pos(ti, t, i) \in Nat /\ Pos(NoTi, t, i) \in Nat
          BY DEF Pos
        <4> QED
          BY <3>1, <3>2, <4>1 DEF LinesStay, GrantsStay
      <3>4. ASSUME NEW d \in Conn PROVE ~(Plays(d, a)')
        <4> SUFFICES ASSUME Plays(d, a)' PROVE FALSE
          OBVIOUS
        <4>1. Plays(d, a)
          BY <2>1 DEF PlayersStay
        <4>2. acfd[conn[d].srv] \in Ti /\ gs[acfd[conn[d].srv]].name = conn[d].srv /\ lock[a] = conn[d].srv
          BY <2>1, <4>1, PlayerFacts
        <4> QED
          BY <1>6, <2>3, <4>2
      <3> QED
        BY <3>3, <3>4, EmptyHolder
    <2> QED
      BY <2>2, <2>3
  <1>9. UnlockAnswers'
    BY <1>1 DEF Holders, UnlockAnswers
  <1> QED
    BY <1>8, <1>9 DEF Holders

LEMMA EofHolders ==
    ASSUME SessionInv, SessionInv', LateClients, Holders, NEW ti \in Ti, RecvEof(ti)
    PROVE  Holders'
  <1> DEFINE z == gs[ti].name
  <1>1. /\ gs[ti].use /\ eof[ti] /\ up[ti] = <<>> /\ lock' = Released(z)
        /\ gs' = [gs EXCEPT ![ti] = [use |-> FALSE, name |-> NoServer]]
        /\ down' = [down EXCEPT ![ti] = <<>>] /\ UNCHANGED <<conn, up>>
    BY DEF RecvEof, gmsvVars
  <1>2. TypeOK /\ TypeOK' /\ SlotsOK /\ NoTi \notin Ti /\ down \in Queues
    BY InvFacts, NameFacts DEF SessionInv, Base, TypeOK, Queues
  <1>3. Moved(up, up', NoTi, NoTi, Blank) /\ Moved(down, down', NoTi, NoTi, Blank)
    BY <1>1, <1>2, UpSame, MovedEmpty
  <1>4. up'[ti] = <<>> /\ down'[ti] = <<>> /\ \A t \in Ti : t # ti => gs'[t].name = gs[t].name
    BY <1>1, <1>2 DEF TypeOK
  <1>5. NamesStay /\ NoneRevives
    BY <1>1, <1>4 DEF NamesStay, NoneRevives, Dead
  <1>6. DOMAIN <<>> = {}
    OBVIOUS
  <1>7. ASSUME NEW a \in Account PROVE Holder(a)'
    <2>1. Holder(a) /\ PlayersStay(a) /\ lock'[a] = IF lock[a] = z THEN Free ELSE lock[a]
      BY <1>1, PlayersSame DEF Holders, Released
    <2>2. CASE lock[a] # z
      BY <1>2, <1>3, <1>5, <2>1, <2>2, MoveStays
    <2>3. CASE lock[a] = z
      <3>1. LinesStay(a, NoTi) /\ GrantsStay(a, NoTi)
        BY <1>2, <1>3, <1>5, LinesOfMove, GrantsOfMove
      <3>2. ASSUME NEW t \in Ti, NEW i \in Nat PROVE ~(OfAt(t, i, a)') /\ ~(GrantAt(t, i, a)')
        <4>1. Pos(NoTi, t, i) = i
          BY <1>2 DEF Pos
        <4>2. OfAt(t, i, a) \/ GrantAt(t, i, a) => t = ti
          BY <2>1, <2>3, NameFacts DEF Holder, LinesLocked, GrantLocked
        <4>3. t = ti => ~(OfAt(t, i, a)') /\ ~(GrantAt(t, i, a)')
          BY <1>4, <1>6 DEF OfAt, GrantAt
        <4> QED
          BY <3>1, <4>1, <4>2, <4>3 DEF LinesStay, GrantsStay
      <3>3. ASSUME NEW d \in Conn PROVE ~(Plays(d, a)')
        <4> SUFFICES ASSUME Plays(d, a)' PROVE FALSE
          OBVIOUS
        <4>1. Plays(d, a)
          BY <2>1 DEF PlayersStay
        <4>2. /\ acfd[conn[d].srv] \in Ti /\ gs[acfd[conn[d].srv]].name = conn[d].srv /\ lock[a] = conn[d].srv
              /\ conn[d].srv \in Server /\ ~eof[acfd[conn[d].srv]]
          BY <2>1, <4>1, PlayerFacts
        <4>3. acfd[conn[d].srv] = ti
          BY <2>3, <4>2, NameFacts
        <4> QED
          BY <1>1, <4>2, <4>3
      <3> QED
        BY <3>2, <3>3, EmptyHolder
    <2> QED
      BY <2>2, <2>3
  <1>8. UnlockAnswers'
    BY <1>2, <1>3, UnlocksStay DEF Holders
  <1> QED
    BY <1>7, <1>8 DEF Holders

-----------------------------------------------------------------------------
(* The answer of a granted load.                                           *)
Granted(t, k) == Line("load", t.conn, t.acct, file[t.acct][k], k, TRUE)

LEMMA GrantedFacts ==
    ASSUME SessionInv, NEW t \in tasks, LoadCallback(t)
    PROVE  \E k \in Slot :
              /\ file[t.acct][k].char = t.char /\ t.char \in Char
              /\ Granted(t, k) \in Msg /\ Moved(down, down', NoTi, t.ti, Granted(t, k))
  <1>1. /\ TypeOK /\ t.ti \in Ti /\ t.conn \in Conn /\ t.acct \in Account
        /\ t.kind = "load" /\ t.char \in Char
    BY InvFacts, TaskFacts DEF LoadCallback, TaskOK
  <1>2. PICK k \in Slot :
           /\ IsIndexOf(t.acct, t.char, k)
           /\ Post(Both(AnswerTask(t, file[t.acct][k], k, TRUE), Kicks(t.ti, Ti \ {t.ti}, t.acct)))
    BY DEF LoadCallback
  <1>3. file[t.acct][k] \in Record /\ file[t.acct][k].char = t.char /\ k \in SaveIndex /\ "load" \in Kind
    BY <1>1, <1>2, KindFacts DEF TypeOK, IsIndexOf, SaveIndex
  <1>4. Granted(t, k) \in Msg
    BY <1>1, <1>3, LineType DEF Granted
  <1>5. Post(Both(To(t.ti, Granted(t, k)), Kicks(t.ti, Ti \ {t.ti}, t.acct)))
    BY <1>1, <1>2 DEF AnswerTask, Granted
  <1>6. /\ Kicks(t.ti, Ti \ {t.ti}, t.acct) \in Queues
        /\ \A u \in Ti : \A i \in DOMAIN Kicks(t.ti, Ti \ {t.ti}, t.acct)[u] :
              Kicks(t.ti, Ti \ {t.ti}, t.acct)[u][i].kind \in Notice
    BY <1>1, KicksQueues
  <1>7. Moved(down, down', NoTi, t.ti, Granted(t, k))
    BY <1>1, <1>4, <1>5, <1>6, PostBoth
  <1> QED
    BY <1>1, <1>3, <1>4, <1>7

LEMMA LoadHolders ==
    ASSUME SessionInv, SessionInv', LateClients, Holders, NEW t \in tasks, LoadCallback(t)
    PROVE  Holders'
  <1>1. PICK k \in Slot : Moved(down, down', NoTi, t.ti, Granted(t, k))
    BY GrantedFacts
  <1> DEFINE n == Granted(t, k)
  <1>2. n.kind = "load" /\ n.acct = t.acct /\ n.conn = t.conn
    BY DEF Granted, Line
  <1>3. Moved(down, down', NoTi, t.ti, n)
    BY <1>1
  <1> HIDE DEF n
  <1>4. /\ TypeOK /\ TypeOK' /\ SlotsOK /\ NoTi \notin Ti
        /\ t.ti \in Ti /\ t.acct \in Account /\ t.conn \in Conn /\ t.kind = "load"
    BY InvFacts, TaskFacts, NameFacts DEF SessionInv, Base, LoadCallback
  <1>5. /\ lock[t.acct] = Free /\ lock' = [lock EXCEPT ![t.acct] = gs[t.ti].name]
        /\ UNCHANGED <<acfd, conn, up, gs>>
    BY DEF LoadCallback, gmsvVars
  <1>6. Moved(up, up', NoTi, NoTi, Blank)
    BY <1>4, <1>5, UpSame
  <1>7. NamesStay /\ NoneRevives
    BY <1>5 DEF NamesStay, NoneRevives, Dead
  <1>8. ASSUME NEW a \in Account PROVE Holder(a)'
    <2>1. Holder(a) /\ PlayersStay(a)
      BY <1>5, PlayersSame DEF Holders
    <2>2. CASE a # t.acct
      <3>1. lock'[a] = lock[a] /\ n.acct # a
        BY <1>2, <1>4, <1>5, <2>2 DEF TypeOK
      <3> QED
        BY <1>3, <1>4, <1>6, <1>7, <2>1, <3>1, MoveStays
    <2>3. CASE a = t.acct
      <3>1. ASSUME NEW u \in Ti, NEW i \in Nat PROVE ~OfAt(u, i, a) /\ ~GrantAt(u, i, a)
        BY <1>5, <2>1, <2>3, NameFacts DEF Holder, LinesLocked, GrantLocked
      <3>2. ASSUME NEW d \in Conn PROVE ~Plays(d, a)
        <4>1. Plays(d, a) => lock[a] \in Server
          BY <2>1, PlayFacts DEF Holder, PlayerLocked, Plays
        <4> QED
          BY <1>5, <2>3, <4>1, NameFacts
      <3>3. ASSUME NEW u \in Ti, NEW i \in Nat PROVE ~(OfAt(u, i, a)')
        BY <1>5, <3>1 DEF OfAt
      <3>4. ASSUME NEW d \in Conn PROVE ~(Plays(d, a)')
        BY <2>1, <3>2 DEF PlayersStay
      <3>5. ASSUME NEW u \in Ti, NEW i \in Nat, GrantAt(u, i, a)'
            PROVE  u = t.ti /\ i = Len(down[t.ti]) + 1 /\ Live(t.conn)
        <4>1. i \in DOMAIN down'[u] /\ down'[u][i].kind \notin Notice
          BY <3>5 DEF GrantAt, Notice
        <4>2. Pos(NoTi, u, i) = i
          BY <1>4 DEF Pos
        <4>3. ~Kept(down, down', NoTi, u, i)
          BY <1>7, <3>1, <3>5, <4>2, GrantStays
        <4>4. u = t.ti /\ i = Len(down[t.ti]) + 1 /\ down'[u][i] = n
          BY <1>3, <4>1, <4>3 DEF Moved
        <4>5. PICK d \in Conn : d = down'[u][i].conn /\ conn'[d].state \notin Dead
          BY <3>5 DEF GrantAt, Live
        <4>6. d = t.conn /\ Live(d)
          BY <1>2, <1>5, <4>4, <4>5 DEF Live
        <4> QED
          BY <4>4, <4>6
      <3>6. Live(t.conn) => gs[t.ti].name # NoServer
        <4>1. AskOK(t.conn) /\ ConnOK(t.conn)
          BY <1>4, InvFacts
        <4>2. Fits(t, t.conn, t.ti)
          BY <4>1 DEF AskOK, AllFit
        <4> QED
          BY <4>1, <4>2, NameFacts DEF Fits, ConnOK, LateClients
      <3>7. lock'[a] = gs[t.ti].name
        BY <1>4, <1>5, <2>3 DEF TypeOK
      <3>8. LinesLocked(a)' /\ FreesLast(a)'
        BY <3>3 DEF LinesLocked, FreesLast
      <3>9. PlayerLocked(a)' /\ OnePlayer(a)' /\ PlayerAlone(a)'
        BY <3>4 DEF PlayerLocked, OnePlayer, PlayerAlone
      <3>10. GrantLocked(a)'
        BY <1>5, <3>5, <3>6, <3>7 DEF GrantLocked
      <3>11. GrantAlone(a)'
        BY <3>3, <3>5 DEF GrantAlone
      <3> QED
        BY <3>8, <3>9, <3>10, <3>11 DEF Holder
    <2> QED
      BY <2>2, <2>3
  <1>9. UnlockAnswers'
    BY <1>2, <1>3, <1>4, UnlocksStay DEF Holders
  <1> QED
    BY <1>8, <1>9 DEF Holders

-----------------------------------------------------------------------------
LEMMA HoldersInit == Init => Holders
  <1> SUFFICES ASSUME Init PROVE Holders
    OBVIOUS
  <1>1. DOMAIN <<>> = {}
    OBVIOUS
  <1>2. /\ \A t \in Ti : up[t] = <<>> /\ down[t] = <<>>
        /\ \A c \in Conn : ~InPlay(c)
    BY DEF Init, InPlay, Live, Dead, Idle
  <1>3. \A t \in Ti, i \in Nat, a \in Account : ~OfAt(t, i, a) /\ ~GrantAt(t, i, a)
    BY <1>1, <1>2 DEF OfAt, GrantAt
  <1>4. \A c \in Conn, a \in Account : ~Plays(c, a)
    BY <1>2 DEF Plays
  <1>5. ASSUME NEW a \in Account PROVE Holder(a)
    <2>1. LinesLocked(a) /\ FreesLast(a) /\ GrantLocked(a) /\ GrantAlone(a)
      BY <1>3 DEF LinesLocked, FreesLast, GrantLocked, GrantAlone
    <2>2. PlayerLocked(a) /\ OnePlayer(a) /\ PlayerAlone(a)
      BY <1>4 DEF PlayerLocked, OnePlayer, PlayerAlone
    <2> QED
      BY <2>1, <2>2 DEF Holder
  <1>6. UnlockAnswers
    BY <1>1, <1>2 DEF UnlockAnswers
  <1> QED
    BY <1>5, <1>6 DEF Holders

LEMMA HoldersStep ==
    ASSUME LateClients, SessionInv, Holders, [Next]_vars
    PROVE  Holders'
  <1>1. SessionInv'
    BY SessionStep
  <1>2. ASSUME NEW c \in Conn, Play(c) \/ \E b \in BOOLEAN : Saves(c, b) PROVE Holders'
    BY <1>1, <1>2, PlayHolders, SavesHolders
  <1>3. ASSUME NEW s \in Server, GetLoad(s) \/ GetLoadUnusable(s) \/ \E c \in Asker(s) : Resent(s, c)
        PROVE  Holders'
    BY <1>1, <1>3, GetLoadHolders, GetLoadUnusableHolders, NeverResent
  <1>4. ASSUME NEW ti \in Ti, \/ LoginGranted(ti) \/ RecvEof(ti)
                              \/ RecvSave(ti) \/ RecvSaveFailed(ti) \/ RecvUnlock(ti)
        PROVE  Holders'
    BY <1>1, <1>4, LoginHolders, EofHolders, SaveReadHolders
  <1>5. ASSUME NEW t \in tasks, LoadCallback(t) PROVE Holders'
    BY <1>1, <1>5, LoadHolders
  <1> QED
    BY <1>1, <1>2, <1>3, <1>4, <1>5, Steps, QuietHolders

(* Whoever plays, was granted, saves or gives back an account holds its    *)
(* lock, and they are in each other's way nowhere: in every state.         *)
THEOREM LocksAreHeld == ASSUME LateClients PROVE Spec => [](SessionInv /\ Holders)
  <1>1. Init => SessionInv /\ Holders
    BY SessionInit, HoldersInit
  <1>2. SessionInv /\ Holders /\ [Next]_vars => SessionInv' /\ Holders'
    BY SessionStep, HoldersStep
  <1> QED
    BY <1>1, <1>2, PTL DEF Spec

(* charLoadCallback locks for the server whose character it sends, and the *)
(* lock is given back by that server's save, unlock, login or end only.    *)
THEOREM PlayersHoldLocks == ASSUME LateClients PROVE Spec => []PlayingHoldsLock
  <1>1. SessionInv /\ Holders => PlayingHoldsLock
    <2> SUFFICES ASSUME SessionInv, Holders, NEW c \in Conn, InPlay(c)
                 PROVE  lock[conn[c].acct] = conn[c].srv
      BY DEF PlayingHoldsLock
    <2>1. PICK a \in Account : a = conn[c].acct
      BY PlayFacts
    <2>2. Plays(c, a) /\ Holder(a)
      BY <2>1 DEF Plays, Holders
    <2> QED
      BY <2>1, <2>2 DEF Holder, PlayerLocked
  <1> QED
    BY <1>1, LocksAreHeld, PTL

(* charSave writes whatever comes: what comes for a character that was     *)
(* loaded comes from the server its account is locked for.                 *)
THEOREM HoldersSave == ASSUME LateClients PROVE Spec => []SaveByHolder
  <1>1. SessionInv /\ Holders => SaveByHolder
    <2> SUFFICES ASSUME SessionInv, Holders, NEW ti \in Ti, Reads(ti, "save"), Read(ti).slot # NewSlot
                 PROVE  lock[Read(ti).acct] = gs[ti].name
      BY DEF SaveByHolder
    <2>1. TypeOK /\ LinesOK /\ up[ti] # <<>> /\ Read(ti).kind = "save"
      BY InvFacts DEF Reads, ReadsOneOf, Read
    <2>2. 1 \in DOMAIN up[ti] /\ Read(ti) = up[ti][1]
      BY <2>1, QueueFacts DEF Read
    <2>3. Read(ti).acct \in Account
      BY <2>1, <2>2 DEF LinesOK, UpLineOK
    <2>4. PICK a \in Account : a = Read(ti).acct
      BY <2>3
    <2>5. OfAt(ti, 1, a) /\ Holder(a)
      BY <2>1, <2>2, <2>4 DEF OfAt, QuietLine, Holders
    <2> QED
      BY <2>4, <2>5 DEF Holder, LinesLocked
  <1> QED
    BY <1>1, LocksAreHeld, PTL

(* The places of OneSession, one by one.                                   *)
LEMMA GrantPlace ==
    ASSUME SessionInv, NEW a, NEW x \in Grants(a)
    PROVE  x[1] \in Ti /\ x[2] \in Nat /\ GrantAt(x[1], x[2], a) /\ x = <<x[1], x[2]>>
  <1>1. x \in Places(down)
    BY DEF Grants
  <1>2. PICK t \in Ti : x \in {<<t, i>> : i \in DOMAIN down[t]}
    BY <1>1 DEF Places
  <1>3. PICK i \in DOMAIN down[t] : x = <<t, i>>
    BY <1>2
  <1>4. i \in Nat
    BY <1>3, InvFacts, QueueFacts
  <1>5. x[1] = t /\ x[2] = i
    BY <1>3
  <1>6. GrantAt(t, i, a)
    BY <1>3, <1>5 DEF Grants, GrantAt
  <1> QED
    BY <1>3, <1>4, <1>5, <1>6

LEMMA ClosingPlace ==
    ASSUME SessionInv, NEW a, NEW x \in ClosingSaves(a)
    PROVE  x[1] \in Ti /\ x[2] \in Nat /\ FreesAt(x[1], x[2], a) /\ OfAt(x[1], x[2], a) /\ x = <<x[1], x[2]>>
  <1>1. x \in Places(up)
    BY DEF ClosingSaves
  <1>2. PICK t \in Ti : x \in {<<t, i>> : i \in DOMAIN up[t]}
    BY <1>1 DEF Places
  <1>3. PICK i \in DOMAIN up[t] : x = <<t, i>>
    BY <1>2
  <1>4. i \in Nat /\ LinesOK
    BY <1>3, InvFacts, QueueFacts
  <1>5. x[1] = t /\ x[2] = i
    BY <1>3
  <1>6. up[t][i].kind = "save" /\ up[t][i].flag /\ up[t][i].acct = a
    BY <1>5 DEF ClosingSaves
  <1>7. FreesAt(t, i, a)
    BY <1>3, <1>4, <1>6 DEF FreesAt, OfAt, QuietLine, LinesOK, UpLineOK
  <1> QED
    BY <1>3, <1>4, <1>5, <1>7 DEF FreesAt

(* One character of an account is loaded at a time, counting the ones on   *)
(* their way from and to SAAC: charLoadCallback asks for the lock only.    *)
THEOREM SessionsAreOne == ASSUME LateClients PROVE Spec => []OneSession
  <1>1. SessionInv /\ Holders => OneSession
    <2> SUFFICES ASSUME SessionInv, Holders, NEW a \in Account
                 PROVE  LET players == Players(a)
                            grants  == Grants(a)
                            saves   == ClosingSaves(a)
                        IN  /\ \A x, y \in players : x = y
                            /\ \A x, y \in grants : x = y
                            /\ \A x, y \in saves : x = y
                            /\ players # {} => grants \union saves = {}
                            /\ grants # {} => saves = {}
      BY DEF OneSession
    <2>1. Holder(a)
      BY DEF Holders
    <2>2. \A x, y \in Players(a) : x = y
      BY <2>1 DEF Players, Plays, Holder, OnePlayer
    <2>3. ASSUME NEW x \in Grants(a), NEW y \in Grants(a) PROVE x = y
      <3>1. /\ x[1] \in Ti /\ x[2] \in Nat /\ GrantAt(x[1], x[2], a) /\ x = <<x[1], x[2]>>
            /\ y[1] \in Ti /\ y[2] \in Nat /\ GrantAt(y[1], y[2], a) /\ y = <<y[1], y[2]>>
        BY GrantPlace
      <3>2. x[1] = y[1]
        BY <2>1, <3>1, NameFacts DEF Holder, GrantLocked
      <3>3. x[2] = y[2]
        BY <2>1, <3>1, <3>2 DEF Holder, GrantAlone
      <3> QED
        BY <3>1, <3>2, <3>3
    <2>4. ASSUME NEW x \in ClosingSaves(a), NEW y \in ClosingSaves(a) PROVE x = y
      <3>1. /\ x[1] \in Ti /\ x[2] \in Nat /\ x = <<x[1], x[2]>>
            /\ FreesAt(x[1], x[2], a) /\ OfAt(x[1], x[2], a)
            /\ y[1] \in Ti /\ y[2] \in Nat /\ y = <<y[1], y[2]>>
            /\ FreesAt(y[1], y[2], a) /\ OfAt(y[1], y[2], a)
        BY ClosingPlace
      <3>2. x[1] = y[1]
        BY <2>1, <3>1, NameFacts DEF Holder, LinesLocked
      <3>3. ~(x[2] < y[2]) /\ ~(y[2] < x[2])
        BY <2>1, <3>1, <3>2 DEF Holder, FreesLast
      <3>4. x[2] = y[2]
        BY <3>1, <3>3
      <3> QED
        BY <3>1, <3>2, <3>4
    <2>5. Players(a) # {} => Grants(a) \union ClosingSaves(a) = {}
      <3> SUFFICES ASSUME NEW c \in Players(a), NEW x \in Grants(a) \union ClosingSaves(a) PROVE FALSE
        OBVIOUS
      <3>1. c \in Conn /\ Plays(c, a)
        BY DEF Players, Plays
      <3>2. x[1] \in Ti /\ x[2] \in Nat /\ (GrantAt(x[1], x[2], a) \/ FreesAt(x[1], x[2], a))
        BY GrantPlace, ClosingPlace
      <3> QED
        BY <2>1, <3>1, <3>2 DEF Holder, PlayerAlone
    <2>6. Grants(a) # {} => ClosingSaves(a) = {}
      <3> SUFFICES ASSUME NEW x \in Grants(a), NEW y \in ClosingSaves(a) PROVE FALSE
        OBVIOUS
      <3>1. /\ x[1] \in Ti /\ x[2] \in Nat /\ GrantAt(x[1], x[2], a)
            /\ y[1] \in Ti /\ y[2] \in Nat /\ OfAt(y[1], y[2], a)
        BY GrantPlace, ClosingPlace
      <3> QED
        BY <2>1, <3>1 DEF Holder, GrantAlone
    <2> QED
      BY <2>2, <2>3, <2>4, <2>5, <2>6
  <1> QED
    BY <1>1, LocksAreHeld, PTL
=============================================================================
