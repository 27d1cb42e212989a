------------------------- MODULE SessionFileProofs -------------------------
(***************************************************************************)
(* Proofs about the character files of Session: an account has one file of *)
(* a character, a character in play has its file, and no file goes back to *)
(* an older state.                                                         *)
(***************************************************************************)
EXTENDS SessionLockProofs

(***************************************************************************)
(* Names.  Whatever is loaded or saved carries the name its file has.      *)
(***************************************************************************)
LineNamed(t, i) ==
    up[t][i].kind = "save" /\ up[t][i].slot # NewSlot =>
        file[up[t][i].acct][up[t][i].slot].char = up[t][i].rec.char
GrantNamed(t, i) ==
    down[t][i].kind = "load" /\ down[t][i].flag =>
        file[down[t][i].acct][down[t][i].slot].char = down[t][i].rec.char

FilesOK ==
    /\ UniqueChar /\ PlayedCharExists
    /\ \A t \in Ti : \A i \in DOMAIN up[t] : LineNamed(t, i)
    /\ \A t \in Ti : \A i \in DOMAIN down[t] : GrantNamed(t, i)

(* What may change: a blank slot gets a name.                              *)
NamesStand ==
    \A a \in Account, k \in Slot :
        file[a][k].char # NoChar => file'[a][k].char = file[a][k].char

LinesNamed(ts)  == \A t \in Ti : \A i \in DOMAIN up'[t] : Kept(up, up', ts, t, i) \/ LineNamed(t, i)'
GrantsNamed(us) == \A t \in Ti : \A i \in DOMAIN down'[t] : Kept(down, down', us, t, i) \/ GrantNamed(t, i)'

PlayersNamed ==
    \A c \in Conn : conn'[c].state = "LOGIN" =>
        \/ /\ conn[c].state = "LOGIN" /\ conn'[c].acct = conn[c].acct
           /\ conn'[c].slot = conn[c].slot /\ conn'[c].rec.char = conn[c].rec.char
        \/ file'[conn'[c].acct][conn'[c].slot].char = conn'[c].rec.char

LEMMA FilesStay ==
    ASSUME SessionInv, SessionInv', FilesOK, NamesStand, UniqueChar', PlayersNamed,
           NEW ts, LinesNamed(ts), NEW us, GrantsNamed(us)
    PROVE  FilesOK'
  <1>1. ASSUME NEW t \in Ti, NEW i \in DOMAIN up'[t] PROVE LineNamed(t, i)'
    <2>1. CASE Kept(up, up', ts, t, i)
      <3>1. PICK j \in DOMAIN up[t] : up'[t][i] = up[t][j]
        BY <2>1 DEF Kept
      <3>2. UpLineOK(up[t][j]) /\ up[t][j] \in Msg
        BY InvFacts, QueueFacts DEF LinesOK
      <3>3. LineNamed(t, j)
        BY DEF FilesOK
      <3>4. up[t][j].slot \in Slot \/ up[t][j].slot = NewSlot
        BY <3>2, MsgFacts DEF SaveIndex
      <3>5. /\ up[t][j].kind = "save" => up[t][j].acct \in Account /\ up[t][j].rec.char # NoChar
        BY <3>2, SessionAssumption DEF UpLineOK, SessionAssumption
      <3>6. up[t][j].kind = "save" /\ up[t][j].slot # NewSlot =>
               file'[up[t][j].acct][up[t][j].slot].char = up[t][j].rec.char
        BY <3>3, <3>4, <3>5 DEF LineNamed, NamesStand
      <3> QED
        BY <3>1, <3>6 DEF LineNamed
    <2> QED
      BY <2>1 DEF LinesNamed
  <1>2. ASSUME NEW t \in Ti, NEW i \in DOMAIN down'[t] PROVE GrantNamed(t, i)'
    <2>1. CASE Kept(down, down', us, t, i)
      <3>1. PICK j \in DOMAIN down[t] : down'[t][i] = down[t][j]
        BY <2>1 DEF Kept
      <3>2. DownLineOK(down[t][j])
        BY InvFacts DEF LinesOK
      <3>3. GrantNamed(t, j)
        BY DEF FilesOK
      <3>4. down[t][j].kind = "load" /\ down[t][j].flag =>
               down[t][j].acct \in Account /\ down[t][j].slot \in Slot /\ down[t][j].rec.char # NoChar
        BY <3>2, SessionAssumption DEF DownLineOK, SessionAssumption
      <3>5. down[t][j].kind = "load" /\ down[t][j].flag =>
               file'[down[t][j].acct][down[t][j].slot].char = down[t][j].rec.char
        BY <3>3, <3>4 DEF GrantNamed, NamesStand
      <3> QED
        BY <3>1, <3>5 DEF GrantNamed
    <2> QED
      BY <2>1 DEF GrantsNamed
  <1>3. PlayedCharExists'
    <2> SUFFICES ASSUME NEW c \in Conn, InPlay(c)'
                 PROVE  file'[conn'[c].acct][conn'[c].slot].char = conn'[c].rec.char
      BY DEF PlayedCharExists
    <2>1. conn'[c].state = "LOGIN"
      <3>1. ConnOK(c)'
        BY DEF SessionInv, Base, ConnsOK
      <3> QED
        BY <3>1 DEF ConnOK, InPlay
    <2>2. CASE /\ conn[c].state = "LOGIN" /\ conn'[c].acct = conn[c].acct
               /\ conn'[c].slot = conn[c].slot /\ conn'[c].rec.char = conn[c].rec.char
      <3>1. InPlay(c) /\ conn[c].acct \in Account /\ conn[c].slot \in Slot /\ conn[c].rec.char # NoChar
        BY <2>2, PlayFacts DEF InPlay
      <3>2. file[conn[c].acct][conn[c].slot].char = conn[c].rec.char
        BY <3>1 DEF FilesOK, PlayedCharExists
      <3> QED
        BY <2>2, <3>1, <3>2 DEF NamesStand
    <2> QED
      BY <2>1, <2>2 DEF PlayersNamed
  <1> QED
    BY <1>1, <1>2, <1>3 DEF FilesOK

(* A line written that loads nothing, or what its file has.                *)
LEMMA LinesNamedMove ==
    ASSUME NEW ts, NEW t0, NEW m, Moved(up, up', ts, t0, m),
           t0 \in Ti => (m.kind = "save" /\ m.slot # NewSlot => file'[m.acct][m.slot].char = m.rec.char)
    PROVE  LinesNamed(ts)
  <1> SUFFICES ASSUME NEW t \in Ti, NEW i \in DOMAIN up'[t], ~Kept(up, up', ts, t, i)
               PROVE  LineNamed(t, i)'
    BY DEF LinesNamed
  <1>1. (t = t0 /\ up'[t][i] = m) \/ up'[t][i].kind \in Notice
    BY DEF Moved
  <1> QED
    BY <1>1 DEF LineNamed, Notice

LEMMA GrantsNamedMove ==
    ASSUME NEW us, NEW u0, NEW n, Moved(down, down', us, u0, n),
           u0 \in Ti => (n.kind = "load" /\ n.flag => file'[n.acct][n.slot].char = n.rec.char)
    PROVE  GrantsNamed(us)
  <1> SUFFICES ASSUME NEW t \in Ti, NEW i \in DOMAIN down'[t], ~Kept(down, down', us, t, i)
               PROVE  GrantNamed(t, i)'
    BY DEF GrantsNamed
  <1>1. (t = u0 /\ down'[t][i] = n) \/ down'[t][i].kind \in Notice
    BY DEF Moved
  <1> QED
    BY <1>1 DEF GrantNamed, Notice

LEMMA SameFiles ==
    ASSUME FilesOK, \A a \in Account, k \in Slot : file'[a][k] = file[a][k]
    PROVE  NamesStand /\ UniqueChar'
  BY DEF FilesOK, UniqueChar, NamesStand

LEMMA SamePlayers ==
    ASSUME SessionInv, SessionInv', \A c \in Conn : conn'[c] = conn[c] \/ conn'[c].state # "LOGIN"
    PROVE  PlayersNamed
  BY DEF PlayersNamed

-----------------------------------------------------------------------------
(* Each kind of step, without deletion.                                    *)
LEMMA QuietFiles ==
    ASSUME SessionInv, SessionInv', "delete" \notin ClientOps, FilesOK, Quiet
    PROVE  FilesOK'
  <1>1. PICK ts \in Ti \union {NoTi}, us \in Ti \union {NoTi} : UpKept(ts) /\ DownKept(us)
    BY DEF Quiet
  <1>2. NamesStand /\ UniqueChar'
    BY SameFiles DEF Quiet, FilesKept
  <1>3. LinesNamed(ts)
    BY <1>1 DEF LinesNamed, UpKept, QuietLine, LineNamed
  <1>4. GrantsNamed(us)
    BY <1>1 DEF GrantsNamed, DownKept, QuietAnswer, GrantNamed
  <1>5. PlayersNamed
    BY DEF Quiet, ConnsKept, PlayersNamed
  <1> QED
    BY <1>2, <1>3, <1>4, <1>5, FilesStay

LEMMA PlayFiles ==
    ASSUME SessionInv, SessionInv', FilesOK, NEW c \in Conn, Play(c)
    PROVE  FilesOK'
  <1>1. TypeOK /\ conn[c] \in ConnRecord /\ conn[c].state = "LOGIN" /\ UNCHANGED <<up, down, file>>
    BY InvFacts DEF Play, netVars, saacVars
  <1>2. conn'[c] = [conn[c] EXCEPT !.rec.ver = @ + 1] /\ \A d \in Conn : d # c => conn'[d] = conn[d]
    BY <1>1 DEF Play, TypeOK
  <1>3. conn'[c].acct = conn[c].acct /\ conn'[c].slot = conn[c].slot /\ conn'[c].rec.char = conn[c].rec.char
    BY <1>1, <1>2 DEF ConnRecord, Record
  <1>4. PlayersNamed
    BY <1>1, <1>2, <1>3 DEF PlayersNamed
  <1>5. NamesStand /\ UniqueChar'
    BY <1>1, SameFiles
  <1>6. Moved(up, up', NoTi, NoTi, Blank) /\ Moved(down, down', NoTi, NoTi, Blank) /\ NoTi \notin Ti
    BY <1>1, UpSame, DownSame, NameFacts
  <1>7. LinesNamed(NoTi) /\ GrantsNamed(NoTi)
    BY <1>6, LinesNamedMove, GrantsNamedMove
  <1> QED
    BY <1>4, <1>5, <1>7, FilesStay

LEMMA SavesFiles ==
    ASSUME SessionInv, SessionInv', FilesOK, NEW c \in Conn, NEW b \in BOOLEAN, Saves(c, b)
    PROVE  FilesOK'
  <1> DEFINE h == acfd[conn[c].srv]
             m == SaveLine(c, b)
  <1>1. InPlay(c) /\ up' = [up EXCEPT ![h] = Append(@, m)] /\ UNCHANGED <<down, file>>
    BY DEF Saves, Send, saacVars
  <1>2. /\ TypeOK /\ SlotsOK /\ m \in Msg /\ h # NoTi /\ conn[c].srv \in Server
        /\ m.acct = conn[c].acct /\ m.rec = conn[c].rec /\ m.slot = conn[c].slot
    BY <1>1, InvFacts, SaveLineFacts
  <1>3. file'[m.acct][m.slot].char = m.rec.char
    BY <1>1, <1>2 DEF FilesOK, PlayedCharExists
  <1> HIDE DEF m
  <1>4. /\ Moved(up, up', NoTi, h, m) /\ Moved(down, down', NoTi, NoTi, Blank) /\ NoTi \notin Ti
    BY <1>1, <1>2, UpAppended, DownSame, NameFacts
  <1>5. LinesNamed(NoTi) /\ GrantsNamed(NoTi)
    BY <1>3, <1>4, LinesNamedMove, GrantsNamedMove
  <1>6. \A d \in Conn : conn'[d] = conn[d] \/ conn'[d].state # "LOGIN"
    BY <1>2 DEF Saves, TypeOK, Idle
  <1> QED
    BY <1>1, <1>5, <1>6, SameFiles, SamePlayers, FilesStay

LEMMA GetLoadFiles ==
    ASSUME SessionInv, SessionInv', FilesOK, NEW s \in Server, GetLoad(s)
    PROVE  FilesOK'
  <1>1. /\ Get(s, "load") /\ Answered(s).flag /\ down' = Consumed(s) /\ UNCHANGED <<up, file>>
    BY DEF GetLoad, GetQuietly, saacVars
  <1>2. PICK c \in Asker(s) :
          conn' = [conn EXCEPT ![c].state = "LOGIN", ![c].rec = Answered(s).rec, ![c].slot = Answered(s).slot]
    BY DEF GetLoad
  <1>3. /\ TypeOK /\ LinesOK /\ SlotsOK /\ c \in Conn /\ conn[c] \in ConnRecord /\ NoTi \notin Ti
    BY InvFacts, NameFacts DEF Asker
  <1>4. /\ conn'[c] = [conn[c] EXCEPT !.state = "LOGIN", !.rec = Answered(s).rec, !.slot = Answered(s).slot]
        /\ \A d \in Conn : d # c => conn'[d] = conn[d]
    BY <1>2, <1>3 DEF TypeOK
  <1>5. /\ acfd[s] \in Ti /\ Moved(down, down', acfd[s], NoTi, Blank) /\ Moved(up, up', NoTi, NoTi, Blank)
        /\ 1 \in DOMAIN down[acfd[s]] /\ Answered(s) = down[acfd[s]][1] /\ Answered(s).kind = "load"
    BY <1>1, <1>3, DownConsumed, UpSame
  <1>6. conn[c].acct = Answered(s).acct
    BY <1>1, LoadAsker
  <1>7. file[Answered(s).acct][Answered(s).slot].char = Answered(s).rec.char
    BY <1>1, <1>5 DEF FilesOK, GrantNamed
  <1>8. conn'[c].acct = Answered(s).acct /\ conn'[c].slot = Answered(s).slot /\ conn'[c].rec = Answered(s).rec
    BY <1>3, <1>4, <1>6 DEF ConnRecord
  <1>9. PlayersNamed
    <2>1. file'[conn'[c].acct][conn'[c].slot].char = conn'[c].rec.char
      BY <1>1, <1>7, <1>8
    <2> QED
      BY <1>4, <2>1 DEF PlayersNamed
  <1>10. LinesNamed(NoTi) /\ GrantsNamed(acfd[s])
    BY <1>3, <1>5, LinesNamedMove, GrantsNamedMove
  <1> QED
    BY <1>1, <1>9, <1>10, SameFiles, FilesStay

LEMMA UnlockSentFiles ==
    ASSUME SessionInv, SessionInv', FilesOK, NEW s \in Server,
           GetLoadUnusable(s) \/ \E c \in Asker(s) : Resent(s, c)
    PROVE  FilesOK'
  <1>1. PICK kind \in AsksKind : Get(s, kind)
    BY KindFacts DEF GetLoadUnusable, Resent
  <1>2. PICK c \in Asker(s) :
          /\ conn' = conn \/ conn' = [conn EXCEPT ![c].state = "WHILECANNOTLOGIN", ![c].rec = Blank]
          /\ up' = [up EXCEPT ![acfd[s]] = Append(@, UnlockLine(c))]
    BY DEF GetLoadUnusable, UnlockLine, Resent
  <1>3. down' = Consumed(s) /\ file' = file
    BY DEF GetLoadUnusable, Resent, saacVars
  <1>4. TypeOK /\ LinesOK /\ SlotsOK /\ c \in Conn /\ conn[c] \in ConnRecord /\ NoTi \notin Ti
    BY InvFacts, NameFacts DEF Asker
  <1>5. \A d \in Conn : conn'[d] = conn[d] \/ conn'[d].state # "LOGIN"
    BY <1>2, <1>4 DEF TypeOK, ConnRecord
  <1>6. conn[c].acct \in Account /\ acfd[s] # NoTi
    BY <1>1, <1>3, <1>4, AskerFacts, DownConsumed
  <1>7. UnlockLine(c) \in Msg /\ UnlockLine(c).kind = "unlock"
    BY <1>4, <1>6, UnlockLineFacts
  <1>8. Moved(up, up', NoTi, acfd[s], UnlockLine(c)) /\ Moved(down, down', acfd[s], NoTi, Blank)
    BY <1>1, <1>2, <1>3, <1>4, <1>6, <1>7, UpAppended, DownConsumed
  <1>9. LinesNamed(NoTi) /\ GrantsNamed(acfd[s])
    BY <1>4, <1>7, <1>8, LinesNamedMove, GrantsNamedMove
  <1> QED
    BY <1>3, <1>5, <1>9, SameFiles, SamePlayers, FilesStay

LEMMA ServerFiles ==
    ASSUME SessionInv, SessionInv', FilesOK, NEW ti \in Ti, LoginGranted(ti) \/ RecvEof(ti)
    PROVE  FilesOK'
  <1>1. conn' = conn /\ file' = file
    BY DEF LoginGranted, RecvEof, gmsvVars
  <1>2. TypeOK /\ NoTi \notin Ti /\ down \in Queues
    BY InvFacts, NameFacts DEF TypeOK, Queues
  <1>3. CASE LoginGranted(ti)
    <2>1. ReadsOneOf(ti, {"login"}) /\ up' = Tidied(ti) /\ down' = down
      BY <1>3 DEF LoginGranted, Reads
    <2>2. Moved(up, up', ti, NoTi, Blank) /\ Moved(down, down', NoTi, NoTi, Blank)
      BY <1>2, <2>1, ReadFacts, DownSame
    <2>3. LinesNamed(ti) /\ GrantsNamed(NoTi)
      BY <1>2, <2>2, LinesNamedMove, GrantsNamedMove
    <2> QED
      BY <1>1, <2>3, SameFiles, SamePlayers, FilesStay
  <1>4. CASE RecvEof(ti)
    <2>1. up' = up /\ down' = [down EXCEPT ![ti] = <<>>]
      BY <1>4 DEF RecvEof
    <2>2. Moved(up, up', NoTi, NoTi, Blank) /\ Moved(down, down', NoTi, NoTi, Blank)
      BY <1>2, <2>1, UpSame, MovedEmpty
    <2>3. LinesNamed(NoTi) /\ GrantsNamed(NoTi)
      BY <1>2, <2>2, LinesNamedMove, GrantsNamedMove
    <2> QED
      BY <1>1, <2>3, SameFiles, SamePlayers, FilesStay
  <1> QED
    BY <1>3, <1>4

(* What charSave does to the names of an account's files.                  *)
LEMMA SaveNames ==
    ASSUME SessionInv, FilesOK, NEW ti \in Ti, RecvSave(ti)
    PROVE  NamesStand /\ UniqueChar'
  <1> DEFINE m == Read(ti)
  <1>1. ReadsOneOf(ti, {"save"}) /\ up' = Tidied(ti)
    BY DEF RecvSave, Reads
  <1>2. TypeOK /\ 1 \in DOMAIN up[ti] /\ m = up[ti][1] /\ UpLineOK(m) /\ m.kind \in {"save"}
    BY <1>1, ReadFacts
  <1>3. m.acct \in Account /\ m.rec.char \in Char
    BY <1>2 DEF UpLineOK
  <1>4. PICK k \in SaveTarget(m) : file' = [file EXCEPT ![m.acct][k] = m.rec]
    BY DEF RecvSave
  <1>5. m.slot # NewSlot => file[m.acct][m.slot].char = m.rec.char
    BY <1>2 DEF FilesOK, LineNamed
  <1>6. k \in Slot /\ IF m.slot # NewSlot THEN k = m.slot
                      ELSE IF HasChar(m.acct, m.rec.char) THEN IsIndexOf(m.acct, m.rec.char, k)
                           ELSE IsIndexOf(m.acct, NoChar, k)
    BY <1>4 DEF SaveTarget
  <1> HIDE DEF m
  <1>7. /\ file'[m.acct][k] = m.rec
        /\ \A a \in Account, j \in Slot : ~(a = m.acct /\ j = k) => file'[a][j] = file[a][j]
    BY <1>2, <1>3, <1>4, <1>6 DEF TypeOK
  <1>8. CASE file[m.acct][k].char = m.rec.char
    <2>1. \A a \in Account, j \in Slot : file'[a][j].char = file[a][j].char
      BY <1>7, <1>8
    <2>2. UniqueChar
      BY DEF FilesOK
    <2> QED
      BY <2>1, <2>2 DEF UniqueChar, NamesStand
  <1>9. CASE ~HasChar(m.acct, m.rec.char) /\ file[m.acct][k].char = NoChar
    <2>1. \A j \in Slot : file[m.acct][j].char # m.rec.char
      BY <1>9 DEF HasChar
    <2>2. NamesStand
      BY <1>7, <1>9 DEF NamesStand
    <2>3. UniqueChar'
      <3> SUFFICES ASSUME NEW a \in Account, NEW i \in Slot, NEW j \in Slot,
                          file'[a][i].char = file'[a][j].char, file'[a][i].char # NoChar
                   PROVE  i = j
        BY DEF UniqueChar
      <3>1. CASE a # m.acct
        BY <1>7, <3>1 DEF FilesOK, UniqueChar
      <3>2. CASE a = m.acct /\ i # k /\ j # k
        <4>1. file'[a][i] = file[a][i] /\ file'[a][j] = file[a][j]
          BY <1>7, <3>2
        <4> QED
          BY <4>1 DEF FilesOK, UniqueChar
      <3>3. CASE a = m.acct /\ (i = k \/ j = k)
        BY <1>7, <2>1, <3>3
      <3> QED
        BY <3>1, <3>2, <3>3
    <2> QED
      BY <2>2, <2>3
  <1> QED
    BY <1>5, <1>6, <1>8, <1>9 DEF IsIndexOf

LEMMA SaveReadFiles ==
    ASSUME SessionInv, SessionInv', FilesOK, NEW ti \in Ti,
           RecvSave(ti) \/ RecvSaveFailed(ti) \/ RecvUnlock(ti)
    PROVE  FilesOK'
  <1> DEFINE m == Read(ti)
  <1>1. PICK kind \in {"save", "unlock"} : ReadsOneOf(ti, {kind})
    BY DEF RecvSave, RecvSaveFailed, RecvUnlock, Reads
  <1>2. PICK b \in BOOLEAN : Post(To(ti, Reply(m, b)))
    BY DEF RecvSave, RecvSaveFailed, RecvUnlock
  <1>3. up' = Tidied(ti) /\ conn' = conn
    BY DEF RecvSave, RecvSaveFailed, RecvUnlock, gmsvVars
  <1>4. /\ TypeOK /\ NoTi \notin Ti /\ Moved(up, up', ti, NoTi, Blank)
        /\ m \in Msg /\ UpLineOK(m) /\ m.kind \in {kind}
    BY <1>1, <1>3, ReadFacts
  <1> DEFINE n == Reply(m, b)
  <1>5. n \in Msg /\ n.kind # "load"
    <2>1. m.kind \in Kind /\ m.conn \in Conn \union {NoConn} /\ m.acct \in Account \union {NoAccount}
      BY <1>4, MsgFacts
    <2>2. n \in Msg
      BY <2>1, LineType, BlankFacts DEF Reply
    <2> QED
      BY <1>4, <2>2 DEF Reply, Line
  <1>6. Post(To(ti, n))
    BY <1>2
  <1> HIDE DEF m, n
  <1>7. Moved(down, down', NoTi, ti, n)
    BY <1>4, <1>5, <1>6, PostTo
  <1>8. LinesNamed(ti) /\ GrantsNamed(NoTi)
    BY <1>4, <1>5, <1>7, LinesNamedMove, GrantsNamedMove
  <1>9. NamesStand /\ UniqueChar'
    <2>1. CASE RecvSave(ti)
      BY <2>1, SaveNames
    <2>2. CASE RecvSaveFailed(ti) \/ RecvUnlock(ti)
      BY <2>2, SameFiles DEF RecvSaveFailed, RecvUnlock
    <2> QED
      BY <2>1, <2>2
  <1> QED
    BY <1>3, <1>8, <1>9, SamePlayers, FilesStay

LEMMA LoadFiles ==
    ASSUME SessionInv, SessionInv', FilesOK, NEW t \in tasks, LoadCallback(t)
    PROVE  FilesOK'
  <1>1. PICK k \in Slot : /\ file[t.acct][k].char = t.char
                          /\ Moved(down, down', NoTi, t.ti, Granted(t, k))
    BY GrantedFacts
  <1> DEFINE n == Granted(t, k)
  <1>2. TypeOK /\ NoTi \notin Ti /\ conn' = conn /\ up' = up /\ file' = file
    BY InvFacts, NameFacts DEF LoadCallback, gmsvVars
  <1>3. n.acct = t.acct /\ n.slot = k /\ n.rec = file[t.acct][k]
    BY DEF Granted, Line
  <1>4. Moved(down, down', NoTi, t.ti, n) /\ Moved(up, up', NoTi, NoTi, Blank)
    BY <1>1, <1>2, UpSame
  <1>5. file'[n.acct][n.slot].char = n.rec.char
    BY <1>2, <1>3
  <1> HIDE DEF n
  <1>6. LinesNamed(NoTi) /\ GrantsNamed(NoTi)
    BY <1>2, <1>4, <1>5, LinesNamedMove, GrantsNamedMove
  <1> QED
    BY <1>2, <1>6, SameFiles, SamePlayers, FilesStay

LEMMA FilesInit == Init => FilesOK
  <1> SUFFICES ASSUME Init PROVE FilesOK
    OBVIOUS
  <1>1. DOMAIN <<>> = {}
    OBVIOUS
  <1>2. /\ \A t \in Ti : up[t] = <<>> /\ down[t] = <<>>
        /\ \A c \in Conn : ~InPlay(c)
        /\ UniqueChar
    BY DEF Init, InPlay, Live, Dead, Idle
  <1> QED
    BY <1>1, <1>2 DEF FilesOK, PlayedCharExists

LEMMA FilesStep ==
    ASSUME "delete" \notin ClientOps, SessionInv, FilesOK, [Next]_vars
    PROVE  FilesOK'
  <1>1. SessionInv'
    BY SessionStep
  <1> QED
    BY <1>1, Steps, QuietFiles, PlayFiles, SavesFiles, GetLoadFiles, UnlockSentFiles, ServerFiles,
       SaveReadFiles, LoadFiles

(* Names are kept by loading, playing, saving and creating.                *)
THEOREM NamesAreKept == ASSUME "delete" \notin ClientOps PROVE Spec => [](SessionInv /\ FilesOK)
  <1>1. Init => SessionInv /\ FilesOK
    BY SessionInit, FilesInit
  <1>2. SessionInv /\ FilesOK /\ [Next]_vars => SessionInv' /\ FilesOK'
    BY SessionStep, FilesStep
  <1> QED
    BY <1>1, <1>2, PTL DEF Spec

(* charSave looks the name up before it takes a blank slot: one account    *)
(* never gets two files of one character.                                  *)
THEOREM CharsAreUnique == ASSUME "delete" \notin ClientOps PROVE Spec => []UniqueChar
  <1>1. FilesOK => UniqueChar
    BY DEF FilesOK
  <1> QED
    BY <1>1, NamesAreKept, PTL

(* What is in play is what the file its slot names is a save of.           *)
THEOREM PlayedCharsExist == ASSUME "delete" \notin ClientOps PROVE Spec => []PlayedCharExists
  <1>1. FilesOK => PlayedCharExists
    BY DEF FilesOK
  <1> QED
    BY <1>1, NamesAreKept, PTL

-----------------------------------------------------------------------------
(***************************************************************************)
(* Ages.  What is loaded, played or on its way to be saved is no older     *)
(* than the file it goes to; saves on their way are in the order in which  *)
(* they were made, and none is newer than what is still played.            *)
(***************************************************************************)
SavesAt(t, i, a) == OfAt(t, i, a) /\ up[t][i].kind = "save"

SavesNewer(a) ==
    \A t \in Ti, i \in Nat : SavesAt(t, i, a) => file[a][up[t][i].slot].ver <= up[t][i].rec.ver
SavesInOrder(a) ==
    \A t \in Ti, i, j \in Nat : i < j /\ SavesAt(t, i, a) /\ SavesAt(t, j, a) =>
        up[t][i].slot = up[t][j].slot /\ up[t][i].rec.ver <= up[t][j].rec.ver
GrantNewer(a) ==
    \A t \in Ti, i \in Nat : GrantAt(t, i, a) => file[a][down[t][i].slot].ver <= down[t][i].rec.ver
PlayerNewer(a) ==
    \A c \in Conn : Plays(c, a) => file[a][conn[c].slot].ver <= conn[c].rec.ver
PlayerNewest(a) ==
    \A c \in Conn : Plays(c, a) => \A t \in Ti, i \in Nat : SavesAt(t, i, a) =>
        up[t][i].slot = conn[c].slot /\ up[t][i].rec.ver <= conn[c].rec.ver

Newer(a) == /\ SavesNewer(a) /\ SavesInOrder(a) /\ GrantNewer(a)
            /\ PlayerNewer(a) /\ PlayerNewest(a)

BlankFiles == \A a \in Account, k \in Slot : file[a][k].char = NoChar => file[a][k].ver = 0

Newers == BlankFiles /\ \A a \in Account : Newer(a)

(* What may change: files get blank, characters in play grow.              *)
FilesShrink == \A a \in Account, k \in Slot : file'[a][k] = file[a][k] \/ file'[a][k] = Blank
SavesKeep(a, ts)  == \A t \in Ti, i \in Nat : SavesAt(t, i, a)' => Kept(up, up', ts, t, i)
GrantsKeep(a, us) == \A t \in Ti, i \in Nat : GrantAt(t, i, a)' => Kept(down, down', us, t, i)
PlayersGrow(a) ==
    \A c \in Conn : Plays(c, a)' => /\ Plays(c, a) /\ conn'[c].slot = conn[c].slot
                                    /\ conn[c].rec.ver <= conn'[c].rec.ver

LEMMA VerFacts ==
    ASSUME SessionInv, NEW a \in Account
    PROVE  /\ \A k \in Slot : file[a][k] \in Record /\ file[a][k].ver \in Nat
           /\ \A t \in Ti, i \in Nat : SavesAt(t, i, a) =>
                 i \in DOMAIN up[t] /\ up[t][i].slot \in Slot /\ up[t][i].rec.ver \in Nat
           /\ \A t \in Ti, i \in Nat : GrantAt(t, i, a) =>
                 down[t][i].slot \in Slot /\ down[t][i].rec.ver \in Nat
           /\ \A c \in Conn : Plays(c, a) => conn[c].slot \in Slot /\ conn[c].rec.ver \in Nat
  <1>1. TypeOK /\ LinesOK
    BY InvFacts
  <1>2. \A r \in Record : r.ver \in Nat
    BY SessionAssumption DEF Record, SessionAssumption
  <1>3. \A k \in Slot : file[a][k] \in Record /\ file[a][k].ver \in Nat
    BY <1>1, <1>2 DEF TypeOK
  <1>4. ASSUME NEW t \in Ti, NEW i \in Nat, SavesAt(t, i, a)
        PROVE  i \in DOMAIN up[t] /\ up[t][i].slot \in Slot /\ up[t][i].rec.ver \in Nat
    <2>1. i \in DOMAIN up[t] /\ up[t][i].kind = "save" /\ up[t][i].slot # NewSlot
      BY <1>4 DEF SavesAt, OfAt, QuietLine
    <2>2. up[t][i] \in Msg
      BY <1>1, <2>1, QueueFacts
    <2> QED
      BY <1>2, <2>1, <2>2, MsgFacts DEF SaveIndex
  <1>5. ASSUME NEW t \in Ti, NEW i \in Nat, GrantAt(t, i, a)
        PROVE  down[t][i].slot \in Slot /\ down[t][i].rec.ver \in Nat
    <2>1. i \in DOMAIN down[t] /\ down[t][i].kind = "load" /\ down[t][i].flag
      BY <1>5 DEF GrantAt
    <2>2. down[t][i] \in Msg /\ DownLineOK(down[t][i])
      BY <1>1, <2>1, QueueFacts DEF LinesOK
    <2> QED
      BY <1>2, <2>1, <2>2, MsgFacts DEF DownLineOK
  <1>6. \A c \in Conn : Plays(c, a) => conn[c].slot \in Slot /\ conn[c].rec.ver \in Nat
    BY <1>2, PlayFacts DEF Plays
  <1> QED
    BY <1>3, <1>4, <1>5, <1>6

LEMMA ShrinkFacts ==
    ASSUME SessionInv, SessionInv', FilesShrink, NEW a \in Account, NEW k \in Slot
    PROVE  /\ file'[a][k].ver \in Nat /\ file[a][k].ver \in Nat
           /\ file'[a][k].ver <= file[a][k].ver
  <1>1. file[a][k].ver \in Nat
    BY VerFacts
  <1>2. CASE file'[a][k] = Blank
    BY <1>1, <1>2 DEF Blank
  <1> QED
    BY <1>1, <1>2 DEF FilesShrink

LEMMA BlankStays ==
    ASSUME BlankFiles, FilesShrink
    PROVE  BlankFiles'
  BY DEF BlankFiles, FilesShrink, Blank

LEMMA SavesKept ==
    ASSUME NEW a, NEW ts, SavesKeep(a, ts), NEW t \in Ti, NEW i \in Nat, SavesAt(t, i, a)'
    PROVE  /\ SavesAt(t, Pos(ts, t, i), a) /\ Pos(ts, t, i) \in Nat
           /\ up'[t][i] = up[t][Pos(ts, t, i)]
  <1>1. Kept(up, up', ts, t, i) /\ OfAt(t, i, a)'
    BY DEF SavesKeep, SavesAt
  <1>2. OfAt(t, Pos(ts, t, i), a)
    BY <1>1, KeptStays
  <1>3. up'[t][i] = up[t][Pos(ts, t, i)]
    BY <1>1 DEF Kept, Pos
  <1> QED
    BY <1>2, <1>3 DEF SavesAt, Pos

LEMMA GrantsKept ==
    ASSUME SessionInv, NoneRevives, NEW a, NEW us, GrantsKeep(a, us), NEW t \in Ti, NEW i \in Nat,
           GrantAt(t, i, a)'
    PROVE  /\ GrantAt(t, Pos(us, t, i), a) /\ Pos(us, t, i) \in Nat
           /\ down'[t][i] = down[t][Pos(us, t, i)]
  <1>1. Kept(down, down', us, t, i)
    BY DEF GrantsKeep
  <1>2. GrantAt(t, Pos(us, t, i), a)
    BY <1>1, GrantStays
  <1> QED
    BY <1>1, <1>2 DEF Kept, Pos

(* The grants of an account, when files shrink.                            *)
LEMMA GrantNewerStays ==
    ASSUME SessionInv, SessionInv', FilesShrink, NoneRevives, NEW a \in Account, GrantNewer(a),
           NEW us, GrantsKeep(a, us)
    PROVE  GrantNewer(a)'
  <1> SUFFICES ASSUME NEW t \in Ti, NEW i \in Nat, GrantAt(t, i, a)'
               PROVE  file'[a][down'[t][i].slot].ver <= down'[t][i].rec.ver
    BY DEF GrantNewer
  <1>1. PICK j \in Nat : GrantAt(t, j, a) /\ down'[t][i] = down[t][j]
    BY GrantsKept
  <1>2. down[t][j].slot \in Slot /\ down[t][j].rec.ver \in Nat
    BY <1>1, VerFacts
  <1>3. file[a][down[t][j].slot].ver <= down[t][j].rec.ver
    BY <1>1 DEF GrantNewer
  <1>4. /\ file'[a][down[t][j].slot].ver \in Nat /\ file[a][down[t][j].slot].ver \in Nat
        /\ file'[a][down[t][j].slot].ver <= file[a][down[t][j].slot].ver
    BY <1>2, ShrinkFacts
  <1> QED
    BY <1>1, <1>2, <1>3, <1>4

LEMMA PlayerNewerStays ==
    ASSUME SessionInv, SessionInv', FilesShrink, NEW a \in Account, PlayerNewer(a), PlayersGrow(a)
    PROVE  PlayerNewer(a)'
  <1> SUFFICES ASSUME NEW c \in Conn, Plays(c, a)'
               PROVE  file'[a][conn'[c].slot].ver <= conn'[c].rec.ver
    BY DEF PlayerNewer
  <1>1. Plays(c, a) /\ conn'[c].slot = conn[c].slot /\ conn[c].rec.ver <= conn'[c].rec.ver
    BY DEF PlayersGrow
  <1>2. conn[c].slot \in Slot /\ conn[c].rec.ver \in Nat /\ file[a][conn[c].slot].ver <= conn[c].rec.ver
    BY <1>1, VerFacts DEF PlayerNewer
  <1>3. /\ file'[a][conn[c].slot].ver \in Nat /\ file[a][conn[c].slot].ver \in Nat
        /\ file'[a][conn[c].slot].ver <= file[a][conn[c].slot].ver
    BY <1>2, ShrinkFacts
  <1>4. conn'[c].rec.ver \in Nat
    <2>1. conn'[c] \in ConnRecord
      BY DEF SessionInv, Base, TypeOK
    <2> QED
      BY <2>1, SessionAssumption DEF ConnRecord, Record, SessionAssumption
  <1> QED
    BY <1>1, <1>2, <1>3, <1>4

(* The order of the saves does not depend on the files.                    *)
LEMMA OrderStays ==
    ASSUME SessionInv, SessionInv', NEW a \in Account, Newer(a), NEW ts, SavesKeep(a, ts), PlayersGrow(a)
    PROVE  SavesInOrder(a)' /\ PlayerNewest(a)'
  <1>1. SavesInOrder(a)'
    <2> SUFFICES ASSUME NEW t \in Ti, NEW i \in Nat, NEW j \in Nat, i < j,
                        SavesAt(t, i, a)', SavesAt(t, j, a)'
                 PROVE  up'[t][i].slot = up'[t][j].slot /\ up'[t][i].rec.ver <= up'[t][j].rec.ver
      BY DEF SavesInOrder
    <2>1. /\ SavesAt(t, Pos(ts, t, i), a) /\ up'[t][i] = up[t][Pos(ts, t, i)]
          /\ SavesAt(t, Pos(ts, t, j), a) /\ up'[t][j] = up[t][Pos(ts, t, j)]
      BY SavesKept
    <2>2. Pos(ts, t, i) \in Nat /\ Pos(ts, t, j) \in Nat /\ Pos(ts, t, i) < Pos(ts, t, j)
      BY DEF Pos
    <2> QED
      BY <2>1, <2>2 DEF Newer, SavesInOrder
  <1>2. PlayerNewest(a)'
    <2> SUFFICES ASSUME NEW c \in Conn, Plays(c, a)', NEW t \in Ti, NEW i \in Nat, SavesAt(t, i, a)'
                 PROVE  up'[t][i].slot = conn'[c].slot /\ up'[t][i].rec.ver <= conn'[c].rec.ver
      BY DEF PlayerNewest
    <2>1. PICK j \in Nat : SavesAt(t, j, a) /\ up'[t][i] = up[t][j]
      BY SavesKept
    <2>2. Plays(c, a) /\ conn'[c].slot = conn[c].slot /\ conn[c].rec.ver <= conn'[c].rec.ver
      BY DEF PlayersGrow
    <2>3. up[t][j].slot = conn[c].slot /\ up[t][j].rec.ver <= conn[c].rec.ver
      BY <2>1, <2>2 DEF Newer, PlayerNewest
    <2>4. up[t][j].rec.ver \in Nat /\ conn[c].rec.ver \in Nat /\ conn'[c].rec.ver \in Nat
      <3>1. conn'[c] \in ConnRecord
        BY DEF SessionInv, Base, TypeOK
      <3> QED
        BY <2>1, <2>2, <3>1, VerFacts, SessionAssumption DEF ConnRecord, Record, SessionAssumption
    <2> QED
      BY <2>1, <2>2, <2>3, <2>4
  <1> QED
    BY <1>1, <1>2

LEMMA NewerStays ==
    ASSUME SessionInv, SessionInv', FilesShrink, NoneRevives, NEW a \in Account, Newer(a),
           NEW ts, SavesKeep(a, ts), NEW us, GrantsKeep(a, us), PlayersGrow(a)
    PROVE  Newer(a)'
  <1>1. GrantNewer(a)' /\ PlayerNewer(a)'
    BY GrantNewerStays, PlayerNewerStays DEF Newer
  <1>2. SavesNewer(a)'
    <2> SUFFICES ASSUME NEW t \in Ti, NEW i \in Nat, SavesAt(t, i, a)'
                 PROVE  file'[a][up'[t][i].slot].ver <= up'[t][i].rec.ver
      BY DEF SavesNewer
    <2>1. PICK j \in Nat : SavesAt(t, j, a) /\ up'[t][i] = up[t][j]
      BY SavesKept
    <2>2. up[t][j].slot \in Slot /\ up[t][j].rec.ver \in Nat
      BY <2>1, VerFacts
    <2>3. file[a][up[t][j].slot].ver <= up[t][j].rec.ver
      BY <2>1 DEF Newer, SavesNewer
    <2>4. /\ file'[a][up[t][j].slot].ver \in Nat /\ file[a][up[t][j].slot].ver \in Nat
          /\ file'[a][up[t][j].slot].ver <= file[a][up[t][j].slot].ver
      BY <2>2, ShrinkFacts
    <2> QED
      BY <2>1, <2>2, <2>3, <2>4
  <1> QED
    BY <1>1, <1>2, OrderStays DEF Newer

LEMMA MoveKeeps ==
    ASSUME NEW a, NEW ts, NEW t0, NEW m, Moved(up, up', ts, t0, m),
           t0 \in Ti => m.kind # "save" \/ m.slot = NewSlot \/ m.acct # a,
           NEW us, NEW u0, NEW n, Moved(down, down', us, u0, n),
           u0 \in Ti => ~(n.kind = "load" /\ n.flag /\ n.acct = a)
    PROVE  SavesKeep(a, ts) /\ GrantsKeep(a, us)
  <1>1. ASSUME NEW t \in Ti, NEW i \in Nat, SavesAt(t, i, a)' PROVE Kept(up, up', ts, t, i)
    <2>1. /\ i \in DOMAIN up'[t] /\ up'[t][i].kind = "save" /\ up'[t][i].slot # NewSlot
          /\ up'[t][i].acct = a
      BY <1>1 DEF SavesAt, OfAt, QuietLine
    <2> QED
      BY <2>1 DEF Moved, Notice
  <1>2. ASSUME NEW t \in Ti, NEW i \in Nat, GrantAt(t, i, a)' PROVE Kept(down, down', us, t, i)
    <2>1. /\ i \in DOMAIN down'[t] /\ down'[t][i].kind = "load" /\ down'[t][i].flag
          /\ down'[t][i].acct = a
      BY <1>2 DEF GrantAt
    <2> QED
      BY <2>1 DEF Moved, Notice
  <1> QED
    BY <1>1, <1>2 DEF SavesKeep, GrantsKeep

LEMMA SamePlayersGrow ==
    ASSUME SessionInv, NEW a \in Account, \A c \in Conn : conn'[c] = conn[c] \/ ~(Plays(c, a)')
    PROVE  PlayersGrow(a)
  <1> SUFFICES ASSUME NEW c \in Conn, Plays(c, a)'
               PROVE  /\ Plays(c, a) /\ conn'[c].slot = conn[c].slot
                      /\ conn[c].rec.ver <= conn'[c].rec.ver
    BY DEF PlayersGrow
  <1>1. conn'[c] = conn[c]
    OBVIOUS
  <1>2. Plays(c, a)
    BY <1>1 DEF Plays, InPlay, Live
  <1> QED
    BY <1>1, <1>2, VerFacts

LEMMA NotPlaying ==
    ASSUME SessionInv, SessionInv', NEW c \in Conn, conn'[c].state # "LOGIN", NEW a
    PROVE  ~(Plays(c, a)')
  <1>1. ConnOK(c)'
    BY DEF SessionInv, Base, ConnsOK
  <1> QED
    BY <1>1 DEF ConnOK, Plays, InPlay

LEMMA QuietNewers ==
    ASSUME SessionInv, SessionInv', Newers, Quiet
    PROVE  Newers'
  <1>1. PICK ts \in Ti \union {NoTi}, us \in Ti \union {NoTi} : UpKept(ts) /\ DownKept(us)
    BY DEF Quiet
  <1>2. FilesShrink /\ NoneRevives /\ ConnsKept
    BY DEF Quiet, FilesKept, FilesShrink, ConnsKept, NoneRevives
  <1>3. ASSUME NEW a \in Account PROVE SavesKeep(a, ts) /\ GrantsKeep(a, us)
    BY <1>1 DEF UpKept, DownKept, SavesKeep, GrantsKeep, SavesAt, OfAt, GrantAt, QuietAnswer
  <1>4. ASSUME NEW a \in Account PROVE PlayersGrow(a)
    <2> SUFFICES ASSUME NEW c \in Conn, Plays(c, a)'
                 PROVE  /\ Plays(c, a) /\ conn'[c].slot = conn[c].slot
                        /\ conn[c].rec.ver <= conn'[c].rec.ver
      BY DEF PlayersGrow
    <2>1. Plays(c, a)
      BY <1>2, PlayersOfQuiet DEF PlayersStay
    <2>2. conn'[c].state = "LOGIN"
      BY NotPlaying
    <2>3. conn'[c].slot = conn[c].slot /\ conn'[c].rec = conn[c].rec
      BY <1>2, <2>2 DEF ConnsKept
    <2> QED
      BY <2>1, <2>3, VerFacts
  <1> QED
    BY <1>2, <1>3, <1>4, NewerStays, BlankStays DEF Newers

LEMMA PlayNewers ==
    ASSUME SessionInv, SessionInv', Newers, NEW c \in Conn, Play(c)
    PROVE  Newers'
  <1>1. TypeOK /\ conn[c] \in ConnRecord /\ conn[c].state = "LOGIN" /\ UNCHANGED <<up, down, file>>
    BY InvFacts DEF Play, netVars, saacVars
  <1>2. conn'[c] = [conn[c] EXCEPT !.rec.ver = @ + 1] /\ \A d \in Conn : d # c => conn'[d] = conn[d]
    BY <1>1 DEF Play, TypeOK
  <1>3. /\ conn'[c].acct = conn[c].acct /\ conn'[c].slot = conn[c].slot /\ conn'[c].state = "LOGIN"
        /\ conn'[c].rec.ver = conn[c].rec.ver + 1
    BY <1>1, <1>2 DEF ConnRecord, Record
  <1>4. Moved(up, up', NoTi, NoTi, Blank) /\ Moved(down, down', NoTi, NoTi, Blank) /\ NoTi \notin Ti
    BY <1>1, UpSame, DownSame, NameFacts
  <1>5. FilesShrink /\ NoneRevives
    BY <1>1, <1>2, <1>3 DEF FilesShrink, NoneRevives, Dead
  <1>6. ASSUME NEW a \in Account PROVE PlayersGrow(a)
    <2> SUFFICES ASSUME NEW d \in Conn, Plays(d, a)'
                 PROVE  /\ Plays(d, a) /\ conn'[d].slot = conn[d].slot
                        /\ conn[d].rec.ver <= conn'[d].rec.ver
      BY DEF PlayersGrow
    <2>1. CASE d = c
      <3>1. Plays(d, a)
        BY <1>1, <1>3, <2>1, PlayFacts DEF Plays
      <3> QED
        BY <1>3, <2>1, <3>1, VerFacts
    <2>2. CASE d # c
      <3>1. conn'[d] = conn[d] /\ Plays(d, a)
        BY <1>2, <2>2 DEF Plays, InPlay, Live
      <3> QED
        BY <3>1, VerFacts
    <2> QED
      BY <2>1, <2>2
  <1>7. ASSUME NEW a \in Account PROVE SavesKeep(a, NoTi) /\ GrantsKeep(a, NoTi)
    BY <1>4, MoveKeeps
  <1> QED
    BY <1>5, <1>6, <1>7, NewerStays, BlankStays DEF Newers

(* The save of what is played is the newest line of its account.           *)
LEMMA SavesNewers ==
    ASSUME SessionInv, SessionInv', LateClients, Holders, Newers,
           NEW c \in Conn, NEW b \in BOOLEAN, Saves(c, b)
    PROVE  Newers'
  <1> DEFINE h == acfd[conn[c].srv]
             m == SaveLine(c, b)
  <1>1. InPlay(c) /\ up' = [up EXCEPT ![h] = Append(@, m)] /\ UNCHANGED <<down, file>>
    BY DEF Saves, Send, saacVars
  <1>2. /\ TypeOK /\ SlotsOK /\ m \in Msg /\ h \in Ti /\ h # NoTi /\ conn[c].srv \in Server
        /\ m.acct = conn[c].acct /\ m.rec = conn[c].rec /\ m.slot = conn[c].slot /\ m.kind = "save"
    BY <1>1, InvFacts, SaveLineFacts
  <1> HIDE DEF m
  <1>3. Moved(up, up', NoTi, h, m) /\ Moved(down, down', NoTi, NoTi, Blank) /\ NoTi \notin Ti
    BY <1>1, <1>2, UpAppended, DownSame, NameFacts
  <1>4. \A d \in Conn : conn'[d] = conn[d] \/ conn'[d].state = "ended"
    BY <1>2 DEF Saves, TypeOK, Idle
  <1>5. \A d \in Conn : \A a : conn'[d] = conn[d] \/ ~(Plays(d, a)')
    BY <1>4, NotPlaying
  <1>6. FilesShrink /\ NoneRevives
    BY <1>1, <1>4 DEF FilesShrink, NoneRevives, Dead
  <1> HIDE DEF h
  <1>7. ASSUME NEW a \in Account PROVE Newer(a)'
    <2>1. Newer(a) /\ Holder(a) /\ PlayersGrow(a)
      BY <1>5, SamePlayersGrow DEF Newers, Holders
    <2>2. CASE a # conn[c].acct
      <3>1. SavesKeep(a, NoTi) /\ GrantsKeep(a, NoTi)
        BY <1>2, <1>3, <2>2, MoveKeeps
      <3> QED
        BY <1>6, <2>1, <3>1, NewerStays
    <2>3. CASE a = conn[c].acct
      <3>1. Plays(c, a) /\ \A d \in Conn : Plays(d, a) => d = c
        BY <1>1, <2>1, <2>3 DEF Plays, Holder, OnePlayer
      <3>2. GrantsKeep(a, NoTi)
        BY <1>1, <1>3 DEF GrantsKeep, GrantAt, Kept
      <3>3. GrantNewer(a)' /\ PlayerNewer(a)'
        BY <1>6, <2>1, <3>2, GrantNewerStays, PlayerNewerStays DEF Newer
      <3>4. ASSUME NEW t \in Ti, NEW i \in Nat, SavesAt(t, i, a)'
            PROVE  \/ SavesAt(t, i, a) /\ up'[t][i] = up[t][i] /\ i <= Len(up[t])
                   \/ t = h /\ i = Len(up[h]) + 1 /\ up'[t][i] = m
        <4>1. i \in DOMAIN up'[t] /\ up'[t][i].kind \notin Notice
          BY <3>4 DEF SavesAt, OfAt, Notice
        <4>2. CASE Kept(up, up', NoTi, t, i)
          <5>1. i \in DOMAIN up[t] /\ up'[t][i] = up[t][i]
            BY <1>3, <4>2 DEF Kept
          <5>2. i <= Len(up[t])
            BY <1>2, <5>1, QueueFacts
          <5> QED
            BY <3>4, <5>1, <5>2 DEF SavesAt, OfAt
        <4> QED
          BY <1>3, <4>1, <4>2 DEF Moved
      <3>5. m.slot \in Slot /\ m.rec.ver \in Nat /\ m.slot = conn[c].slot /\ m.rec = conn[c].rec
        BY <1>2, <3>1, VerFacts
      <3>6. SavesNewer(a)'
        <4> SUFFICES ASSUME NEW t \in Ti, NEW i \in Nat, SavesAt(t, i, a)'
                     PROVE  file[a][up'[t][i].slot].ver <= up'[t][i].rec.ver
          BY <1>1 DEF SavesNewer
        <4>1. file[a][m.slot].ver <= m.rec.ver
          BY <2>1, <3>1, <3>5 DEF Newer, PlayerNewer
        <4> QED
          BY <2>1, <3>4, <4>1 DEF Newer, SavesNewer
      <3>7. ASSUME NEW t \in Ti, NEW i \in Nat, SavesAt(t, i, a)
            PROVE  up[t][i].slot = m.slot /\ up[t][i].rec.ver <= m.rec.ver
        BY <2>1, <3>1, <3>5, <3>7 DEF Newer, PlayerNewest
      <3>8. SavesInOrder(a)'
        <4> SUFFICES ASSUME NEW t \in Ti, NEW i \in Nat, NEW j \in Nat, i < j,
                            SavesAt(t, i, a)', SavesAt(t, j, a)'
                     PROVE  up'[t][i].slot = up'[t][j].slot /\ up'[t][i].rec.ver <= up'[t][j].rec.ver
          BY DEF SavesInOrder
        <4>1. CASE SavesAt(t, j, a) /\ up'[t][j] = up[t][j] /\ j <= Len(up[t])
          <5>1. i # Len(up[t]) + 1
            BY <1>2, <4>1, QueueFacts
          <5>2. SavesAt(t, i, a) /\ up'[t][i] = up[t][i]
            BY <3>4, <5>1
          <5> QED
            BY <2>1, <4>1, <5>2 DEF Newer, SavesInOrder
        <4>2. CASE t = h /\ j = Len(up[h]) + 1 /\ up'[t][j] = m
          <5>1. SavesAt(t, i, a) /\ up'[t][i] = up[t][i]
            BY <3>4, <4>2
          <5> QED
            BY <3>7, <4>2, <5>1
        <4> QED
          BY <3>4, <4>1, <4>2
      <3>9. PlayerNewest(a)'
        <4> SUFFICES ASSUME NEW d \in Conn, Plays(d, a)', NEW t \in Ti, NEW i \in Nat, SavesAt(t, i, a)'
                     PROVE  up'[t][i].slot = conn'[d].slot /\ up'[t][i].rec.ver <= conn'[d].rec.ver
          BY DEF PlayerNewest
        <4>1. d = c /\ conn'[d] = conn[d]
          BY <1>5, <2>1, <3>1 DEF PlayersGrow
        <4> QED
          BY <3>4, <3>5, <3>7, <4>1
      <3> QED
        BY <3>3, <3>6, <3>8, <3>9 DEF Newer
    <2> QED
      BY <2>2, <2>3
  <1> QED
    BY <1>6, <1>7, BlankStays DEF Newers

LEMMA GetLoadNewers ==
    ASSUME SessionInv, SessionInv', Holders, Newers, NEW s \in Server, GetLoad(s)
    PROVE  Newers'
  <1>1. /\ Get(s, "load") /\ Answered(s).flag /\ down' = Consumed(s) /\ UNCHANGED <<up, file>>
    BY DEF GetLoad, GetQuietly, saacVars
  <1>2. PICK c \in Asker(s) :
          conn' = [conn EXCEPT ![c].state = "LOGIN", ![c].rec = Answered(s).rec, ![c].slot = Answered(s).slot]
    BY DEF GetLoad
  <1>3. /\ TypeOK /\ LinesOK /\ SlotsOK /\ c \in Conn /\ Live(c) /\ conn[c] \in ConnRecord /\ NoTi \notin Ti
        /\ Answered(s).conn = c
    BY InvFacts, NameFacts DEF Asker
  <1>4. /\ conn'[c] = [conn[c] EXCEPT !.state = "LOGIN", !.rec = Answered(s).rec, !.slot = Answered(s).slot]
        /\ \A d \in Conn : d # c => conn'[d] = conn[d]
    BY <1>2, <1>3 DEF TypeOK
  <1>5. /\ acfd[s] \in Ti /\ Moved(down, down', acfd[s], NoTi, Blank) /\ Moved(up, up', NoTi, NoTi, Blank)
        /\ 1 \in DOMAIN down[acfd[s]] /\ Answered(s) = down[acfd[s]][1] /\ Answered(s).kind = "load"
    BY <1>1, <1>3, DownConsumed, UpSame
  <1>6. conn[c].acct = Answered(s).acct /\ conn[c].acct \in Account
    BY <1>1, LoadAsker
  <1>7. /\ conn'[c].acct = conn[c].acct
        /\ conn'[c].slot = Answered(s).slot /\ conn'[c].rec = Answered(s).rec
    BY <1>3, <1>4 DEF ConnRecord
  <1>8. FilesShrink /\ NoneRevives
    BY <1>1, <1>3, <1>4 DEF FilesShrink, NoneRevives, Live, Dead
  <1>9. ASSUME NEW a \in Account PROVE Newer(a)'
    <2>1. Newer(a) /\ SavesKeep(a, NoTi) /\ GrantsKeep(a, acfd[s])
      BY <1>3, <1>5, MoveKeeps DEF Newers
    <2>2. CASE a # conn[c].acct
      <3>1. PlayersGrow(a)
        BY <1>4, <1>7, <2>2, SamePlayersGrow DEF Plays
      <3> QED
        BY <1>8, <2>1, <3>1, NewerStays
    <2>3. CASE a = conn[c].acct
      <3>1. /\ \A t \in Ti, i \in Nat : ~OfAt(t, i, a)
            /\ \A d \in Conn : ~Plays(d, a)
        BY <1>1, <1>8, <2>3, GrantTaken
      <3>2. GrantAt(acfd[s], 1, a)
        BY <1>1, <1>3, <1>5, <1>6, <2>3 DEF GrantAt
      <3>3. file[a][Answered(s).slot].ver <= Answered(s).rec.ver
        BY <1>5, <2>1, <3>2 DEF Newer, GrantNewer
      <3>4. \A d \in Conn : Plays(d, a)' => d = c
        BY <1>4, <3>1 DEF Plays, InPlay, Live
      <3>5. \A t \in Ti, i \in Nat : ~(SavesAt(t, i, a)')
        BY <1>1, <3>1 DEF SavesAt, OfAt
      <3>6. PlayerNewer(a)'
        BY <1>1, <1>7, <3>3, <3>4 DEF PlayerNewer
      <3>7. SavesNewer(a)' /\ SavesInOrder(a)' /\ PlayerNewest(a)'
        BY <3>5 DEF SavesNewer, SavesInOrder, PlayerNewest
      <3>8. GrantNewer(a)'
        BY <1>8, <2>1, GrantNewerStays DEF Newer
      <3> QED
        BY <3>6, <3>7, <3>8 DEF Newer
    <2> QED
      BY <2>2, <2>3
  <1> QED
    BY <1>8, <1>9, BlankStays DEF Newers

(* Steps that load nothing, save nothing and write no file.                *)
LEMMA IdleNewers ==
    ASSUME SessionInv, SessionInv', Newers, file' = file,
           NEW ts, \A a \in Account : SavesKeep(a, ts), NEW us, \A a \in Account : GrantsKeep(a, us),
           \A c \in Conn : conn'[c] = conn[c] \/ (conn'[c].state # "LOGIN" /\ conn[c].state # "ended")
    PROVE  Newers'
  <1>1. FilesShrink /\ NoneRevives
    BY DEF FilesShrink, NoneRevives, Dead
  <1>2. ASSUME NEW a \in Account PROVE PlayersGrow(a)
    BY NotPlaying, SamePlayersGrow
  <1> QED
    BY <1>1, <1>2, NewerStays, BlankStays DEF Newers

LEMMA UnlockSentNewers ==
    ASSUME SessionInv, SessionInv', Newers, NEW s \in Server,
           GetLoadUnusable(s) \/ \E c \in Asker(s) : Resent(s, c)
    PROVE  Newers'
  <1>1. PICK kind \in AsksKind : Get(s, kind)
    BY KindFacts DEF GetLoadUnusable, Resent
  <1>2. PICK c \in Asker(s) :
          /\ conn' = conn \/ conn' = [conn EXCEPT ![c].state = "WHILECANNOTLOGIN", ![c].rec = Blank]
          /\ up' = [up EXCEPT ![acfd[s]] = Append(@, UnlockLine(c))]
    BY DEF GetLoadUnusable, UnlockLine, Resent
  <1>3. down' = Consumed(s) /\ file' = file
    BY DEF GetLoadUnusable, Resent, saacVars
  <1>4. TypeOK /\ LinesOK /\ SlotsOK /\ c \in Conn /\ Live(c) /\ conn[c] \in ConnRecord /\ NoTi \notin Ti
    BY InvFacts, NameFacts DEF Asker
  <1>5. \A d \in Conn : conn'[d] = conn[d] \/ (conn'[d].state # "LOGIN" /\ conn[d].state # "ended")
    BY <1>2, <1>4 DEF TypeOK, ConnRecord, Live, Dead
  <1>6. conn[c].acct \in Account /\ acfd[s] # NoTi
    BY <1>1, <1>3, <1>4, AskerFacts, DownConsumed
  <1>7. UnlockLine(c) \in Msg /\ UnlockLine(c).kind = "unlock"
    BY <1>4, <1>6, UnlockLineFacts
  <1>8. Moved(up, up', NoTi, acfd[s], UnlockLine(c)) /\ Moved(down, down', acfd[s], NoTi, Blank)
    BY <1>1, <1>2, <1>3, <1>4, <1>6, <1>7, UpAppended, DownConsumed
  <1>9. \A a \in Account : SavesKeep(a, NoTi) /\ GrantsKeep(a, acfd[s])
    BY <1>4, <1>7, <1>8, MoveKeeps
  <1> QED
    BY <1>3, <1>5, <1>9, IdleNewers

LEMMA ServerNewers ==
    ASSUME SessionInv, SessionInv', Newers, NEW ti \in Ti, LoginGranted(ti) \/ RecvEof(ti)
    PROVE  Newers'
  <1>1. conn' = conn /\ file' = file
    BY DEF LoginGranted, RecvEof, gmsvVars
  <1>2. TypeOK /\ NoTi \notin Ti /\ down \in Queues
    BY InvFacts, NameFacts DEF TypeOK, Queues
  <1>3. CASE LoginGranted(ti)
    <2>1. ReadsOneOf(ti, {"login"}) /\ up' = Tidied(ti) /\ down' = down
      BY <1>3 DEF LoginGranted, Reads
    <2>2. Moved(up, up', ti, NoTi, Blank) /\ Moved(down, down', NoTi, NoTi, Blank)
      BY <1>2, <2>1, ReadFacts, DownSame
    <2>3. \A a \in Account : SavesKeep(a, ti) /\ GrantsKeep(a, NoTi)
      BY <1>2, <2>2, MoveKeeps
    <2> QED
      BY <1>1, <2>3, IdleNewers
  <1>4. CASE RecvEof(ti)
    <2>1. up' = up /\ down' = [down EXCEPT ![ti] = <<>>]
      BY <1>4 DEF RecvEof
    <2>2. Moved(up, up', NoTi, NoTi, Blank) /\ Moved(down, down', NoTi, NoTi, Blank)
      BY <1>2, <2>1, UpSame, MovedEmpty
    <2>3. \A a \in Account : SavesKeep(a, NoTi) /\ GrantsKeep(a, NoTi)
      BY <1>2, <2>2, MoveKeeps
    <2> QED
      BY <1>1, <2>3, IdleNewers
  <1> QED
    BY <1>3, <1>4

LEMMA LoadNewers ==
    ASSUME SessionInv, SessionInv', Newers, NEW t \in tasks, LoadCallback(t)
    PROVE  Newers'
  <1>1. PICK k \in Slot : Moved(down, down', NoTi, t.ti, Granted(t, k))
    BY GrantedFacts
  <1> DEFINE n == Granted(t, k)
  <1>2. TypeOK /\ NoTi \notin Ti /\ conn' = conn /\ up' = up /\ file' = file
    BY InvFacts, NameFacts DEF LoadCallback, gmsvVars
  <1>3. n.acct = t.acct /\ n.slot = k /\ n.rec = file[t.acct][k]
    BY DEF Granted, Line
  <1>4. Moved(down, down', NoTi, t.ti, n) /\ Moved(up, up', NoTi, NoTi, Blank)
    BY <1>1, <1>2, UpSame
  <1> HIDE DEF n
  <1>5. FilesShrink /\ NoneRevives
    BY <1>2 DEF FilesShrink, NoneRevives, Dead
  <1>6. ASSUME NEW a \in Account PROVE Newer(a)'
    <2>1. Newer(a) /\ PlayersGrow(a)
      BY <1>2, SamePlayersGrow DEF Newers
    <2>2. SavesKeep(a, NoTi)
      BY <1>2 DEF SavesKeep, SavesAt, OfAt, Kept
    <2>3. CASE n.acct # a
      <3>1. GrantsKeep(a, NoTi)
        BY <1>2, <1>4, <2>3, MoveKeeps
      <3> QED
        BY <1>5, <2>1, <2>2, <3>1, NewerStays
    <2>4. CASE n.acct = a
      <3>1. SavesNewer(a)' /\ SavesInOrder(a)' /\ PlayerNewer(a)' /\ PlayerNewest(a)'
        BY <1>2, <2>1 DEF Newer, SavesNewer, SavesInOrder, PlayerNewer, PlayerNewest,
                          SavesAt, OfAt, Plays, InPlay, Live
      <3>2. GrantNewer(a)'
        <4> SUFFICES ASSUME NEW u \in Ti, NEW i \in Nat, GrantAt(u, i, a)'
                     PROVE  file[a][down'[u][i].slot].ver <= down'[u][i].rec.ver
          BY <1>2 DEF GrantNewer
        <4>1. i \in DOMAIN down'[u] /\ down'[u][i].kind \notin Notice
          BY DEF GrantAt, Notice
        <4>2. CASE Kept(down, down', NoTi, u, i)
          <5>1. down'[u][i] = down[u][i] /\ GrantAt(u, i, a)
            BY <1>2, <4>2 DEF Kept, GrantAt, Live
          <5> QED
            BY <2>1, <5>1 DEF Newer, GrantNewer
        <4>3. CASE down'[u][i] = n
          BY <1>3, <2>4, <4>3, VerFacts
        <4> QED
          BY <1>4, <4>1, <4>2, <4>3 DEF Moved
      <3> QED
        BY <3>1, <3>2 DEF Newer
    <2> QED
      BY <2>3, <2>4
  <1> QED
    BY <1>5, <1>6, BlankStays DEF Newers

(* A save is read and written.                                             *)
LEMMA SaveReadNewers ==
    ASSUME SessionInv, SessionInv', "create" \notin ClientOps, Holders, Newers, NEW ti \in Ti, RecvSave(ti)
    PROVE  /\ Newers'
           /\ \A a \in Account, k \in Slot : file'[a][k].ver >= file[a][k].ver
  <1> DEFINE m == Read(ti)
             n == Reply(m, TRUE)
  <1>1. ReadsOneOf(ti, {"save"}) /\ up' = Tidied(ti) /\ conn' = conn
    BY DEF RecvSave, Reads, gmsvVars
  <1>2. /\ TypeOK /\ NoTi \notin Ti /\ Moved(up, up', ti, NoTi, Blank) /\ up' \in Queues
        /\ 1 \in DOMAIN up[ti] /\ m = up[ti][1] /\ m \in Msg /\ UpLineOK(m) /\ m.kind \in {"save"}
    BY <1>1, ReadFacts
  <1>3. m.acct \in Account /\ m.rec.char \in Char /\ m.slot # NewSlot
    BY <1>2 DEF UpLineOK
  <1>4. m.slot \in Slot /\ m.rec \in Record
    BY <1>2, <1>3, MsgFacts DEF SaveIndex
  <1>5. file' = [file EXCEPT ![m.acct][m.slot] = m.rec]
    BY <1>3 DEF RecvSave, SaveTarget
  <1>6. n \in Msg /\ n.kind # "load"
    <2>1. m.kind \in Kind /\ m.conn \in Conn \union {NoConn} /\ m.acct \in Account \union {NoAccount}
      BY <1>2, MsgFacts
    <2>2. n \in Msg
      BY <2>1, LineType, BlankFacts DEF Reply
    <2> QED
      BY <1>2, <2>2 DEF Reply, Line
  <1>7. Post(To(ti, n))
    BY DEF RecvSave
  <1>8. SavesAt(ti, 1, m.acct)
    BY <1>2, <1>3 DEF SavesAt, OfAt, QuietLine
  <1> HIDE DEF m, n
  <1>9. Moved(down, down', NoTi, ti, n)
    BY <1>2, <1>6, <1>7, PostTo
  <1>10. NoneRevives
    BY <1>1 DEF NoneRevives, Dead
  <1>11. /\ file'[m.acct][m.slot] = m.rec
         /\ \A a \in Account, j \in Slot : ~(a = m.acct /\ j = m.slot) => file'[a][j] = file[a][j]
    BY <1>2, <1>3, <1>4, <1>5 DEF TypeOK
  <1>12. BlankFiles'
    BY <1>3, <1>11, SessionAssumption DEF Newers, BlankFiles, SessionAssumption
  <1>13. file[m.acct][m.slot].ver <= m.rec.ver
    BY <1>2, <1>3, <1>8 DEF Newers, Newer, SavesNewer
  <1>14. m.rec.ver \in Nat
    BY <1>2, <1>3, <1>8, VerFacts
  <1>15. ASSUME NEW a \in Account PROVE Newer(a)'
    <2>1. /\ Newer(a) /\ Holder(a) /\ PlayersGrow(a) /\ SavesKeep(a, ti) /\ GrantsKeep(a, NoTi)
      BY <1>1, <1>2, <1>6, <1>9, SamePlayersGrow, MoveKeeps DEF Newers, Holders
    <2>2. \A c \in Conn : Plays(c, a)' => Plays(c, a) /\ conn'[c] = conn[c]
      BY <1>1 DEF Plays, InPlay, Live
    <2>3. CASE a # m.acct
      <3>1. \A k \in Slot : file'[a][k] = file[a][k]
        BY <1>11, <2>3
      <3>2. SavesNewer(a)'
        <4> SUFFICES ASSUME NEW t \in Ti, NEW i \in Nat, SavesAt(t, i, a)'
                     PROVE  file'[a][up'[t][i].slot].ver <= up'[t][i].rec.ver
          BY DEF SavesNewer
        <4>1. PICK j \in Nat : SavesAt(t, j, a) /\ up'[t][i] = up[t][j]
          BY <2>1, SavesKept
        <4> QED
          BY <2>1, <3>1, <4>1, VerFacts DEF Newer, SavesNewer
      <3>3. GrantNewer(a)'
        <4> SUFFICES ASSUME NEW t \in Ti, NEW i \in Nat, GrantAt(t, i, a)'
                     PROVE  file'[a][down'[t][i].slot].ver <= down'[t][i].rec.ver
          BY DEF GrantNewer
        <4>1. PICK j \in Nat : GrantAt(t, j, a) /\ down'[t][i] = down[t][j]
          BY <1>10, <2>1, GrantsKept
        <4> QED
          BY <2>1, <3>1, <4>1, VerFacts DEF Newer, GrantNewer
      <3>4. PlayerNewer(a)'
        BY <2>1, <2>2, <3>1, VerFacts DEF Newer, PlayerNewer
      <3> QED
        BY <2>1, <3>2, <3>3, <3>4, OrderStays DEF Newer
    <2>4. CASE a = m.acct
      <3>1. \A t \in Ti, i \in Nat : SavesAt(t, i, a) => t = ti
        BY <1>8, <2>1, <2>4, NameFacts DEF SavesAt, Holder, LinesLocked
      <3>2. ASSUME NEW t \in Ti, NEW i \in Nat, SavesAt(t, i, a)'
            PROVE  up'[t][i].slot = m.slot /\ m.rec.ver <= up'[t][i].rec.ver
        <4>1. SavesAt(t, Pos(ti, t, i), a) /\ Pos(ti, t, i) \in Nat /\ up'[t][i] = up[t][Pos(ti, t, i)]
          BY <2>1, <3>2, SavesKept
        <4>2. t = ti
          BY <3>1, <4>1
        <4>3. i \in DOMAIN up'[t] /\ up'[t] \in Seq(Msg)
          BY <1>2, <3>2 DEF SavesAt, OfAt, Queues
        <4>4. i # 0
          BY <4>3, SeqFacts
        <4>5. 1 < Pos(ti, t, i)
          BY <4>2, <4>4 DEF Pos
        <4> QED
          BY <1>2, <1>8, <2>1, <2>4, <4>1, <4>2, <4>5 DEF Newer, SavesInOrder
      <3>3. SavesNewer(a)'
        BY <1>11, <2>4, <3>2 DEF SavesNewer
      <3>4. PlayerNewer(a)'
        <4> SUFFICES ASSUME NEW c \in Conn, Plays(c, a)'
                     PROVE  file'[a][conn'[c].slot].ver <= conn'[c].rec.ver
          BY DEF PlayerNewer
        <4>1. m.slot = conn[c].slot /\ m.rec.ver <= conn[c].rec.ver
          BY <1>2, <1>8, <2>1, <2>2, <2>4 DEF Newer, PlayerNewest
        <4> QED
          BY <1>1, <1>11, <2>4, <4>1
      <3>5. GrantNewer(a)'
        <4> SUFFICES ASSUME NEW t \in Ti, NEW i \in Nat, GrantAt(t, i, a)' PROVE FALSE
          BY DEF GrantNewer
        <4>1. PICK j \in Nat : GrantAt(t, j, a)
          BY <1>10, <2>1, GrantsKept
        <4> QED
          BY <1>8, <2>1, <2>4, <4>1 DEF SavesAt, Holder, GrantAlone
      <3> QED
        BY <2>1, <3>3, <3>4, <3>5, OrderStays DEF Newer
    <2> QED
      BY <2>3, <2>4
  <1>16. ASSUME NEW a \in Account, NEW k \in Slot PROVE file'[a][k].ver >= file[a][k].ver
    <2>1. file[a][k].ver \in Nat
      BY VerFacts
    <2> QED
      BY <1>11, <1>13, <1>14, <2>1
  <1> QED
    BY <1>12, <1>15, <1>16 DEF Newers

LEMMA SaveReadIdle ==
    ASSUME SessionInv, SessionInv', Newers, NEW ti \in Ti, RecvSaveFailed(ti) \/ RecvUnlock(ti)
    PROVE  Newers'
  <1> DEFINE m == Read(ti)
  <1>1. PICK kind \in {"save", "unlock"} : ReadsOneOf(ti, {kind})
    BY DEF RecvSaveFailed, RecvUnlock, Reads
  <1>2. PICK b \in BOOLEAN : Post(To(ti, Reply(m, b)))
    BY DEF RecvSaveFailed, RecvUnlock
  <1>3. up' = Tidied(ti) /\ conn' = conn /\ file' = file
    BY DEF RecvSaveFailed, RecvUnlock, gmsvVars
  <1>4. /\ TypeOK /\ NoTi \notin Ti /\ Moved(up, up', ti, NoTi, Blank) /\ m \in Msg /\ m.kind \in {kind}
    BY <1>1, <1>3, ReadFacts
  <1> DEFINE n == Reply(m, b)
  <1>5. n \in Msg /\ n.kind # "load"
    <2>1. m.kind \in Kind /\ m.conn \in Conn \union {NoConn} /\ m.acct \in Account \union {NoAccount}
      BY <1>4, MsgFacts
    <2>2. n \in Msg
      BY <2>1, LineType, BlankFacts DEF Reply
    <2> QED
      BY <1>4, <2>2 DEF Reply, Line
  <1>6. Post(To(ti, n))
    BY <1>2
  <1> HIDE DEF m, n
  <1>7. Moved(down, down', NoTi, ti, n)
    BY <1>4, <1>5, <1>6, PostTo
  <1>8. \A a \in Account : SavesKeep(a, ti) /\ GrantsKeep(a, NoTi)
    BY <1>4, <1>5, <1>7, MoveKeeps
  <1> QED
    BY <1>3, <1>8, IdleNewers

LEMMA NewersInit == Init => Newers
  <1> SUFFICES ASSUME Init PROVE Newers
    OBVIOUS
  <1>1. DOMAIN <<>> = {}
    OBVIOUS
  <1>2. /\ \A t \in Ti : up[t] = <<>> /\ down[t] = <<>>
        /\ \A c \in Conn : ~InPlay(c)
    BY DEF Init, InPlay, Live, Dead, Idle
  <1>3. BlankFiles
    BY DEF Init, BlankFiles, Blank, Fresh
  <1>4. \A a \in Account, t \in Ti, i \in Nat : ~SavesAt(t, i, a) /\ ~GrantAt(t, i, a)
    BY <1>1, <1>2 DEF SavesAt, OfAt, GrantAt
  <1>5. \A a \in Account, c \in Conn : ~Plays(c, a)
    BY <1>2 DEF Plays
  <1> QED
    BY <1>3, <1>4, <1>5 DEF Newers, Newer, SavesNewer, SavesInOrder, GrantNewer, PlayerNewer,
                            PlayerNewest

LEMMA NewersStep ==
    ASSUME LateClients, "create" \notin ClientOps, SessionInv, Holders, Newers, [Next]_vars
    PROVE  Newers'
  <1>1. SessionInv'
    BY SessionStep
  <1>2. ASSUME NEW c \in Conn, Play(c) \/ \E b \in BOOLEAN : Saves(c, b) PROVE Newers'
    BY <1>1, <1>2, PlayNewers, SavesNewers
  <1>3. ASSUME NEW s \in Server, GetLoad(s) \/ GetLoadUnusable(s) \/ \E c \in Asker(s) : Resent(s, c)
        PROVE  Newers'
    BY <1>1, <1>3, GetLoadNewers, UnlockSentNewers
  <1>4. ASSUME NEW ti \in Ti, \/ LoginGranted(ti) \/ RecvEof(ti)
                              \/ RecvSave(ti) \/ RecvSaveFailed(ti) \/ RecvUnlock(ti)
        PROVE  Newers'
    BY <1>1, <1>4, ServerNewers, SaveReadNewers, SaveReadIdle
  <1>5. ASSUME NEW t \in tasks, LoadCallback(t) PROVE Newers'
    BY <1>1, <1>5, LoadNewers
  <1> QED
    BY <1>1, <1>2, <1>3, <1>4, <1>5, Steps, QuietNewers

(* Only charSave and a deletion write a file.                              *)
LEMMA FilesGrow ==
    ASSUME "create" \notin ClientOps, SessionInv, Holders, Newers, [Next]_vars,
           NEW a \in Account, NEW k \in Slot, file'[a][k].char = file[a][k].char
    PROVE  file'[a][k].ver >= file[a][k].ver
  <1>1. SessionInv' /\ file[a][k].ver \in Nat
    BY SessionStep, VerFacts
  <1>2. CASE file'[a][k] = file[a][k]
    BY <1>1, <1>2
  <1>3. CASE file'[a][k] = Blank
    BY <1>1, <1>3 DEF Newers, BlankFiles, Blank
  <1>4. CASE \E ti \in Ti : RecvSave(ti)
    BY <1>1, <1>4, SaveReadNewers
  <1>5. file' = file \/ Quiet \/ \E ti \in Ti : RecvSave(ti)
    BY Steps DEF Play, Saves, GetLoad, GetQuietly, GetLoadUnusable, Resent, LoginGranted, RecvEof,
                 RecvSaveFailed, RecvUnlock, LoadCallback, saacVars
  <1> QED
    BY <1>2, <1>3, <1>4, <1>5 DEF Quiet, FilesKept

(* The saves of a session reach SAAC in their order and end before the     *)
(* next session of the account is loaded, wherever that is played: the     *)
(* later save is the later state, though charSave compares nothing.        *)
THEOREM FilesNeverGoBack == ASSUME LateClients, "create" \notin ClientOps PROVE Spec => NoRollback
  <1>1. Init => SessionInv /\ Holders /\ Newers
    BY SessionInit, HoldersInit, NewersInit
  <1>2. SessionInv /\ Holders /\ Newers /\ [Next]_vars => SessionInv' /\ Holders' /\ Newers'
    BY SessionStep, HoldersStep, NewersStep
  <1>3. SessionInv /\ Holders /\ Newers /\ [Next]_vars =>
           [\A a \in Account, k \in Slot :
               file'[a][k].char = file[a][k].char => file'[a][k].ver >= file[a][k].ver]_vars
    BY FilesGrow
  <1> QED
    BY <1>1, <1>2, <1>3, PTL DEF Spec, NoRollback
=============================================================================
