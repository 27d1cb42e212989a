------------------------------ MODULE Session ------------------------------
(***************************************************************************)
(* A player's session across the two programs: a client connection of a    *)
(* game server (GMSV: callfromcli.c, callfromac.c, net.c, char/char.c), the *)
(* TCP stream to the account server (SAAC: main.c, recv.c, char.c), and    *)
(* the account lock and character files SAAC keeps.  Both programs are     *)
(* single-threaded, so one message handled is one action.  The lock table  *)
(* is the map LockTable implements; three requests are answered through    *)
(* SAAC's worker pool (WorkerPool), that is, by a callback some time later. *)
(***************************************************************************)
EXTENDS Integers, Sequences

CONSTANTS
    Account,    \* cdkeys
    Char,       \* character names
    Slot,       \* character slots of an account, 0 .. MAXCHAR_PER_USER - 1
    Server,     \* game server names
    Ti,         \* SAAC's connection slots
    Conn,       \* client connections: one per fdid, used once
    NoAccount, NoChar, NoServer, NoTi, NoConn, Free,
    ClientOps,  \* which of "list", "create", "delete", "gm" are used
    EarlyClients,  \* do clients come before SAAC has granted the login?
    MaxVer,     \* bound: how often a character changes
    MaxQueue    \* bound: clients send while no stream holds more lines

ASSUME SessionAssumption ==
    /\ Slot \subseteq Nat
    /\ MaxVer \in Nat /\ MaxQueue \in Nat
    /\ EarlyClients \in BOOLEAN
    /\ NoAccount \notin Account /\ NoChar \notin Char /\ NoConn \notin Conn
    /\ NoServer \notin Server /\ NoTi \notin Ti
    /\ Free \notin Server /\ Free # NoServer

VARIABLES
    acfd,   \* acfd[s]: the SAAC slot server s is connected on; NoTi: s is down
    conn,   \* conn[c]: client connection c
    up,     \* up[ti]: lines from the server on slot ti, unread by SAAC
    down,   \* down[ti]: lines from SAAC, unread by that server
    eof,    \* eof[ti]: the server on slot ti has gone; SAAC reads that last
    gs,     \* gs[ti]: SAAC's record of the server on slot ti
    lock,   \* lock[a]: the server name account a is locked with, or Free
    file,   \* file[a][k]: the character in slot k of account a
    tasks   \* requests given to the worker pool, callback outstanding

gmsvVars == <<acfd, conn>>
netVars  == <<up, down, eof>>
saacVars == <<gs, lock, file, tasks>>
vars     == <<acfd, conn, up, down, eof, gs, lock, file, tasks>>

(***************************************************************************)
(* Values.                                                                 *)
(***************************************************************************)
Waiting == {"WHILEDOWNLOADCHARLIST", "WHILELOGIN", "WHILECREATE",
            "WHILECHARDELETE", "WHILECANNOTLOGIN"}
Dead    == {"unused", "ended"}

(* A character file or a character in memory: whose it is, how far it got. *)
Record    == [char : Char \union {NoChar}, ver : 0 .. MaxVer]
Blank     == [char |-> NoChar, ver |-> 0]
Fresh(ch) == [char |-> ch, ver |-> 0]

(* CHAR_SAVEINDEXNUMBER is the slot a loaded character is saved to; -1 for *)
(* one that is being created.                                              *)
NewSlot == -1
SaveIndex == Slot \union {NewSlot}

(* rec # Blank stands for charaindex >= 0: the connection plays rec.       *)
ConnRecord == [state : {"NOTLOGIN", "LOGIN"} \union Waiting \union Dead,
               srv : Server \union {NoServer}, acct : Account \union {NoAccount},
               rec : Record, slot : SaveIndex, close : BOOLEAN]

Idle(st, s) == [state |-> st, srv |-> s, acct |-> NoAccount, rec |-> Blank,
                slot |-> NewSlot, close |-> FALSE]

(* One shape for every line.  flag is unlock for a save, the status for    *)
(* ucheck, success for an answer.                                          *)
GMKind == {"gmlock", "gmunlock", "gmunlockall", "gmkick"}
Kind == {"login", "list", "load", "save", "delete", "unlock", "ucheck", "kick"}
        \union GMKind
Msg  == [kind : Kind, srv : Server \union {NoServer}, conn : Conn \union {NoConn},
         acct : Account \union {NoAccount}, rec : Record, slot : SaveIndex,
         flag : BOOLEAN]

Line(kind, c, a, rec, k, flag) ==
    [kind |-> kind, srv |-> NoServer, conn |-> c, acct |-> a, rec |-> rec,
     slot |-> k, flag |-> flag]

ServerLine(s, flag) ==
    [kind |-> "login", srv |-> s, conn |-> NoConn, acct |-> NoAccount, rec |-> Blank,
     slot |-> NewSlot, flag |-> flag]

Task == [kind : {"list", "load", "delete"}, ti : Ti, conn : Conn,
         acct : Account, char : Char \union {NoChar}]

(***************************************************************************)
(* GMSV: game servers and their clients.                                   *)
(***************************************************************************)
Live(c)   == conn[c].state \notin Dead
InPlay(c) == Live(c) /\ conn[c].rec.char # NoChar

(* The connection has named its account (ctype CLI).                       *)
IsCLI(c)  == conn[c].acct # NoAccount

(* Bound on the lines in flight: new client requests wait for it.          *)
Room == \A ti \in Ti : Len(up[ti]) + Len(down[ti]) < MaxQueue

Send(s, m) == /\ up' = [up EXCEPT ![acfd[s]] = Append(@, m)]
              /\ UNCHANGED <<down, eof>>

(* A server process starts, connects to SAAC, which accepts it at once     *)
(* (gs[ti].use is set before any login), and logs in.                      *)
StartServer(s, ti) ==
    /\ acfd[s] = NoTi /\ ~gs[ti].use
    /\ acfd' = [acfd EXCEPT ![s] = ti]
    /\ gs' = [gs EXCEPT ![ti].use = TRUE]
    /\ up' = [up EXCEPT ![ti] = <<ServerLine(s, TRUE)>>]
    /\ down' = [down EXCEPT ![ti] = <<>>]
    /\ UNCHANGED <<conn, eof, lock, file, tasks>>

(* The process is gone: its clients with it, the lines it had buffered and *)
(* not yet written, and whatever it had not read.                          *)
ProcessGone(s) ==
    LET ti == acfd[s]
    IN  /\ acfd' = [acfd EXCEPT ![s] = NoTi]
        /\ conn' = [c \in Conn |-> IF Live(c) /\ conn[c].srv = s
                                   THEN Idle("ended", NoServer) ELSE conn[c]]
        /\ \E k \in 0 .. Len(up[ti]) : up' = [up EXCEPT ![ti] = SubSeq(@, 1, k)]
        /\ down' = [down EXCEPT ![ti] = <<>>]
        /\ eof' = [eof EXCEPT ![ti] = TRUE]
        /\ UNCHANGED saacVars

Crash(s) == acfd[s] # NoTi /\ ProcessGone(s)

(* A new client connection gets an fdid never used before.  The code lets  *)
(* clients in whether SAAC has answered the server's login or not; with    *)
(* EarlyClients FALSE they are assumed to come later.                      *)
Accept(c, s) ==
    /\ conn[c].state = "unused" /\ acfd[s] # NoTi
    /\ EarlyClients \/ gs[acfd[s]].name = s
    /\ conn' = [conn EXCEPT ![c] = Idle("NOTLOGIN", s)]
    /\ UNCHANGED <<acfd, netVars, saacVars>>

(* Changed forms of a definition, here and below, are named for what they  *)
(* leave out; no action of Next uses them.                                 *)
ClientLoginAnytime(c, a) ==
    /\ Live(c)
    /\ conn' = [conn EXCEPT ![c].acct = a]
    /\ UNCHANGED <<acfd, netVars, saacVars>>

(* lssproto_ClientLogin_recv: names the account, again and again as long   *)
(* as nothing is outstanding.                                              *)
ClientLogin(c, a) ==
    /\ conn[c].state = "NOTLOGIN"
    /\ conn' = [conn EXCEPT ![c].acct = a]
    /\ UNCHANGED <<acfd, netVars, saacVars>>

AskUnnamed(c, st, kind, rec) ==
    /\ conn[c].state = "NOTLOGIN" /\ Room
    /\ conn' = [conn EXCEPT ![c].state = st]
    /\ Send(conn[c].srv, Line(kind, c, conn[c].acct, rec, NewSlot, FALSE))
    /\ UNCHANGED <<acfd, saacVars>>

(* A client request passed on to SAAC: the connection waits in state st.   *)
Ask(c, st, kind, rec) ==
    /\ conn[c].state = "NOTLOGIN" /\ IsCLI(c) /\ Room
    /\ conn' = [conn EXCEPT ![c].state = st]
    /\ Send(conn[c].srv, Line(kind, c, conn[c].acct, rec, NewSlot, FALSE))
    /\ UNCHANGED <<acfd, saacVars>>

CharList(c) == /\ "list" \in ClientOps
               /\ Ask(c, "WHILEDOWNLOADCHARLIST", "list", Blank)

CharLogin(c, ch) == Ask(c, "WHILELOGIN", "load", Fresh(ch))

(* The new character is saved with no slot and is not kept in memory.      *)
CreateNewChar(c, ch) == /\ "create" \in ClientOps
                        /\ Ask(c, "WHILECREATE", "save", Fresh(ch))

CharDelete(c, ch) == /\ "delete" \in ClientOps
                     /\ Ask(c, "WHILECHARDELETE", "delete", Fresh(ch))

(* The character changes while it is played.                               *)
Play(c) ==
    /\ conn[c].state = "LOGIN" /\ conn[c].rec.ver < MaxVer
    /\ conn' = [conn EXCEPT ![c].rec.ver = @ + 1]
    /\ UNCHANGED <<acfd, netVars, saacVars>>

SaveLine(c, unlock) ==
    Line("save", c, conn[c].acct, conn[c].rec, conn[c].slot, unlock)

(* chardatasavecheck: the periodic save keeps the lock.                    *)
Autosave(c) ==
    /\ conn[c].state = "LOGIN" /\ Room
    /\ Send(conn[c].srv, SaveLine(c, FALSE))
    /\ UNCHANGED <<acfd, conn, saacVars>>

(* A game master in play: waeikick LOCK, UNLOCK, UNLOCKALL and KICK, and   *)
(* unlockserver, which names any server.                                   *)
GMCommand(c, kind, a, s) ==
    /\ Room
    /\ Send(conn[c].srv, [Line(kind, c, a, Blank, NewSlot, FALSE) EXCEPT !.srv = s])
    /\ UNCHANGED <<acfd, conn, saacVars>>

(* _CONNECT_endOne: logout, client gone, state timeout or close request.   *)
(* A connection that plays saves and unlocks; any other just vanishes.     *)
EndConn(c) ==
    /\ Live(c)
    /\ conn' = [conn EXCEPT ![c] = Idle("ended", NoServer)]
    /\ IF InPlay(c) THEN Send(conn[c].srv, SaveLine(c, TRUE)) ELSE UNCHANGED netVars
    /\ UNCHANGED <<acfd, saacVars>>

(***************************************************************************)
(* GMSV: lines from SAAC.                                                  *)
(***************************************************************************)
Get(s, kind) ==
    /\ acfd[s] # NoTi /\ down[acfd[s]] # <<>>
    /\ Head(down[acfd[s]]).kind = kind

Answered(s) == Head(down[acfd[s]])
Consumed(s) == [down EXCEPT ![acfd[s]] = Tail(@)]

(* getfdFromFdid and CONNECT_checkfd: the asking connection still lives.   *)
Asker(s) == {c \in Conn : c = Answered(s).conn /\ Live(c)}

Became(C, st) == conn' = [c \in Conn |-> IF c \in C THEN [conn[c] EXCEPT !.state = st]
                                         ELSE conn[c]]

GetQuietly(s) == /\ down' = Consumed(s)
                 /\ UNCHANGED <<acfd, up, eof, saacVars>>

(* ACServerLogin refused: the process exits.                               *)
GetRefusal(s) == Get(s, "login") /\ ProcessGone(s)

(* ACCharList: back to NOTLOGIN, whatever the state.                       *)
GetList(s) == Get(s, "list") /\ Became(Asker(s), "NOTLOGIN") /\ GetQuietly(s)

GetLoadFailed(s) ==
    /\ Get(s, "load") /\ (~Answered(s).flag \/ Asker(s) = {})
    /\ Became(Asker(s), "NOTLOGIN")
    /\ GetQuietly(s)

(* CHAR_login succeeds: the character enters the game.                     *)
GetLoad(s) ==
    /\ Get(s, "load") /\ Answered(s).flag
    /\ \E c \in Asker(s) :
          conn' = [conn EXCEPT ![c].state = "LOGIN", ![c].rec = Answered(s).rec,
                               ![c].slot = Answered(s).slot]
    /\ GetQuietly(s)

(* CHAR_login cannot make the character: the lock is given back.           *)
GetLoadUnusable(s) ==
    /\ Get(s, "load") /\ Answered(s).flag
    /\ \E c \in Asker(s) :
          /\ conn' = [conn EXCEPT ![c].state = "WHILECANNOTLOGIN", ![c].rec = Blank]
          /\ up' = [up EXCEPT ![acfd[s]] =
                       Append(@, Line("unlock", c, conn[c].acct, Blank, NewSlot, FALSE))]
    /\ down' = Consumed(s)
    /\ UNCHANGED <<acfd, eof, saacVars>>

(* ACCharSave, ACCharDelete: only a connection that waits for it changes.  *)
GetSaved(s) ==
    /\ Get(s, "save")
    /\ Became({c \in Asker(s) : conn[c].state = "WHILECREATE"}, "NOTLOGIN")
    /\ GetQuietly(s)

GetDeleted(s) ==
    /\ Get(s, "delete")
    /\ Became({c \in Asker(s) : conn[c].state = "WHILECHARDELETE"}, "NOTLOGIN")
    /\ GetQuietly(s)

(* ACLock: done, or the unlock is sent again.                              *)
GetUnlocked(s) ==
    LET waiting == {c \in Asker(s) : conn[c].state = "WHILECANNOTLOGIN"}
    IN  /\ Get(s, "unlock")
        /\ \/ /\ Answered(s).flag \/ waiting = {}
              /\ Became(waiting, "NOTLOGIN")
              /\ UNCHANGED up
           \/ /\ ~Answered(s).flag
              /\ \E c \in waiting :
                    up' = [up EXCEPT ![acfd[s]] =
                       Append(@, Line("unlock", c, conn[c].acct, Blank, NewSlot, FALSE))]
              /\ UNCHANGED conn
        /\ down' = Consumed(s)
        /\ UNCHANGED <<acfd, eof, saacVars>>

GetKickIdleOnly(s) ==
    /\ Get(s, "kick")
    /\ conn' = [c \in Conn |->
          IF Live(c) /\ conn[c].srv = s /\ conn[c].acct = Answered(s).acct /\ ~InPlay(c)
          THEN [conn[c] EXCEPT !.close = TRUE] ELSE conn[c]]
    /\ GetQuietly(s)

(* ACKick: every connection of the account is asked to close, in play or   *)
(* not.                                                                    *)
GetKick(s) ==
    /\ Get(s, "kick")
    /\ conn' = [c \in Conn |->
          IF Live(c) /\ conn[c].srv = s /\ conn[c].acct = Answered(s).acct
          THEN [conn[c] EXCEPT !.close = TRUE] ELSE conn[c]]
    /\ GetQuietly(s)

(* ACUCheck: is anyone on this account here, in play or waiting?           *)
GetUCheck(s) ==
    LET a == Answered(s).acct
        playing == \E c \in Conn : /\ conn[c].state \notin Dead \union {"NOTLOGIN"}
                                   /\ conn[c].srv = s /\ conn[c].acct = a
    IN  /\ Get(s, "ucheck")
        /\ up' = [up EXCEPT ![acfd[s]] =
                     Append(@, Line("ucheck", NoConn, a, Blank, NewSlot, playing))]
        /\ down' = Consumed(s)
        /\ UNCHANGED <<acfd, conn, eof, saacVars>>

GmsvReads(s) == \/ GetRefusal(s) \/ GetList(s) \/ GetLoadFailed(s) \/ GetLoad(s)
                \/ GetLoadUnusable(s) \/ GetSaved(s) \/ GetDeleted(s)
                \/ GetUnlocked(s) \/ GetKick(s) \/ GetUCheck(s)

(***************************************************************************)
(* SAAC: lines from the game servers.                                      *)
(***************************************************************************)
(* Lines written to slots: lost when the slot is not in use or its server  *)
(* has gone.                                                               *)
Post(lines) ==
    down' = [t \in Ti |-> IF gs[t].use /\ ~eof[t] THEN down[t] \o lines[t] ELSE down[t]]

To(ti, m)    == [t \in Ti |-> IF t = ti THEN <<m>> ELSE <<>>]
KickLine(a)  == Line("kick", NoConn, a, Blank, NewSlot, FALSE)

(* ACKick_recv on behalf of slot ti: kick lines to the slots in T.         *)
Kicks(ti, T, a) ==
    [t \in Ti |-> IF gs[ti].use /\ t \in T THEN <<KickLine(a)>> ELSE <<>>]

Both(first, second) == [t \in Ti |-> first[t] \o second[t]]

ReadsOneOf(ti, kinds) == gs[ti].use /\ up[ti] # <<>> /\ Head(up[ti]).kind \in kinds
Reads(ti, kind) == ReadsOneOf(ti, {kind})
Read(ti)        == Head(up[ti])
Tidied(ti)      == [up EXCEPT ![ti] = Tail(@)]

Reply(m, flag) == Line(m.kind, m.conn, m.acct, Blank, NewSlot, flag)

Released(s) == [a \in Account |-> IF lock[a] = s THEN Free ELSE lock[a]]

(* getCharIndexByName, findBlankCharIndex: the first slot that fits.       *)
IsIndexOf(a, ch, k) == /\ file[a][k].char = ch
                       /\ \A j \in Slot : j < k => file[a][j].char # ch
HasChar(a, ch)      == \E k \in Slot : file[a][k].char = ch

RecvLoginUnchecked(ti) ==
    LET s == Read(ti).srv
    IN  /\ Reads(ti, "login") /\ \A t \in tasks : t.ti # ti
        /\ up' = Tidied(ti)
        /\ gs' = [gs EXCEPT ![ti].name = s]
        /\ lock' = Released(s)
        /\ UNCHANGED <<gmsvVars, down, eof, file, tasks>>

(* login_game_server: refused while another slot has the name; else the    *)
(* locks the name held before are dropped.  A callback for the slot's last *)
(* user has run by now: it runs within two turns of the loop, and a login  *)
(* line is read in the second at the earliest.  The answer of a granted    *)
(* login changes nothing here and is left out.                             *)
RecvLogin(ti) ==
    LET s == Read(ti).srv
    IN  /\ Reads(ti, "login") /\ \A t \in tasks : t.ti # ti
        /\ up' = Tidied(ti)
        /\ \/ /\ \E t \in Ti : gs[t].use /\ gs[t].name = s
              /\ Post(To(ti, ServerLine(s, FALSE)))
              /\ UNCHANGED <<gs, lock>>
           \/ /\ ~ \E t \in Ti : gs[t].use /\ gs[t].name = s
              /\ gs' = [gs EXCEPT ![ti].name = s]
              /\ lock' = Released(s)
              /\ UNCHANGED down
        /\ UNCHANGED <<gmsvVars, eof, file, tasks>>

(* ACCharList, ACCharLoad, ACCharDelete: handed to a worker; when none is  *)
(* free, refused.                                                          *)
Pooled == {"list", "load", "delete"}

AddTask(ti) ==
    LET m == Read(ti)
    IN  /\ ReadsOneOf(ti, Pooled)
        /\ tasks' = tasks \union {[kind |-> m.kind, ti |-> ti, conn |-> m.conn,
                                   acct |-> m.acct, char |-> m.rec.char]}
        /\ up' = Tidied(ti)
        /\ UNCHANGED <<gmsvVars, down, eof, gs, lock, file>>

(* ACCharLoad with a wrong password is refused as if it were ACCharList.   *)
RefuseTask(ti) ==
    LET m == Read(ti)
    IN  /\ ReadsOneOf(ti, Pooled)
        /\ \E as \in {m.kind} \union (IF m.kind = "load" THEN {"list"} ELSE {}) :
              Post(To(ti, Line(as, m.conn, m.acct, Blank, NewSlot, FALSE)))
        /\ up' = Tidied(ti)
        /\ UNCHANGED <<gmsvVars, eof, saacVars>>

RecvRequest(ti) == AddTask(ti) \/ RefuseTask(ti)

SaveTargetNoLookup(m) ==
    {k \in Slot : IF m.slot # NewSlot THEN k = m.slot ELSE IsIndexOf(m.acct, NoChar, k)}

SaveTargetFirst(m) ==
    {k \in Slot : IF m.slot # NewSlot THEN k = m.slot
                  ELSE IF HasChar(m.acct, m.rec.char) THEN IsIndexOf(m.acct, m.rec.char, k)
                  ELSE \A j \in Slot : k <= j}

(* charSave: the slot named, else the character's, else a blank one.       *)
SaveTarget(m) ==
    {k \in Slot : IF m.slot # NewSlot THEN k = m.slot
                  ELSE IF HasChar(m.acct, m.rec.char) THEN IsIndexOf(m.acct, m.rec.char, k)
                  ELSE IsIndexOf(m.acct, NoChar, k)}

UnlockedAnyway(m) == [lock EXCEPT ![m.acct] = Free]

Unlocked(m) == [lock EXCEPT ![m.acct] = IF m.flag THEN Free ELSE @]

(* ACCharSave: unlocks first, then writes.                                 *)
RecvSave(ti) ==
    LET m == Read(ti)
    IN  /\ Reads(ti, "save")
        /\ lock' = Unlocked(m)
        /\ \E k \in SaveTarget(m) : file' = [file EXCEPT ![m.acct][k] = m.rec]
        /\ Post(To(ti, Reply(m, TRUE)))
        /\ up' = Tidied(ti)
        /\ UNCHANGED <<gmsvVars, eof, gs, tasks>>

RecvSaveFailedEarly(ti) ==
    /\ Reads(ti, "save")
    /\ Post(To(ti, Reply(Read(ti), FALSE)))
    /\ up' = Tidied(ti)
    /\ UNCHANGED <<gmsvVars, eof, saacVars>>

(* ... and fails when the data is too long, every slot is taken or the     *)
(* disk refuses: the lock is gone all the same.                            *)
RecvSaveFailed(ti) ==
    LET m == Read(ti)
    IN  /\ Reads(ti, "save")
        /\ lock' = Unlocked(m)
        /\ Post(To(ti, Reply(m, FALSE)))
        /\ up' = Tidied(ti)
        /\ UNCHANGED <<gmsvVars, eof, gs, file, tasks>>

(* ACLock with UNLOCK: lockUser.                                           *)
RecvUnlock(ti) ==
    LET m == Read(ti)
    IN  /\ Reads(ti, "unlock")
        /\ lock' = [lock EXCEPT ![m.acct] = Free]
        /\ Post(To(ti, Reply(m, lock[m.acct] # Free)))
        /\ up' = Tidied(ti)
        /\ UNCHANGED <<gmsvVars, eof, gs, file, tasks>>

(* ACUCheck's answer: whatever the status, everyone is kicked and the lock *)
(* stays.                                                                  *)
RecvUCheck(ti) ==
    /\ Reads(ti, "ucheck")
    /\ Post(Kicks(ti, Ti, Read(ti).acct))
    /\ up' = Tidied(ti)
    /\ UNCHANGED <<gmsvVars, eof, saacVars>>

(* The GM's commands; their answers are text for the GM.                   *)
RecvGM(ti) ==
    LET m == Read(ti)
    IN  /\ \/ /\ Reads(ti, "gmlock")
              /\ lock' = [lock EXCEPT ![m.acct] = IF @ = Free THEN gs[ti].name ELSE @]
              /\ UNCHANGED down
           \/ /\ Reads(ti, "gmunlock")
              /\ lock' = [lock EXCEPT ![m.acct] = Free]
              /\ UNCHANGED down
           \/ /\ Reads(ti, "gmunlockall")
              /\ lock' = Released(m.srv)
              /\ UNCHANGED down
           \/ /\ Reads(ti, "gmkick")
              /\ Post(Kicks(ti, Ti, m.acct))
              /\ UNCHANGED lock
        /\ up' = Tidied(ti)
        /\ UNCHANGED <<gmsvVars, eof, gs, file, tasks>>

(* The server's connection is closed: Worker_auto_logout, then             *)
(* logout_game_server.                                                     *)
RecvEof(ti) ==
    /\ gs[ti].use /\ eof[ti] /\ up[ti] = <<>>
    /\ lock' = Released(gs[ti].name)
    /\ gs' = [gs EXCEPT ![ti] = [use |-> FALSE, name |-> NoServer]]
    /\ eof' = [eof EXCEPT ![ti] = FALSE]
    /\ down' = [down EXCEPT ![ti] = <<>>]
    /\ UNCHANGED <<gmsvVars, up, file, tasks>>

(***************************************************************************)
(* SAAC: callbacks.  The slot of the request may have lost its server, or  *)
(* have got another, since.                                                *)
(***************************************************************************)
AnswerTask(t, rec, k, flag) == To(t.ti, Line(t.kind, t.conn, t.acct, rec, k, flag))

Finish(t) == t \in tasks /\ tasks' = tasks \ {t}

(* A refusal by the worker or the password database, an unknown character, *)
(* a disk error, no memory for the lock.                                   *)
CallbackRefused(t) ==
    /\ Finish(t)
    /\ Post(AnswerTask(t, Blank, NewSlot, FALSE))
    /\ UNCHANGED <<gmsvVars, up, eof, gs, lock, file>>

ListCallbackSilent(t) ==
    /\ t.kind = "list" /\ Finish(t)
    /\ IF lock[t.acct] = Free THEN Post(AnswerTask(t, Blank, NewSlot, TRUE))
       ELSE Post(Kicks(t.ti, Ti \ {t.ti}, t.acct))
    /\ UNCHANGED <<gmsvVars, up, eof, gs, lock, file>>

(* charListCallback: the list, or "locked" and a query to the lock's       *)
(* server.                                                                 *)
ListCallback(t) ==
    LET ask == Line("ucheck", NoConn, t.acct, Blank, NewSlot, FALSE)
    IN  /\ t.kind = "list" /\ Finish(t)
        /\ IF lock[t.acct] = Free THEN Post(AnswerTask(t, Blank, NewSlot, TRUE))
           ELSE Post(Both(AnswerTask(t, Blank, NewSlot, FALSE),
                          [u \in Ti |-> IF gs[u].name = lock[t.acct] /\ gs[u].name # NoServer
                                        THEN <<ask>> ELSE <<>>]))
        /\ UNCHANGED <<gmsvVars, up, eof, gs, lock, file>>

(* charLoadCallback, account locked: refused, and everyone on it kicked.   *)
LoadCallbackLocked(t) ==
    /\ t.kind = "load" /\ lock[t.acct] # Free /\ Finish(t)
    /\ Post(Both(AnswerTask(t, Blank, NewSlot, FALSE), Kicks(t.ti, Ti, t.acct)))
    /\ UNCHANGED <<gmsvVars, up, eof, gs, lock, file>>

LoadCallbackUnchecked(t) ==
    /\ t.kind = "load" /\ Finish(t)
    /\ \E k \in Slot :
          /\ IsIndexOf(t.acct, t.char, k)
          /\ Post(Both(AnswerTask(t, file[t.acct][k], k, TRUE),
                       Kicks(t.ti, Ti \ {t.ti}, t.acct)))
    /\ lock' = [lock EXCEPT ![t.acct] = gs[t.ti].name]
    /\ UNCHANGED <<gmsvVars, up, eof, gs, file>>

(* charLoadCallback, account free: locked with the name the slot has NOW,  *)
(* and everyone on the other servers kicked.                               *)
LoadCallback(t) ==
    /\ t.kind = "load" /\ lock[t.acct] = Free /\ Finish(t)
    /\ \E k \in Slot :
          /\ IsIndexOf(t.acct, t.char, k)
          /\ Post(Both(AnswerTask(t, file[t.acct][k], k, TRUE),
                       Kicks(t.ti, Ti \ {t.ti}, t.acct)))
    /\ lock' = [lock EXCEPT ![t.acct] = gs[t.ti].name]
    /\ UNCHANGED <<gmsvVars, up, eof, gs, file>>

(* charDeleteCallback: never looks at the lock.                            *)
DeleteCallback(t) ==
    /\ t.kind = "delete" /\ Finish(t)
    /\ \E k \in Slot : /\ IsIndexOf(t.acct, t.char, k)
                       /\ file' = [file EXCEPT ![t.acct][k] = Blank]
    /\ Post(AnswerTask(t, Blank, NewSlot, TRUE))
    /\ UNCHANGED <<gmsvVars, up, eof, gs, lock>>

SaacReads(ti) == \/ RecvLogin(ti) \/ RecvRequest(ti) \/ RecvSave(ti)
                 \/ RecvSaveFailed(ti) \/ RecvUnlock(ti) \/ RecvUCheck(ti)
                 \/ RecvGM(ti) \/ RecvEof(ti)

Callback(t) == \/ CallbackRefused(t) \/ ListCallback(t) \/ LoadCallbackLocked(t)
               \/ LoadCallback(t) \/ DeleteCallback(t)

(***************************************************************************)
(* The system.                                                             *)
(***************************************************************************)
(* charSave finds a character by its name: an account never has two files  *)
(* for one character, of which a later load would see the first only.      *)
UniqueChar ==
    \A a \in Account : \A j, k \in Slot :
        file[a][j].char = file[a][k].char /\ file[a][j].char # NoChar => j = k

Init ==
    /\ acfd = [s \in Server |-> NoTi]
    /\ conn = [c \in Conn |-> Idle("unused", NoServer)]
    /\ up = [ti \in Ti |-> <<>>] /\ down = [ti \in Ti |-> <<>>]
    /\ eof = [ti \in Ti |-> FALSE]
    /\ gs = [ti \in Ti |-> [use |-> FALSE, name |-> NoServer]]
    /\ lock = [a \in Account |-> Free]
    /\ file \in [Account -> [Slot -> {Blank} \union {Fresh(ch) : ch \in Char}]] /\ UniqueChar
    /\ tasks = {}

Client(c) == \/ \E s \in Server : Accept(c, s)
             \/ \E a \in Account : ClientLogin(c, a)
             \/ CharList(c)
             \/ \E ch \in Char : CharLogin(c, ch) \/ CreateNewChar(c, ch) \/ CharDelete(c, ch)
             \/ Play(c) \/ Autosave(c) \/ EndConn(c)
             \/ /\ conn[c].state = "LOGIN" /\ "gm" \in ClientOps
                /\ \E kind \in GMKind, a \in Account, s \in Server : GMCommand(c, kind, a, s)

Next == \/ \E s \in Server : (\E ti \in Ti : StartServer(s, ti)) \/ Crash(s) \/ GmsvReads(s)
        \/ \E c \in Conn : Client(c)
        \/ \E ti \in Ti : SaacReads(ti)
        \/ \E t \in tasks : Callback(t)

Spec == Init /\ [][Next]_vars

(* Both loops keep turning: a server reads what SAAC wrote and closes the  *)
(* connections it was asked to close, SAAC reads every slot in turn and    *)
(* calls back every task.  Clients and crashes promise nothing.            *)
Fairness ==
    /\ \A s \in Server : WF_vars(GmsvReads(s))
    /\ \A ti \in Ti : WF_vars(SaacReads(ti))
    /\ \A t \in Task : WF_vars(Callback(t))
    /\ \A c \in Conn : WF_vars(conn[c].close /\ EndConn(c))

FairSpec == Spec /\ Fairness

(***************************************************************************)
(* Properties.                                                             *)
(***************************************************************************)
TypeOK ==
    /\ acfd \in [Server -> Ti \union {NoTi}]
    /\ conn \in [Conn -> ConnRecord]
    /\ up \in [Ti -> Seq(Msg)] /\ down \in [Ti -> Seq(Msg)]
    /\ eof \in [Ti -> BOOLEAN]
    /\ gs \in [Ti -> [use : BOOLEAN, name : Server \union {NoServer}]]
    /\ lock \in [Account -> Server \union {NoServer, Free}]
    /\ file \in [Account -> [Slot -> Record]]
    /\ tasks \subseteq Task

(* Lines on their way: <<slot, position>>.                                 *)
Places(q) == UNION {{<<ti, i>> : i \in DOMAIN q[ti]} : ti \in Ti}

(* A grant whose connection has ended is dropped by its server.            *)
Grants(a) == {p \in Places(down) :
                 LET m == down[p[1]][p[2]]
                 IN  /\ m.kind = "load" /\ m.flag /\ m.acct = a
                     /\ m.conn \in Conn /\ Live(m.conn)}

ClosingSaves(a) == {p \in Places(up) : LET m == up[p[1]][p[2]]
                                       IN  m.kind = "save" /\ m.flag /\ m.acct = a}

Players(a) == {c \in Conn : InPlay(c) /\ conn[c].acct = a}

(* A character in play is locked for the server it plays on.               *)
PlayingHoldsLock ==
    \A c \in Conn : InPlay(c) => lock[conn[c].acct] = conn[c].srv

(* An account has one session at most, counting the one that was granted   *)
(* and has not begun, and the one that ended and is not yet saved: two     *)
(* copies of a character never exist, wherever the servers are in their    *)
(* exchange.                                                               *)
OneSession ==
    \A a \in Account :
       LET players == Players(a)
           grants  == Grants(a)
           saves   == ClosingSaves(a)
       IN  /\ \A x, y \in players : x = y
           /\ \A x, y \in grants : x = y
           /\ \A x, y \in saves : x = y
           /\ players # {} => grants \union saves = {}
           /\ grants # {} => saves = {}

(* charSave does not ask who holds the account: whoever saves a loaded     *)
(* character does hold it, so an old server never writes over what a newer *)
(* session left.                                                           *)
SaveByHolder ==
    \A ti \in Ti : Reads(ti, "save") /\ Read(ti).slot # NewSlot
                   => lock[Read(ti).acct] = gs[ti].name

(* A character's file never goes back to an older state.                   *)
NoRollback ==
    [][\A a \in Account, k \in Slot :
          file'[a][k].char = file[a][k].char => file'[a][k].ver >= file[a][k].ver]_vars

(* ACCharList_recv and ACCharLoad_recv act on the connection whatever its  *)
(* state: an answer reaches a live connection only while it waits for that *)
(* answer, for the account it asked about.                                 *)
Expects(kind) == CASE kind = "list"   -> {"WHILEDOWNLOADCHARLIST", "WHILELOGIN"}
                   [] kind = "load"   -> {"WHILELOGIN"}
                   [] kind = "delete" -> {"WHILECHARDELETE"}
                   [] kind = "unlock" -> {"WHILECANNOTLOGIN"}

AnswerFitsState ==
    \A s \in Server : acfd[s] # NoTi =>
       \A i \in DOMAIN down[acfd[s]] :
          LET m == down[acfd[s]][i]
          IN  m.kind \in {"list", "load", "delete", "unlock"} =>
                 \A c \in Conn : c = m.conn /\ Live(c) =>
                    /\ conn[c].state \in Expects(m.kind)
                    /\ conn[c].acct = m.acct /\ conn[c].srv = s

(* A character in play is the one in the file its slot names: nobody       *)
(* deletes it or puts another in its place meanwhile, and the next save    *)
(* cannot destroy a different character.                                   *)
PlayedCharExists ==
    \A c \in Conn : InPlay(c) =>
        file[conn[c].acct][conn[c].slot].char = conn[c].rec.char

(* ACCharLoad_recv and its kin refuse a server that is "not login": a lock *)
(* is held in the name of a game server that has logged in.                *)
LocksNameServer == \A a \in Account : lock[a] # NoServer

(* Every request is answered, or its connection ends.                      *)
RequestAnswered == \A c \in Conn : conn[c].state \in Waiting ~> conn[c].state \notin Waiting

(* A logout, and the loss of a server that had logged in, free the         *)
(* accounts concerned.                                                     *)
SessionOver(a) ==
    \/ ClosingSaves(a) # {}
    \/ lock[a] \in Server /\ \E ti \in Ti : eof[ti] /\ gs[ti].name = lock[a]

SessionEndUnlocks == \A a \in Account : SessionOver(a) ~> lock[a] = Free

(* A kick (ACKick_recv, GMSV) that reaches the server an account is in     *)
(* play on ends that play and, through the closing save, frees the account *)
(* for whoever was refused: the answer to "locked" is not a dead end.      *)
KickOnTheWay(s, a) ==
    acfd[s] # NoTi /\ \E i \in DOMAIN down[acfd[s]] :
        down[acfd[s]][i].kind = "kick" /\ down[acfd[s]][i].acct = a

KickFreesAccount ==
    \A a \in Account, s \in Server :
        (KickOnTheWay(s, a) /\ \E c \in Players(a) : conn[c].srv = s)
        ~> lock[a] = Free

(* An account locked for a server that is there is somebody's: in play,    *)
(* granted, being saved, being given back; if nobody has it, it is freed   *)
(* in the end.                                                             *)
Unlocking(a) ==
    \/ \E p \in Places(up) : LET m == up[p[1]][p[2]] IN m.kind = "unlock" /\ m.acct = a
    \/ \E c \in Conn : conn[c].state = "WHILECANNOTLOGIN" /\ conn[c].acct = a

Orphan(a) == /\ lock[a] \in Server
             /\ \E ti \in Ti : gs[ti].name = lock[a] /\ ~eof[ti]
             /\ Players(a) \union Grants(a) \union ClosingSaves(a) = {}
             /\ ~Unlocking(a)

NoStuckAccount == \A a \in Account : Orphan(a) ~> ~Orphan(a)
=============================================================================
