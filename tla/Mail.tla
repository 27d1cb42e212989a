-------------------------------- MODULE Mail --------------------------------
(***************************************************************************)
(* Mail between players of different game servers: saac/mail.c, its three  *)
(* requests in saac/recv.c, and the game servers' half in                  *)
(* gmsv/char/addressbook.c and callfromac.c.  A mail is written to a file  *)
(* and kept in memory, sent to every game server, sent again to the server *)
(* its recipient logs in to, and given up when that server acknowledges it.*)
(* The account server may stop at any time and read its files again.       *)
(*                                                                         *)
(* A letter is a number; the text and the option are left out.  Where a    *)
(* player is, at most one server, is Session's business.                   *)
(***************************************************************************)
EXTENDS Integers, Sequences, FiniteSets, SequencesExt

CONSTANTS Player, GameServer,
          MaxLetter,  \* letters written: 1 .. MaxLetter, in this order
          From, To,   \* [1 .. MaxLetter -> Player]
          Dir,        \* [Player -> directory]: the hash of id and name
          MaxFlush,   \* slots flushMail and expireMail look at: 1024
          Starts,     \* who is in where to begin with, and whose letters are strange
          MaxLogins, MaxStops  \* bounds: logins of players; stops and failures

Letter == 1 .. MaxLetter

(* Letters have senders and recipients; at most one server has a player.   *)
ASSUME MailAssumption ==
    /\ MaxLetter \in Nat /\ From \in [Letter -> Player] /\ To \in [Letter -> Player]
    /\ MaxFlush \in Nat /\ MaxLogins \in Nat /\ MaxStops \in Nat
    /\ \A start \in Starts :
          /\ start.here \in [GameServer -> SUBSET Player]
          /\ start.strange \subseteq Letter
          /\ \A s, t \in GameServer :
                s # t => start.here[s] \cap start.here[t] = {}

(* A letter, or the note that a stranger's letter was not taken.           *)
Mails == Letter \X {"letter", "note"}
Recipient(m) == IF m[2] = "letter" THEN To[m[1]] ELSE From[m[1]]

VARIABLES mailbuf,   \* slots: [mail, id, sent], or FreeSlot
          mailfile,  \* the files: [mail, id, whole]
          mailid,    \* what the file mail_id says
          running,   \* the account server runs
          known,     \* game servers that gs[] has by name
          here,      \* [server -> players in its character table]
          strange,   \* letters whose sender is not in the recipient's address book
          serving,   \* game servers that run
          toGs,      \* lines from the account server, by game server
          fromGs,    \* lines to the account server, by game server
          written,   \* letters written so far
          seen,      \* [mail -> how often its recipient's server took it]
          settled,   \* mails that came while their recipient was in, and stays
          dropped,   \* mails expired, or whose file failed
          logins, stops

mailVars == <<mailbuf, mailfile, mailid, running, known, here, strange, serving,
              toGs, fromGs, written, seen, settled, dropped, logins, stops>>
store   == <<mailbuf, mailfile, mailid>>
streams == <<toGs, fromGs>>
history == <<written, seen, settled, dropped>>

FreeSlot == [mail |-> <<0, "letter">>, id |-> 0, sent |-> FALSE]

Slots == DOMAIN mailbuf   \* mailbuf[i - 1] in C
Used(i) == mailbuf[i] # FreeSlot
Everywhere(s) == [x \in GameServer |-> s]

Entry == [mail : Mails, id : Nat, sent : BOOLEAN]
ToGame == [mail : Mails, id : Nat]
ToSaac == [op : {"login"}] \union [op : {"message"}, mail : Mails]
          \union [op : {"ack"}, player : Player, id : Nat]
          \union [op : {"flush"}, player : Player]

MailTypes ==
    /\ mailbuf \in Seq(Entry \union {FreeSlot})
    /\ mailfile \subseteq [mail : Mails, id : Nat, whole : BOOLEAN]
    /\ mailid \in Nat
    /\ running \in BOOLEAN
    /\ known \subseteq GameServer /\ serving \subseteq GameServer
    /\ here \in [GameServer -> SUBSET Player]
    /\ strange \subseteq Letter
    /\ toGs \in [GameServer -> Seq(ToGame)]
    /\ fromGs \in [GameServer -> Seq(ToSaac)]
    /\ written \in 0 .. MaxLetter
    /\ seen \in [Mails -> Nat]
    /\ settled \subseteq Mails /\ dropped \subseteq Mails
    /\ logins \in 0 .. MaxLogins /\ stops \in 0 .. MaxStops

(* All have started, the servers have been let in, and some players.       *)
MailInit ==
    /\ mailbuf = <<>> /\ mailfile = {} /\ mailid = 1
    /\ running = TRUE
    /\ known = GameServer /\ serving = GameServer
    /\ \E start \in Starts : here = start.here /\ strange = start.strange
    /\ toGs = Everywhere(<<>>) /\ fromGs = Everywhere(<<>>)
    /\ written = 0
    /\ seen = [m \in Mails |-> 0]
    /\ settled = {} /\ dropped = {}
    /\ logins = 0 /\ stops = 0

(***************************************************************************)
(* The account server                                                      *)
(***************************************************************************)
(* mailbuf is doubled when it is full.                                     *)
Doubled == mailbuf \o [k \in 1 .. (IF mailbuf = <<>> THEN 1 ELSE Len(mailbuf)) |-> FreeSlot]
Room == IF \E i \in Slots : ~Used(i) THEN mailbuf ELSE Doubled

(* The file of a mail is named by its number, in the recipient's directory.*)
SameFile(f, m, id) == f.id = id /\ Dir[Recipient(f.mail)] = Dir[Recipient(m)]
Unlinked(m, id) == {f \in mailfile : ~SameFile(f, m, id)}
Saved(m, id) == Unlinked(m, id) \union {[mail |-> m, id |-> id, whole |-> TRUE]}

(* getNextMessageID: the file mail_id can be written, and counts.          *)
NewId == mailid
CountId == mailid' = mailid + 1

(* allocMail takes a free slot; the search goes round from where it last   *)
(* stopped, so that any may be the first it comes to.                      *)
InSlotSwapped(m, sent) ==
    \E k \in DOMAIN Room :
        /\ Room[k] = FreeSlot
        /\ mailbuf' = [Room EXCEPT ![k] = [mail |-> <<NewId, m[2]>>, id |-> m[1],
                                         sent |-> sent]]

InSlot(m, sent) ==
    \E k \in DOMAIN Room :
        /\ Room[k] = FreeSlot
        /\ mailbuf' = [Room EXCEPT ![k] = [mail |-> m, id |-> NewId, sent |-> sent]]

Line(s) == /\ running
           /\ fromGs[s] # <<>>
           /\ fromGs' = [fromGs EXCEPT ![s] = Tail(@)]

(* A player is settled in when it is in the table of a server that gs[]    *)
(* knows and its flush has been answered.                                  *)
SettledIn(p) == \E s \in known : /\ p \in here[s]
                                 /\ [op |-> "flush", player |-> p] \notin Range(fromGs[s])

(* receiveMail: to the file, then to every server.  A changed form of a    *)
(* definition, here and below, is named for what it leaves out or mixes    *)
(* up; no action of MailNext uses it.                                      *)
receiveMailUnsaved(s) ==
    LET m == Head(fromGs[s]).mail
    IN  /\ Line(s)
        /\ Head(fromGs[s]).op = "message"
        /\ InSlot(m, known # {}) /\ CountId
        /\ toGs' = [x \in GameServer |->
                IF x \in known THEN Append(toGs[x], [mail |-> m, id |-> NewId]) ELSE toGs[x]]
        /\ settled' = settled \union (IF SettledIn(Recipient(m)) THEN {m} ELSE {})
        /\ UNCHANGED <<mailfile, running, known, here, serving, written, seen,
                       dropped, logins, stops>>

receiveMail(s) ==
    LET m == Head(fromGs[s]).mail
    IN  /\ Line(s)
        /\ Head(fromGs[s]).op = "message"
        /\ InSlot(m, known # {}) /\ CountId
        /\ mailfile' = Saved(m, NewId)
        /\ toGs' = [x \in GameServer |->
                IF x \in known THEN Append(toGs[x], [mail |-> m, id |-> NewId]) ELSE toGs[x]]
        /\ settled' = settled \union (IF SettledIn(Recipient(m)) THEN {m} ELSE {})
        /\ UNCHANGED <<running, known, here, serving, written, seen, dropped,
                       logins, stops>>

(* The file cannot be opened: the mail is in memory and nowhere else.      *)
receiveMailNoFile(s) ==
    LET m == Head(fromGs[s]).mail
    IN  /\ Line(s)
        /\ Head(fromGs[s]).op = "message"
        /\ stops < MaxStops /\ stops' = stops + 1
        /\ InSlot(m, FALSE) /\ CountId
        /\ dropped' = dropped \union {m}
        /\ UNCHANGED <<mailfile, toGs, running, known, here, serving, written,
                       seen, settled, logins>>

(* The first slot with that number, recipient and a mail that was sent.    *)
Acknowledged(p, id, i) == /\ Used(i)
                          /\ mailbuf[i].id = id /\ Recipient(mailbuf[i].mail) = p /\ mailbuf[i].sent

receiveMailAck(s) ==
    LET a == Head(fromGs[s])
    IN  /\ Line(s)
        /\ a.op = "ack"
        /\ LET hits == {i \in Slots : Acknowledged(a.player, a.id, i)}
           IN  IF hits = {} THEN UNCHANGED <<mailbuf, mailfile>>
               ELSE \E i \in hits :
                        /\ \A j \in hits : i <= j
                        /\ mailbuf' = [mailbuf EXCEPT ![i] = FreeSlot]
                        /\ mailfile' = Unlinked(mailbuf[i].mail, a.id)
        /\ UNCHANGED <<mailid, running, known, here, serving, toGs, history,
                       logins, stops>>

(* The recipient's mails, by number, go to the server that asks.           *)
FlushedOfAnyone(p) == {i \in Slots : i <= MaxFlush /\ Used(i)}

FlushedOf(p) == {i \in Slots : i <= MaxFlush /\ Used(i) /\ Recipient(mailbuf[i].mail) = p}

Before(i, j) == \/ mailbuf[i].id < mailbuf[j].id
                \/ mailbuf[i].id = mailbuf[j].id /\ i < j
InOrder(I) == {order \in [1 .. Cardinality(I) -> I] :
                  \A j, k \in 1 .. Cardinality(I) : j < k => Before(order[j], order[k])}
LinesOf(order) == [k \in DOMAIN order |-> [mail |-> mailbuf[order[k]].mail,
                                         id |-> mailbuf[order[k]].id]]

flushMailNewOnly(s) ==
    LET p == Head(fromGs[s]).player
        I == {i \in FlushedOf(p) : ~mailbuf[i].sent}
    IN  /\ Line(s)
        /\ Head(fromGs[s]).op = "flush"
        /\ \E order \in InOrder(I) : toGs' = [toGs EXCEPT ![s] = @ \o LinesOf(order)]
        /\ mailbuf' = [k \in Slots |->
                IF k \in I THEN [mailbuf[k] EXCEPT !.sent = TRUE] ELSE mailbuf[k]]
        /\ UNCHANGED <<mailfile, mailid, running, known, here, serving, history,
                       logins, stops>>

flushMail(s) ==
    LET p == Head(fromGs[s]).player
        I == FlushedOf(p)
    IN  /\ Line(s)
        /\ Head(fromGs[s]).op = "flush"
        /\ \E order \in InOrder(I) : toGs' = [toGs EXCEPT ![s] = @ \o LinesOf(order)]
        /\ mailbuf' = [k \in Slots |->
                IF k \in I THEN [mailbuf[k] EXCEPT !.sent = TRUE] ELSE mailbuf[k]]
        /\ UNCHANGED <<mailfile, mailid, running, known, here, serving, history,
                       logins, stops>>

(* A server logs in, or the end of its stream is found.                    *)
serverLogin(s) ==
    /\ Line(s)
    /\ Head(fromGs[s]).op = "login"
    /\ known' = known \union {s}
    /\ UNCHANGED <<store, running, here, serving, toGs, history, logins, stops>>

serverGone(s) ==
    /\ running
    /\ s \in known \ serving /\ fromGs[s] = <<>>
    /\ known' = known \ {s}
    /\ UNCHANGED <<store, running, here, serving, streams, history, logins, stops>>

(* expireMail, at a time when the mails of some slots are old enough.      *)
expireMail ==
    /\ running
    /\ \E E \in SUBSET {i \in Slots : i <= MaxFlush /\ Used(i)} :
          /\ E # {}
          /\ mailbuf' = [k \in Slots |->
                            IF k \in E THEN FreeSlot ELSE mailbuf[k]]
          /\ mailfile' = {f \in mailfile :
                             \A i \in E : ~SameFile(f, mailbuf[i].mail, mailbuf[i].id)}
          /\ dropped' = dropped \union {mailbuf[i].mail : i \in E}
    /\ stops < MaxStops /\ stops' = stops + 1
    /\ UNCHANGED <<mailid, running, known, here, serving, streams, written, seen,
                   settled, logins>>

(* The account server stops, and with it every game server.                *)
AllStop ==
    /\ stops < MaxStops /\ stops' = stops + 1
    /\ running' = FALSE
    /\ mailbuf' = <<>>
    /\ known' = {} /\ serving' = {}
    /\ here' = Everywhere({})
    /\ toGs' = Everywhere(<<>>) /\ fromGs' = Everywhere(<<>>)
    /\ settled' = {}
    /\ UNCHANGED <<written, seen, logins>>

SaacStops == running /\ AllStop /\ UNCHANGED <<mailfile, mailid, dropped>>

(* In the middle of receiveMail: the file it writes is cut.                *)
SaacStopsWriting(s) ==
    LET m == Head(fromGs[s]).mail
    IN  /\ running
        /\ fromGs[s] # <<>> /\ Head(fromGs[s]).op = "message"
        /\ AllStop
        /\ mailfile' = Unlinked(m, NewId)
                           \union {[mail |-> m, id |-> NewId, whole |-> FALSE]}
        /\ dropped' = dropped \union {m}
        /\ CountId

(* Or while it reads its files, each of which receiveMail writes again.    *)
SaacStopsReading ==
    /\ ~running
    /\ \E f \in mailfile :
          /\ f.whole
          /\ mailfile' = (mailfile \ {f}) \union {[f EXCEPT !.whole = FALSE]}
          /\ dropped' = dropped \union {f.mail}
    /\ UNCHANGED <<mailbuf, mailid, running, known, here, serving, streams, written,
                   seen, settled, logins, stops>>

(* mailbufsize when n mails have been put in, one by one: it starts at 0,  *)
(* is 1, and is doubled when it is full.                                   *)
SizeFor(n) == IF n = 0 THEN {0}
              ELSE {size \in n .. 2 * n - 1 : \E k \in 0 .. n : size = 2^k}

(* readMail: every file that is whole, in any order.                       *)
SaacStarts ==
    LET F == {f \in mailfile : f.whole}
    IN  /\ ~running
        /\ running' = TRUE
        /\ \E size \in SizeFor(Cardinality(F)) : \E place \in Injection(F, 1 .. size) :
              mailbuf' = [k \in 1 .. size |->
                  IF \E f \in F : place[f] = k
                  THEN LET f == CHOOSE g \in F : place[g] = k
                       IN  [mail |-> f.mail, id |-> f.id, sent |-> FALSE]
                  ELSE FreeSlot]
        /\ UNCHANGED <<mailfile, mailid, known, here, serving, streams, history,
                       logins, stops>>

(***************************************************************************)
(* The game servers                                                        *)
(***************************************************************************)
In(p) == \E s \in GameServer : p \in here[s]
MailsTo(p) == {m \in Mails : Recipient(m) = p}
LinesTo(s, lines) == fromGs' = [fromGs EXCEPT ![s] = @ \o lines]

(* A server that was let in; the last one of its name has left gs[].       *)
ServerStarts(s) ==
    /\ running
    /\ s \notin serving \union known /\ fromGs[s] = <<>>
    /\ serving' = serving \union {s}
    /\ LinesTo(s, <<[op |-> "login"]>>)
    /\ UNCHANGED <<store, running, known, here, toGs, history, logins, stops>>

(* It stops: what it has not read is lost, and the end of what it wrote.   *)
ServerStops(s) ==
    /\ s \in serving
    /\ stops < MaxStops /\ stops' = stops + 1
    /\ serving' = serving \ {s}
    /\ toGs' = [toGs EXCEPT ![s] = <<>>]
    /\ \E n \in 0 .. Len(fromGs[s]) : fromGs' = [fromGs EXCEPT ![s] = SubSeq(@, 1, n)]
    /\ here' = [here EXCEPT ![s] = {}]
    /\ settled' = settled \ UNION {MailsTo(p) : p \in here[s]}
    /\ UNCHANGED <<store, running, known, written, seen, dropped, logins>>

(* ADDRESSBOOK_notifyLoginLogout at login.                                 *)
PlayerIn(p, s) ==
    /\ s \in serving /\ ~In(p)
    /\ logins < MaxLogins /\ logins' = logins + 1
    /\ here' = [here EXCEPT ![s] = @ \union {p}]
    /\ LinesTo(s, <<[op |-> "flush", player |-> p]>>)
    /\ UNCHANGED <<store, running, known, serving, toGs, history, stops>>

PlayerOut(p, s) ==
    /\ p \in here[s]
    /\ here' = [here EXCEPT ![s] = @ \ {p}]
    /\ settled' = settled \ MailsTo(p)
    /\ UNCHANGED <<store, running, known, serving, streams, written, seen, dropped,
                   logins, stops>>

(* ADDRESSBOOK_sendMessage: to a player of the same server at once (or not *)
(* at all, if a stranger), to others by the account server.                *)
SendLetter(s) ==
    LET n == written + 1
        m == <<n, "letter">>
    IN  /\ n \in Letter
        /\ From[n] \in here[s]
        /\ written' = n
        /\ IF To[n] \in here[s]
           THEN /\ seen' = [seen EXCEPT ![m] = @ + 1]
                /\ UNCHANGED fromGs
           ELSE /\ LinesTo(s, <<[op |-> "message", mail |-> m]>>)
                /\ UNCHANGED seen
        /\ UNCHANGED <<store, running, known, here, serving, toGs, settled, dropped,
                       logins, stops>>

(* ADDRESSBOOK_sendMessage_FromOther: a mail for a player in the table is  *)
(* taken and acknowledged, a stranger's letter too, which is answered by a *)
(* note.  A character in the table always has its connection here, since   *)
(* both come and go in one handler.                                        *)
takeMessageAckAll(s) ==
    LET m  == Head(toGs[s]).mail
        id == Head(toGs[s]).id
        p  == Recipient(m)
        ack == [op |-> "ack", player |-> p, id |-> id]
    IN  /\ s \in serving /\ toGs[s] # <<>>
        /\ toGs' = [toGs EXCEPT ![s] = Tail(@)]
        /\ LinesTo(s, <<ack>>)
        /\ seen' = IF p \in here[s] THEN [seen EXCEPT ![m] = @ + 1] ELSE seen
        /\ UNCHANGED <<store, running, known, here, serving, written, settled,
                       dropped, logins, stops>>

takeMessage(s) ==
    LET m  == Head(toGs[s]).mail
        id == Head(toGs[s]).id
        p  == Recipient(m)
        ack == [op |-> "ack", player |-> p, id |-> id]
        note == [op |-> "message", mail |-> <<m[1], "note">>]
    IN  /\ s \in serving /\ toGs[s] # <<>>
        /\ toGs' = [toGs EXCEPT ![s] = Tail(@)]
        /\ IF p \in here[s]
           THEN /\ seen' = [seen EXCEPT ![m] = @ + 1]
                /\ LinesTo(s, IF m[2] = "letter" /\ m[1] \in strange THEN <<note, ack>>
                              ELSE <<ack>>)
           ELSE UNCHANGED <<seen, fromGs>>
        /\ UNCHANGED <<store, running, known, here, serving, written, settled,
                       dropped, logins, stops>>

MailStep ==
    \/ expireMail \/ SaacStops \/ SaacStopsReading \/ SaacStarts
    \/ \E s \in GameServer :
          \/ receiveMail(s) \/ receiveMailNoFile(s) \/ receiveMailAck(s) \/ flushMail(s)
          \/ serverLogin(s) \/ serverGone(s) \/ SaacStopsWriting(s)
          \/ ServerStarts(s) \/ ServerStops(s) \/ SendLetter(s) \/ takeMessage(s)
          \/ \E p \in Player : PlayerIn(p, s) \/ PlayerOut(p, s)

MailNext == MailStep /\ UNCHANGED strange   \* address books stay as they are

(* Both ends read: every stream is found empty again and again.  Of what   *)
(* is finite, this is WF of the reading actions, said without ENABLED;     *)
(* nothing is assumed of starts and stops.                                 *)
Drained == \A s \in GameServer : []<>(fromGs[s] = <<>>) /\ []<>(toGs[s] = <<>>)

MailSpec == MailInit /\ [][MailNext]_mailVars /\ Drained

(***************************************************************************)
(* Properties                                                              *)
(***************************************************************************)
InMemory(m) == \E i \in Slots : mailbuf[i].mail = m
OnFile(m) == \E f \in mailfile : f.whole /\ f.mail = m
Kept(m) == InMemory(m) \/ OnFile(m)

(* While the account server runs, the mails in memory are the mails on     *)
(* file, each under a number of its own, but for those whose file could    *)
(* not be written.                                                         *)
FilesMatchMemory ==
    running =>
        /\ \A i, j \in Slots : Used(i) /\ Used(j) /\ mailbuf[i].id = mailbuf[j].id => i = j
        /\ \A i \in Slots : Used(i) /\ mailbuf[i].mail \notin dropped =>
              [mail |-> mailbuf[i].mail, id |-> mailbuf[i].id, whole |-> TRUE] \in mailfile
        /\ \A f \in mailfile : f.whole =>
              \E i \in Slots : mailbuf[i].mail = f.mail /\ mailbuf[i].id = f.id

(* A mail the account server has accepted is given up only when its        *)
(* recipient's server has taken it, whatever stops and starts: otherwise   *)
(* it has expired, or its file could not be written.                       *)
KeptUntilSeen ==
    [][\A m \in Mails : Kept(m) /\ ~Kept(m)' =>
          seen[m] > 0 \/ m \in dropped']_mailVars

(* A letter that comes in while its recipient is settled in on a server is *)
(* shown there once, as long as the recipient stays.                       *)
SettledSeenOnce ==
    \A m \in settled : m[2] = "letter" => seen[m] <= 1

(* A letter that is kept where a flush looks is shown to its recipient if  *)
(* the recipient is in and stays.                                          *)
InReach(m) == \E i \in Slots : i <= MaxFlush /\ mailbuf[i].mail = m

KeptIsSeen ==
    \A m \in Mails :
        (InReach(m) /\ In(Recipient(m)) /\ m \notin dropped)
            ~> (seen[m] > 0 \/ ~In(Recipient(m)) \/ m \in dropped)
=============================================================================
