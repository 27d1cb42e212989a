------------------------------ MODULE MailProofs ------------------------------
(***************************************************************************)
(* What is proved of Mail, for all players, servers, letters and bounds:   *)
(* that the mails in memory are those on file, that a mail which was       *)
(* accepted is not given up before it is seen, and that a letter which     *)
(* comes to a recipient who is in and stays is shown once.                 *)
(*                                                                         *)
(* The argument is about numbers.  A number names at most one mail,        *)
(* wherever the pair of the two is still found - in a file, in a slot or   *)
(* in a line to a game server - so that an acknowledgement, which carries  *)
(* the number only, speaks of the mail that was seen.                      *)
(***************************************************************************)
EXTENDS Mail, TLAPS, FiniteSetTheorems

(* Of the elements of a sequence, some or at most one are in a set.        *)
Meets(q, X) == \E k \in DOMAIN q : q[k] \in X
Once(q, X) == \A j, k \in DOMAIN q : q[j] \in X /\ q[k] \in X => j = k

MailLine(m, id) == [mail |-> m, id |-> id]
LinesAbout(m) == [mail : {m}, id : Nat]
Message(m) == [op |-> "message", mail |-> m]
Ack(p, id) == [op |-> "ack", player |-> p, id |-> id]
Flush(p) == [op |-> "flush", player |-> p]

(* Somewhere a mail is found under a number.                               *)
FileNames(m, id) == \E f \in mailfile : f.mail = m /\ f.id = id
SlotNames(m, id) == \E i \in Slots : mailbuf[i].mail = m /\ mailbuf[i].id = id
LineNames(m, id) == \E s \in GameServer : Meets(toGs[s], {MailLine(m, id)})
Named(m, id) == FileNames(m, id) \/ SlotNames(m, id) \/ LineNames(m, id)

(* Every number in use was given out, and names one mail.                  *)
Numbers ==
    /\ \A m \in Mails : \A id \in Nat : Named(m, id) => id < mailid
    /\ \A m, n \in Mails : \A id \in Nat : Named(m, id) /\ Named(n, id) => m = n

(* An acknowledgement names mails that were seen.                          *)
AcksSeen ==
    \A s \in GameServer : \A p \in Player : \A id \in Nat :
        Meets(fromGs[s], {Ack(p, id)}) =>
            id < mailid /\ \A m \in Mails : Named(m, id) => seen[m] > 0

(* While the account server is down, so is everything else.                *)
AllDown ==
    ~running =>
        /\ mailbuf = <<>> /\ serving = {}
        /\ \A s \in GameServer : here[s] = {} /\ toGs[s] = <<>> /\ fromGs[s] = <<>>

MailInv == /\ MailTypes /\ IsFiniteSet(mailfile)
           /\ Numbers /\ AcksSeen /\ AllDown /\ FilesMatchMemory

(* A letter that is still on its way to the account server, or that is not *)
(* written yet, is nowhere else.                                           *)
Unknown(m) == seen[m] = 0 /\ m \notin settled /\ \A id \in Nat : ~Named(m, id)
Letters == Letter \X {"letter"}

Underway(m) == \E s \in GameServer : Meets(fromGs[s], {Message(m)})
LettersFresh ==
    \A m \in Letters :
        /\ Underway(m) => m[1] <= written
        /\ Underway(m) \/ m[1] > written => Unknown(m)
LettersOnce ==
    \A m \in Letters : \A s, t \in GameServer :
        /\ Once(fromGs[s], {Message(m)})
        /\ Meets(fromGs[s], {Message(m)}) /\ Meets(fromGs[t], {Message(m)}) => s = t

OnePlace == \A s, t \in GameServer : s # t => here[s] \cap here[t] = {}

(* Of a letter that is settled its recipient's server has been shown one,  *)
(* or is sent one, and no other will be sent.                              *)
SettledAt(m, s) ==
    /\ Recipient(m) \in here[s]
    /\ ~Meets(fromGs[s], {Flush(Recipient(m))})
    /\ seen[m] <= 1
    /\ Once(toGs[s], LinesAbout(m))
    /\ seen[m] = 1 => ~Meets(toGs[s], LinesAbout(m))
SettledLetters == \A m \in Letters : m \in settled => \E s \in GameServer : SettledAt(m, s)

LetterInv == LettersFresh /\ LettersOnce /\ OnePlace /\ SettledLetters

(***************************************************************************)
(* Sequences                                                               *)
(***************************************************************************)
LEMMA MeetsTail ==
    ASSUME NEW S, NEW q \in Seq(S), q # <<>>
    PROVE  /\ Tail(q) \in Seq(S)
           /\ Head(q) \in S
           /\ \A X : Meets(Tail(q), X) => Meets(q, X)
           /\ \A X : Head(q) \in X => Meets(q, X)
           /\ \A X : Once(q, X) => Once(Tail(q), X)
           /\ \A X : Once(q, X) /\ Head(q) \in X => ~Meets(Tail(q), X)
<1>1. Tail(q) \in Seq(S) /\ Len(q) \in Nat \ {0} /\ Len(Tail(q)) = Len(q) - 1
    OBVIOUS
<1>2. \A k \in DOMAIN Tail(q) : k + 1 \in DOMAIN q /\ k \in Nat \ {0} /\ Tail(q)[k] = q[k + 1]
    BY <1>1
<1>3. 1 \in DOMAIN q /\ Head(q) = q[1] /\ Head(q) \in S
    BY <1>1
<1>4. \A X : Meets(Tail(q), X) => Meets(q, X)
    BY <1>2 DEF Meets
<1>5. \A X : Head(q) \in X => Meets(q, X)
    BY <1>3 DEF Meets
<1>6. ASSUME NEW X, Once(q, X)
      PROVE  Once(Tail(q), X) /\ (Head(q) \in X => ~Meets(Tail(q), X))
    <2>1. \A j, k \in DOMAIN Tail(q) :
              Tail(q)[j] \in X /\ Tail(q)[k] \in X => j + 1 = k + 1
        BY <1>2, <1>6 DEF Once
    <2>2. Once(Tail(q), X)
        BY <2>1, <1>2 DEF Once
    <2>3. Head(q) \in X => ~Meets(Tail(q), X)
        BY <1>2, <1>3, <1>6 DEF Once, Meets
    <2> QED  BY <2>2, <2>3
<1> QED  BY <1>1, <1>3, <1>4, <1>5, <1>6

LEMMA MeetsJoin ==
    ASSUME NEW S, NEW q \in Seq(S), NEW r \in Seq(S)
    PROVE  /\ q \o r \in Seq(S)
           /\ \A X : Meets(q \o r, X) <=> Meets(q, X) \/ Meets(r, X)
           /\ \A X : /\ Once(q, X) /\ Once(r, X) /\ ~(Meets(q, X) /\ Meets(r, X))
                     => Once(q \o r, X)
<1>1. q \o r \in Seq(S) /\ Len(q) \in Nat /\ Len(r) \in Nat /\ Len(q \o r) = Len(q) + Len(r)
    OBVIOUS
<1>2. /\ DOMAIN q = 1 .. Len(q) /\ DOMAIN r = 1 .. Len(r)
      /\ DOMAIN (q \o r) = 1 .. Len(q) + Len(r)
    BY <1>1
<1>3. \A k \in DOMAIN (q \o r) : \/ k \in DOMAIN q /\ (q \o r)[k] = q[k]
                                 \/ k - Len(q) \in DOMAIN r /\ (q \o r)[k] = r[k - Len(q)]
    BY <1>1, <1>2
<1>4. \A k \in DOMAIN q : k \in DOMAIN (q \o r) /\ (q \o r)[k] = q[k]
    BY <1>1, <1>2
<1>5. \A k \in DOMAIN r : Len(q) + k \in DOMAIN (q \o r) /\ (q \o r)[Len(q) + k] = r[k]
    BY <1>1, <1>2
<1>6. \A X : Meets(q \o r, X) <=> Meets(q, X) \/ Meets(r, X)
    BY <1>3, <1>4, <1>5 DEF Meets
<1>7. ASSUME NEW X, Once(q, X), Once(r, X), ~(Meets(q, X) /\ Meets(r, X)),
             NEW j \in DOMAIN (q \o r), NEW k \in DOMAIN (q \o r),
             (q \o r)[j] \in X, (q \o r)[k] \in X
      PROVE  j = k
    <2>1. CASE /\ j \in DOMAIN q /\ (q \o r)[j] = q[j]
               /\ k \in DOMAIN q /\ (q \o r)[k] = q[k]
        BY <2>1, <1>7 DEF Once
    <2>2. CASE /\ j - Len(q) \in DOMAIN r /\ (q \o r)[j] = r[j - Len(q)]
               /\ k - Len(q) \in DOMAIN r /\ (q \o r)[k] = r[k - Len(q)]
        <3>1. j - Len(q) = k - Len(q)
            BY <2>2, <1>7 DEF Once
        <3> QED  BY <3>1, <1>1, <1>2
    <2>3. CASE /\ j \in DOMAIN q /\ (q \o r)[j] = q[j]
               /\ k - Len(q) \in DOMAIN r /\ (q \o r)[k] = r[k - Len(q)]
        BY <2>3, <1>7 DEF Meets
    <2>4. CASE /\ k \in DOMAIN q /\ (q \o r)[k] = q[k]
               /\ j - Len(q) \in DOMAIN r /\ (q \o r)[j] = r[j - Len(q)]
        BY <2>4, <1>7 DEF Meets
    <2> QED  BY <1>3, <2>1, <2>2, <2>3, <2>4
<1>8. \A X : /\ Once(q, X) /\ Once(r, X) /\ ~(Meets(q, X) /\ Meets(r, X))
             => Once(q \o r, X)
    BY <1>7 DEF Once
<1> QED  BY <1>1, <1>6, <1>8

LEMMA MeetsOne ==
    ASSUME NEW S, NEW x \in S
    PROVE  /\ <<x>> \in Seq(S)
           /\ \A X : Meets(<<x>>, X) <=> x \in X
           /\ \A X : Once(<<x>>, X)
BY DEF Meets, Once

LEMMA MeetsTwo ==
    ASSUME NEW S, NEW x \in S, NEW y \in S
    PROVE  /\ <<x, y>> \in Seq(S)
           /\ \A X : Meets(<<x, y>>, X) <=> x \in X \/ y \in X
           /\ \A X : ~(x \in X /\ y \in X) => Once(<<x, y>>, X)
BY DEF Meets, Once

LEMMA MeetsAppend ==
    ASSUME NEW S, NEW q \in Seq(S), NEW x \in S
    PROVE  /\ Append(q, x) \in Seq(S)
           /\ \A X : Meets(Append(q, x), X) <=> Meets(q, X) \/ x \in X
           /\ \A X : Once(q, X) /\ ~(Meets(q, X) /\ x \in X) => Once(Append(q, x), X)
<1>1. Append(q, x) = q \o <<x>>
    OBVIOUS
<1>2. /\ <<x>> \in Seq(S)
      /\ \A X : Meets(<<x>>, X) <=> x \in X
      /\ \A X : Once(<<x>>, X)
    BY MeetsOne
<1>3. /\ q \o <<x>> \in Seq(S)
      /\ \A X : Meets(q \o <<x>>, X) <=> Meets(q, X) \/ Meets(<<x>>, X)
      /\ \A X : /\ Once(q, X) /\ Once(<<x>>, X) /\ ~(Meets(q, X) /\ Meets(<<x>>, X))
                => Once(q \o <<x>>, X)
    BY <1>2, MeetsJoin
<1> QED  BY <1>1, <1>2, <1>3

LEMMA MeetsCut ==
    ASSUME NEW S, NEW q \in Seq(S), NEW n \in 0 .. Len(q)
    PROVE  /\ SubSeq(q, 1, n) \in Seq(S)
           /\ \A X : Meets(SubSeq(q, 1, n), X) => Meets(q, X)
           /\ \A X : Once(q, X) => Once(SubSeq(q, 1, n), X)
<1>1. SubSeq(q, 1, n) \in Seq(S) /\ Len(SubSeq(q, 1, n)) = n
    OBVIOUS
<1>2. \A k \in DOMAIN SubSeq(q, 1, n) : k \in DOMAIN q /\ SubSeq(q, 1, n)[k] = q[k]
    BY <1>1
<1> QED  BY <1>1, <1>2 DEF Meets, Once

LEMMA MeetsNone == \A X : ~Meets(<<>>, X) /\ Once(<<>>, X)
BY DEF Meets, Once

(***************************************************************************)
(* Slots                                                                   *)
(***************************************************************************)
USE MailAssumption DEF MailAssumption

LEMMA NoFreeMail == FreeSlot.mail \notin Mails /\ FreeSlot \notin Entry
<1>1. FreeSlot.mail \notin Mails
    BY DEF FreeSlot, Mails, Letter
<1>2. \A e \in Entry : e.mail \in Mails
    BY DEF Entry
<1> QED  BY <1>1, <1>2

LEMMA SlotsHold ==
    ASSUME MailTypes, NEW i \in Slots
    PROVE  /\ Used(i) <=> mailbuf[i].mail \in Mails
           /\ Used(i) => mailbuf[i] \in Entry
<1>1. mailbuf[i] \in Entry \union {FreeSlot}
    BY DEF MailTypes, Slots
<1>2. \A e \in Entry : e.mail \in Mails
    BY DEF Entry
<1> QED  BY <1>1, <1>2, NoFreeMail DEF Used

LEMMA RecipientTypes == \A m \in Mails : m[1] \in Letter /\ Recipient(m) \in Player
BY DEF Mails, Recipient, Letter

(* There is room: the slots as they are, and perhaps free ones after them. *)
LEMMA RoomHolds ==
    ASSUME MailTypes
    PROVE  /\ Room \in Seq(Entry \union {FreeSlot})
           /\ \A i \in Slots : i \in DOMAIN Room /\ Room[i] = mailbuf[i]
           /\ \A i \in DOMAIN Room \ Slots : Room[i] = FreeSlot
<1> DEFINE S == Entry \union {FreeSlot}
           more == IF mailbuf = <<>> THEN 1 ELSE Len(mailbuf)
           free == [k \in 1 .. more |-> FreeSlot]
<1>1. mailbuf \in Seq(S) /\ Len(mailbuf) \in Nat /\ DOMAIN mailbuf = 1 .. Len(mailbuf)
    BY DEF MailTypes
<1>2. more \in Nat
    BY <1>1
<1>3. free \in Seq(S) /\ Len(free) = more /\ \A k \in 1 .. more : free[k] = FreeSlot
    BY <1>2
<1> HIDE DEF more, free, S
<1>4. /\ mailbuf \o free \in Seq(S)
      /\ Len(mailbuf \o free) = Len(mailbuf) + more
      /\ \A i \in 1 .. Len(mailbuf) : (mailbuf \o free)[i] = mailbuf[i]
      /\ \A i \in Len(mailbuf) + 1 .. Len(mailbuf) + more : (mailbuf \o free)[i] = FreeSlot
    <2>1. mailbuf \o free \in Seq(S) /\ Len(mailbuf \o free) = Len(mailbuf) + more
        BY <1>1, <1>2, <1>3
    <2>2. \A i \in 1 .. Len(mailbuf) : (mailbuf \o free)[i] = mailbuf[i]
        BY <1>1, <1>3
    <2>3. ASSUME NEW i \in Len(mailbuf) + 1 .. Len(mailbuf) + more
          PROVE  (mailbuf \o free)[i] = FreeSlot
        <3>1. i - Len(mailbuf) \in 1 .. more
            BY <1>1, <1>2
        <3>2. (mailbuf \o free)[i] = free[i - Len(mailbuf)]
            BY <1>1, <1>2, <1>3
        <3> QED  BY <1>3, <3>1, <3>2
    <2> QED  BY <2>1, <2>2, <2>3
<1>5. DOMAIN (mailbuf \o free) = 1 .. Len(mailbuf) + more
    BY <1>1, <1>2, <1>4
<1>6. Doubled = mailbuf \o free
    BY DEF Doubled, free, more
<1>7. CASE \E i \in Slots : ~Used(i)
    <2>1. Room = mailbuf
        BY <1>7 DEF Room
    <2> QED  BY <2>1, <1>1 DEF S, Slots
<1>8. CASE ~\E i \in Slots : ~Used(i)
    <2>1. Room = mailbuf \o free
        BY <1>8, <1>6 DEF Room
    <2>2. \A i \in DOMAIN Room \ Slots : i \in Len(mailbuf) + 1 .. Len(mailbuf) + more
        BY <2>1, <1>1, <1>2, <1>5 DEF Slots
    <2>3. \A i \in Slots : i \in DOMAIN Room /\ Room[i] = mailbuf[i]
        BY <2>1, <1>1, <1>2, <1>4, <1>5 DEF Slots
    <2> QED  BY <2>1, <2>2, <2>3, <1>4 DEF S
<1> QED  BY <1>7, <1>8

(* One slot that was free, or is new, has the mail.                        *)
PutIn(k, m, sent) ==
    /\ k \in DOMAIN (mailbuf')
    /\ mailbuf'[k] = [mail |-> m, id |-> NewId, sent |-> sent]
    /\ \A i \in Slots : Used(i) => i # k
    /\ \A i \in Slots : i \in DOMAIN (mailbuf') /\ (i # k => mailbuf'[i] = mailbuf[i])
    /\ \A i \in DOMAIN (mailbuf') : i # k =>
          \/ mailbuf'[i] = FreeSlot
          \/ i \in Slots /\ mailbuf'[i] = mailbuf[i]

LEMMA InSlotPuts ==
    ASSUME MailTypes, NEW m \in Mails, NEW sent \in BOOLEAN, InSlot(m, sent)
    PROVE  /\ mailbuf' \in Seq(Entry \union {FreeSlot})
           /\ \E k \in Nat : PutIn(k, m, sent)
<1> DEFINE S == Entry \union {FreeSlot}
           new == [mail |-> m, id |-> NewId, sent |-> sent]
<1>1. PICK k \in DOMAIN Room : /\ Room[k] = FreeSlot
                               /\ mailbuf' = [Room EXCEPT ![k] = new]
    BY DEF InSlot
<1>2. new \in S
    BY DEF Entry, NewId, MailTypes
<1>3. /\ Room \in Seq(S)
      /\ \A i \in Slots : i \in DOMAIN Room /\ Room[i] = mailbuf[i]
      /\ \A i \in DOMAIN Room \ Slots : Room[i] = FreeSlot
    BY RoomHolds
<1> HIDE DEF S, new
<1>4. mailbuf' \in Seq(S) /\ k \in Nat
    BY <1>1, <1>2, <1>3
<1>5. /\ DOMAIN (mailbuf') = DOMAIN Room
      /\ mailbuf'[k] = new
      /\ \A i \in DOMAIN Room : i # k => mailbuf'[i] = Room[i]
    BY <1>1
<1>6. PutIn(k, m, sent)
    <2>1. \A i \in Slots : Used(i) => i # k
        BY <1>1, <1>3 DEF Used
    <2>2. \A i \in Slots : i \in DOMAIN (mailbuf') /\ (i # k => mailbuf'[i] = mailbuf[i])
        BY <1>3, <1>5
    <2>3. \A i \in DOMAIN (mailbuf') : i # k =>
              \/ mailbuf'[i] = FreeSlot
              \/ i \in Slots /\ mailbuf'[i] = mailbuf[i]
        BY <1>3, <1>5
    <2> QED  BY <2>1, <2>2, <2>3, <1>1, <1>5 DEF PutIn, new
<1> QED  BY <1>4, <1>6 DEF S

(***************************************************************************)
(* Lines                                                                   *)
(***************************************************************************)
(* Nothing is added to what game servers have sent.                        *)
NoneSent ==
    \A t \in GameServer : \A X : /\ Meets(fromGs'[t], X) => Meets(fromGs[t], X)
                                 /\ Once(fromGs[t], X) => Once(fromGs'[t], X)

LEMMA LineReads ==
    ASSUME MailTypes, NEW s \in GameServer, Line(s)
    PROVE  /\ fromGs' \in [GameServer -> Seq(ToSaac)]
           /\ Head(fromGs[s]) \in ToSaac
           /\ NoneSent
           /\ \A X : Head(fromGs[s]) \in X => Meets(fromGs[s], X)
           /\ \A X : Once(fromGs[s], X) /\ Head(fromGs[s]) \in X => ~Meets(fromGs'[s], X)
<1>1. /\ fromGs \in [GameServer -> Seq(ToSaac)] /\ fromGs[s] \in Seq(ToSaac)
      /\ fromGs[s] # <<>>
      /\ fromGs' = [fromGs EXCEPT ![s] = Tail(fromGs[s])]
    BY DEF MailTypes, Line
<1>2. /\ Tail(fromGs[s]) \in Seq(ToSaac)
      /\ Head(fromGs[s]) \in ToSaac
      /\ \A X : Meets(Tail(fromGs[s]), X) => Meets(fromGs[s], X)
      /\ \A X : Head(fromGs[s]) \in X => Meets(fromGs[s], X)
      /\ \A X : Once(fromGs[s], X) => Once(Tail(fromGs[s]), X)
      /\ \A X : Once(fromGs[s], X) /\ Head(fromGs[s]) \in X => ~Meets(Tail(fromGs[s]), X)
    BY <1>1, MeetsTail
<1>3. fromGs'[s] = Tail(fromGs[s]) /\ \A t \in GameServer : t # s => fromGs'[t] = fromGs[t]
    BY <1>1
<1>4. NoneSent
    BY <1>2, <1>3 DEF NoneSent
<1> QED  BY <1>1, <1>2, <1>3, <1>4

LEMMA LinesSent ==
    ASSUME MailTypes, NEW s \in GameServer, NEW lines \in Seq(ToSaac), LinesTo(s, lines)
    PROVE  /\ fromGs' \in [GameServer -> Seq(ToSaac)]
           /\ \A t \in GameServer : t # s => fromGs'[t] = fromGs[t]
           /\ \A X : Meets(fromGs'[s], X) <=> Meets(fromGs[s], X) \/ Meets(lines, X)
           /\ \A X : /\ Once(fromGs[s], X) /\ Once(lines, X)
                     /\ ~(Meets(fromGs[s], X) /\ Meets(lines, X))
                     => Once(fromGs'[s], X)
<1>1. /\ fromGs \in [GameServer -> Seq(ToSaac)] /\ fromGs[s] \in Seq(ToSaac)
      /\ fromGs' = [fromGs EXCEPT ![s] = fromGs[s] \o lines]
    BY DEF MailTypes, LinesTo
<1>2. /\ fromGs[s] \o lines \in Seq(ToSaac)
      /\ \A X : Meets(fromGs[s] \o lines, X) <=> Meets(fromGs[s], X) \/ Meets(lines, X)
      /\ \A X : /\ Once(fromGs[s], X) /\ Once(lines, X)
                /\ ~(Meets(fromGs[s], X) /\ Meets(lines, X))
                => Once(fromGs[s] \o lines, X)
    BY <1>1, MeetsJoin
<1>3. fromGs'[s] = fromGs[s] \o lines /\ \A t \in GameServer : t # s => fromGs'[t] = fromGs[t]
    BY <1>1
<1> QED  BY <1>1, <1>2, <1>3

LEMMA LineKinds ==
    /\ \A m \in Mails : Message(m) \in ToSaac
    /\ \A p \in Player : Flush(p) \in ToSaac
    /\ \A p \in Player : \A id \in Nat : Ack(p, id) \in ToSaac
    /\ [op |-> "login"] \in ToSaac
    /\ \A l \in ToSaac : l.op = "message" => l.mail \in Mails /\ l = Message(l.mail)
    /\ \A l \in ToSaac : l.op = "flush" => l.player \in Player /\ l = Flush(l.player)
    /\ \A l \in ToSaac :
          l.op = "ack" => l.player \in Player /\ l.id \in Nat /\ l = Ack(l.player, l.id)
    /\ \A m, n \in Mails : Message(m) = Message(n) => m = n
    /\ \A m \in Mails : Message(m).op = "message"
    /\ \A p \in Player : Flush(p).op = "flush"
    /\ \A p \in Player : \A id \in Nat : Ack(p, id).op = "ack"
BY DEF ToSaac, Message, Flush, Ack

(* Fewer lines to game servers than there were.                            *)
NoneToGame ==
    \A t \in GameServer : \A X : /\ Meets(toGs'[t], X) => Meets(toGs[t], X)
                                 /\ Once(toGs[t], X) => Once(toGs'[t], X)

LEMMA GameReads ==
    ASSUME MailTypes, NEW s \in GameServer, toGs[s] # <<>>,
           toGs' = [toGs EXCEPT ![s] = Tail(@)]
    PROVE  /\ toGs' \in [GameServer -> Seq(ToGame)]
           /\ Head(toGs[s]) \in ToGame
           /\ NoneToGame
           /\ \A X : Head(toGs[s]) \in X => Meets(toGs[s], X)
           /\ \A X : Once(toGs[s], X) /\ Head(toGs[s]) \in X => ~Meets(toGs'[s], X)
<1>1. /\ toGs \in [GameServer -> Seq(ToGame)] /\ toGs[s] \in Seq(ToGame)
      /\ toGs' = [toGs EXCEPT ![s] = Tail(toGs[s])]
    BY DEF MailTypes
<1>2. /\ Tail(toGs[s]) \in Seq(ToGame)
      /\ Head(toGs[s]) \in ToGame
      /\ \A X : Meets(Tail(toGs[s]), X) => Meets(toGs[s], X)
      /\ \A X : Head(toGs[s]) \in X => Meets(toGs[s], X)
      /\ \A X : Once(toGs[s], X) => Once(Tail(toGs[s]), X)
      /\ \A X : Once(toGs[s], X) /\ Head(toGs[s]) \in X => ~Meets(Tail(toGs[s]), X)
    BY <1>1, MeetsTail
<1>3. toGs'[s] = Tail(toGs[s]) /\ \A t \in GameServer : t # s => toGs'[t] = toGs[t]
    BY <1>1
<1>4. NoneToGame
    BY <1>2, <1>3 DEF NoneToGame
<1> QED  BY <1>1, <1>2, <1>3, <1>4

(* What a flush sends are mails of slots.                                  *)
LEMMA FlushLines ==
    ASSUME MailTypes, NEW p \in Player, NEW order \in InOrder(FlushedOf(p))
    PROVE  /\ LinesOf(order) \in Seq(ToGame)
           /\ \A X : Meets(LinesOf(order), X) =>
                 \E i \in FlushedOf(p) : MailLine(mailbuf[i].mail, mailbuf[i].id) \in X
<1> DEFINE I == FlushedOf(p)
<1>1. I \subseteq Slots /\ \A i \in I : Used(i)
    BY DEF FlushedOf
<1>2. Cardinality(I) \in Nat
    <2>1. Slots = 1 .. Len(mailbuf) /\ Len(mailbuf) \in Nat
        BY DEF MailTypes, Slots
    <2>2. IsFiniteSet(Slots)
        BY <2>1, FS_Interval
    <2> QED  BY <1>1, <2>2, FS_Subset, FS_CardinalityType
<1>3. order \in [1 .. Cardinality(I) -> I]
    BY DEF InOrder
<1>4. \A i \in I : MailLine(mailbuf[i].mail, mailbuf[i].id) \in ToGame
    BY <1>1, SlotsHold DEF MailLine, ToGame, Entry
<1> HIDE DEF I
<1>5. /\ DOMAIN LinesOf(order) = 1 .. Cardinality(I)
      /\ \A k \in 1 .. Cardinality(I) :
            LinesOf(order)[k] = MailLine(mailbuf[order[k]].mail, mailbuf[order[k]].id)
    BY <1>3 DEF LinesOf, MailLine
<1>6. LinesOf(order) \in [1 .. Cardinality(I) -> ToGame]
    <2>1. \A k \in 1 .. Cardinality(I) : LinesOf(order)[k] \in ToGame
        BY <1>3, <1>4, <1>5
    <2>2. LinesOf(order) = [k \in 1 .. Cardinality(I) |-> LinesOf(order)[k]]
        BY <1>5 DEF LinesOf
    <2> QED  BY <2>1, <2>2
<1>7. LinesOf(order) \in Seq(ToGame)
    BY <1>2, <1>6
<1>8. ASSUME NEW X, Meets(LinesOf(order), X)
      PROVE  \E i \in I : MailLine(mailbuf[i].mail, mailbuf[i].id) \in X
    BY <1>3, <1>5, <1>8 DEF Meets
<1> QED  BY <1>7, <1>8 DEF I

(* A flush appends them to the lines of one game server.                   *)
LEMMA FlushSends ==
    ASSUME MailTypes, NEW s \in GameServer, flushMail(s)
    PROVE  /\ toGs' \in [GameServer -> Seq(ToGame)]
           /\ \A t \in GameServer : t # s => toGs'[t] = toGs[t]
           /\ \A X : Meets(toGs'[s], X) =>
                 \/ Meets(toGs[s], X)
                 \/ \E i \in Slots : /\ Used(i)
                                     /\ Recipient(mailbuf[i].mail) = Head(fromGs[s]).player
                                     /\ MailLine(mailbuf[i].mail, mailbuf[i].id) \in X
           /\ \A X : \/ Once(toGs[s], X) => Once(toGs'[s], X)
                    \/ \E i \in Slots : /\ Used(i)
                                        /\ Recipient(mailbuf[i].mail) = Head(fromGs[s]).player
                                        /\ MailLine(mailbuf[i].mail, mailbuf[i].id) \in X
           /\ Head(fromGs[s]) \in ToSaac /\ Head(fromGs[s]).op = "flush"
           /\ mailbuf' \in Seq(Entry \union {FreeSlot})
           /\ DOMAIN (mailbuf') = Slots
           /\ \A i \in Slots : /\ mailbuf'[i].mail = mailbuf[i].mail
                               /\ mailbuf'[i].id = mailbuf[i].id
                               /\ mailbuf'[i] # FreeSlot <=> Used(i)
<1> DEFINE p == Head(fromGs[s]).player
           I == FlushedOf(p)
<1>1. Line(s) /\ Head(fromGs[s]).op = "flush" /\ Head(fromGs[s]) \in ToSaac
    BY LineReads DEF flushMail
<1>2. p \in Player
    BY <1>1, LineKinds
<1>3. PICK order \in InOrder(I) : toGs' = [toGs EXCEPT ![s] = @ \o LinesOf(order)]
    BY DEF flushMail
<1>4. mailbuf' = [k \in Slots |-> IF k \in I THEN [mailbuf[k] EXCEPT !.sent = TRUE]
                                 ELSE mailbuf[k]]
    BY DEF flushMail
<1>5. /\ LinesOf(order) \in Seq(ToGame)
      /\ \A X : Meets(LinesOf(order), X) =>
            \E i \in I : MailLine(mailbuf[i].mail, mailbuf[i].id) \in X
    BY <1>2, <1>3, FlushLines
<1>6. \A i \in I : i \in Slots /\ Used(i) /\ Recipient(mailbuf[i].mail) = p
    BY DEF FlushedOf
<1> HIDE DEF p, I
<1>7. toGs \in [GameServer -> Seq(ToGame)] /\ toGs[s] \in Seq(ToGame)
    BY DEF MailTypes
<1>8. /\ toGs[s] \o LinesOf(order) \in Seq(ToGame)
      /\ \A X : Meets(toGs[s] \o LinesOf(order), X) <=>
            Meets(toGs[s], X) \/ Meets(LinesOf(order), X)
      /\ \A X : Once(toGs[s], X) /\ ~Meets(LinesOf(order), X) => Once(toGs[s] \o LinesOf(order), X)
    <2>1. \A X : ~Meets(LinesOf(order), X) => Once(LinesOf(order), X)
        BY DEF Meets, Once
    <2> QED  BY <2>1, <1>5, <1>7, MeetsJoin
<1>9. /\ toGs'[s] = toGs[s] \o LinesOf(order)
      /\ \A t \in GameServer : t # s => toGs'[t] = toGs[t]
      /\ toGs' \in [GameServer -> Seq(ToGame)]
    BY <1>3, <1>7, <1>8
<1>10. ASSUME NEW X, Meets(toGs'[s], X), ~Meets(toGs[s], X)
       PROVE  \E i \in Slots : /\ Used(i) /\ Recipient(mailbuf[i].mail) = p
                               /\ MailLine(mailbuf[i].mail, mailbuf[i].id) \in X
    <2>1. PICK i \in I : MailLine(mailbuf[i].mail, mailbuf[i].id) \in X
        BY <1>5, <1>8, <1>9, <1>10
    <2> QED  BY <2>1, <1>6
<1>11. ASSUME NEW X, Once(toGs[s], X), ~Once(toGs'[s], X)
      PROVE  \E i \in Slots : /\ Used(i) /\ Recipient(mailbuf[i].mail) = p
                              /\ MailLine(mailbuf[i].mail, mailbuf[i].id) \in X
    <2>1. PICK i \in I : MailLine(mailbuf[i].mail, mailbuf[i].id) \in X
        BY <1>5, <1>8, <1>9, <1>11
    <2> QED  BY <2>1, <1>6
<1>12. \A i \in Slots :
           /\ mailbuf'[i] \in Entry \union {FreeSlot}
           /\ mailbuf'[i].mail = mailbuf[i].mail
           /\ mailbuf'[i].id = mailbuf[i].id
           /\ mailbuf'[i] # FreeSlot <=> Used(i)
    <2> SUFFICES ASSUME NEW i \in Slots
                 PROVE  /\ mailbuf'[i] \in Entry \union {FreeSlot}
                        /\ mailbuf'[i].mail = mailbuf[i].mail
                        /\ mailbuf'[i].id = mailbuf[i].id
                        /\ mailbuf'[i] # FreeSlot <=> Used(i)
        OBVIOUS
    <2>1. CASE i \in I
        <3>1. Used(i) /\ mailbuf[i] \in Entry
            BY <2>1, <1>6, SlotsHold
        <3>2. mailbuf'[i] = [mailbuf[i] EXCEPT !.sent = TRUE]
            BY <1>4, <2>1
        <3>3. mailbuf'[i] = [mail |-> mailbuf[i].mail, id |-> mailbuf[i].id, sent |-> TRUE]
            BY <3>1, <3>2 DEF Entry
        <3>4. mailbuf'[i] \in Entry
            BY <3>1, <3>3 DEF Entry
        <3>5. mailbuf'[i].mail = mailbuf[i].mail /\ mailbuf'[i].id = mailbuf[i].id
            BY <3>3
        <3>6. mailbuf'[i] # FreeSlot
            BY <3>4, NoFreeMail
        <3> QED  BY <3>1, <3>4, <3>5, <3>6
    <2>2. CASE i \notin I
        <3>1. mailbuf'[i] = mailbuf[i]
            BY <1>4, <2>2
        <3>2. mailbuf[i] \in Entry \union {FreeSlot}
            BY DEF MailTypes, Slots
        <3> QED  BY <3>1, <3>2 DEF Used
    <2> QED  BY <2>1, <2>2
<1>13. DOMAIN (mailbuf') = Slots
    BY <1>4
<1>14. mailbuf' \in Seq(Entry \union {FreeSlot})
    <2>1. Slots = 1 .. Len(mailbuf) /\ Len(mailbuf) \in Nat
        BY DEF MailTypes, Slots
    <2>2. mailbuf' = [k \in 1 .. Len(mailbuf) |-> mailbuf'[k]]
        BY <1>4, <2>1
    <2> QED  BY <2>1, <2>2, <1>12
<1> QED  BY <1>1, <1>9, <1>10, <1>11, <1>12, <1>13, <1>14 DEF p

LEMMA ReceiveSends ==
    ASSUME MailTypes, NEW s \in GameServer, receiveMail(s),
           NEW m, m = Head(fromGs[s]).mail
    PROVE  /\ m \in Mails /\ Head(fromGs[s]) = Message(m)
           /\ toGs' \in [GameServer -> Seq(ToGame)]
           /\ \A t \in GameServer : \A X :
                 /\ Meets(toGs'[t], X) => Meets(toGs[t], X) \/ MailLine(m, NewId) \in X
                 /\ /\ Once(toGs[t], X) /\ ~(Meets(toGs[t], X) /\ MailLine(m, NewId) \in X)
                    => Once(toGs'[t], X)
<1>1. m \in Mails /\ Head(fromGs[s]) = Message(m)
    BY LineReads, LineKinds DEF receiveMail
<1>2. MailLine(m, NewId) \in ToGame
    BY <1>1 DEF MailLine, ToGame, NewId, MailTypes
<1>3. toGs \in [GameServer -> Seq(ToGame)]
    BY DEF MailTypes
<1>4. toGs' = [t \in GameServer |->
                  IF t \in known THEN Append(toGs[t], MailLine(m, NewId)) ELSE toGs[t]]
    BY DEF receiveMail, MailLine
<1>5. ASSUME NEW t \in GameServer
      PROVE  /\ Append(toGs[t], MailLine(m, NewId)) \in Seq(ToGame)
             /\ \A X : Meets(Append(toGs[t], MailLine(m, NewId)), X) <=>
                          Meets(toGs[t], X) \/ MailLine(m, NewId) \in X
             /\ \A X : /\ Once(toGs[t], X) /\ ~(Meets(toGs[t], X) /\ MailLine(m, NewId) \in X)
                       => Once(Append(toGs[t], MailLine(m, NewId)), X)
    <2>1. toGs[t] \in Seq(ToGame)
        BY <1>3
    <2> QED  BY <2>1, <1>2, MeetsAppend
<1>6. toGs' \in [GameServer -> Seq(ToGame)]
    BY <1>3, <1>4, <1>5
<1>7. ASSUME NEW t \in GameServer, NEW X
      PROVE  /\ Meets(toGs'[t], X) => Meets(toGs[t], X) \/ MailLine(m, NewId) \in X
             /\ /\ Once(toGs[t], X) /\ ~(Meets(toGs[t], X) /\ MailLine(m, NewId) \in X)
                => Once(toGs'[t], X)
    <2>1. CASE t \in known
        <3>1. toGs'[t] = Append(toGs[t], MailLine(m, NewId))
            BY <1>4, <2>1
        <3> QED  BY <3>1, <1>5
    <2>2. CASE t \notin known
        <3>1. toGs'[t] = toGs[t]
            BY <1>4, <2>2
        <3> QED  BY <3>1
    <2> QED  BY <2>1, <2>2
<1> QED  BY <1>1, <1>6, <1>7

(* After a start the slots hold the files that are whole, one each.        *)
WholeFiles == {f \in mailfile : f.whole}
Read(f) == [mail |-> f.mail, id |-> f.id, sent |-> FALSE]
Filled(place) ==
    /\ \A f \in WholeFiles : /\ place[f] \in DOMAIN (mailbuf')
                             /\ mailbuf'[place[f]] = Read(f)
    /\ \A f, g \in WholeFiles : place[f] = place[g] => f = g
    /\ \A i \in DOMAIN (mailbuf') : \/ mailbuf'[i] = FreeSlot
                                   \/ \E f \in WholeFiles : place[f] = i

LEMMA StartFills ==
    ASSUME MailTypes, IsFiniteSet(mailfile), SaacStarts
    PROVE  /\ mailbuf' \in Seq(Entry \union {FreeSlot})
           /\ \E place : Filled(place)
<1> DEFINE F == WholeFiles
<1>1. Cardinality(F) \in Nat
    BY FS_Subset, FS_CardinalityType DEF WholeFiles
<1>0. PICK size \in SizeFor(Cardinality(F)) : \E place \in Injection(F, 1 .. size) :
          mailbuf' = [k \in 1 .. size |->
                  IF \E f \in F : place[f] = k
                  THEN LET f == CHOOSE g \in F : place[g] = k
                       IN  [mail |-> f.mail, id |-> f.id, sent |-> FALSE]
                  ELSE FreeSlot]
    BY DEF SaacStarts, WholeFiles
<1>2. PICK place \in Injection(F, 1 .. size) :
          mailbuf' = [k \in 1 .. size |->
                  IF \E f \in F : place[f] = k
                  THEN LET f == CHOOSE g \in F : place[g] = k
                       IN  [mail |-> f.mail, id |-> f.id, sent |-> FALSE]
                  ELSE FreeSlot]
    BY <1>0
<1>3. size \in Nat
    <2>1. CASE Cardinality(F) = 0
        BY <2>1, <1>2 DEF SizeFor
    <2>2. CASE Cardinality(F) # 0
        <3>1. size \in Cardinality(F) .. 2 * Cardinality(F) - 1
            BY <2>2, <1>2 DEF SizeFor
        <3> QED  BY <3>1, <1>1
    <2> QED  BY <2>1, <2>2
<1>4. \A f \in F : Read(f) \in Entry
    BY DEF WholeFiles, Read, Entry, MailTypes
<1> HIDE DEF F
<1>5. place \in [F -> 1 .. size] /\ \A f, g \in F : place[f] = place[g] => f = g
    BY <1>2 DEF Injection, IsInjective
<1>6. ASSUME NEW f \in F
      PROVE  place[f] \in 1 .. size /\ mailbuf'[place[f]] = Read(f)
    <2>1. place[f] \in 1 .. size
        BY <1>5
    <2>2. (CHOOSE g \in F : place[g] = place[f]) = f
        BY <1>5
    <2> QED  BY <1>2, <2>1, <2>2 DEF Read
<1>7. \A i \in 1 .. size : \/ mailbuf'[i] = FreeSlot
                           \/ \E f \in F : place[f] = i
    BY <1>2
<1>8. DOMAIN (mailbuf') = 1 .. size
    BY <1>2
<1>9. mailbuf' \in Seq(Entry \union {FreeSlot})
    <2>1. \A i \in 1 .. size : mailbuf'[i] \in Entry \union {FreeSlot}
        BY <1>4, <1>6, <1>7
    <2>2. mailbuf' = [i \in 1 .. size |-> mailbuf'[i]]
        BY <1>2
    <2> QED  BY <2>1, <2>2, <1>3
<1>10. Filled(place)
    BY <1>5, <1>6, <1>7, <1>8 DEF Filled, F
<1> QED  BY <1>9, <1>10

(* A game server that stops leaves the beginning of what it sent.          *)
LEMMA StopCuts ==
    ASSUME MailTypes, NEW s \in GameServer, ServerStops(s)
    PROVE  /\ fromGs' \in [GameServer -> Seq(ToSaac)]
           /\ NoneSent
           /\ toGs' \in [GameServer -> Seq(ToGame)]
           /\ NoneToGame
<1>1. /\ fromGs \in [GameServer -> Seq(ToSaac)] /\ fromGs[s] \in Seq(ToSaac)
      /\ toGs \in [GameServer -> Seq(ToGame)]
    BY DEF MailTypes
<1>2. PICK n \in 0 .. Len(fromGs[s]) : fromGs' = [fromGs EXCEPT ![s] = SubSeq(@, 1, n)]
    BY DEF ServerStops
<1>3. /\ SubSeq(fromGs[s], 1, n) \in Seq(ToSaac)
      /\ \A X : Meets(SubSeq(fromGs[s], 1, n), X) => Meets(fromGs[s], X)
      /\ \A X : Once(fromGs[s], X) => Once(SubSeq(fromGs[s], 1, n), X)
    BY <1>1, MeetsCut
<1>4. /\ fromGs'[s] = SubSeq(fromGs[s], 1, n)
      /\ \A t \in GameServer : t # s => fromGs'[t] = fromGs[t]
      /\ fromGs' \in [GameServer -> Seq(ToSaac)]
    BY <1>1, <1>2, <1>3
<1>5. NoneSent
    BY <1>3, <1>4 DEF NoneSent
<1>6. toGs' = [toGs EXCEPT ![s] = <<>>]
    BY DEF ServerStops
<1>7. /\ toGs'[s] = <<>>
      /\ \A t \in GameServer : t # s => toGs'[t] = toGs[t]
      /\ toGs' \in [GameServer -> Seq(ToGame)]
    BY <1>1, <1>6
<1>8. NoneToGame
    BY <1>7, MeetsNone DEF NoneToGame
<1> QED  BY <1>4, <1>5, <1>7, <1>8

LEMMA AllCut ==
    ASSUME AllStop
    PROVE  /\ fromGs' \in [GameServer -> Seq(ToSaac)] /\ NoneSent
           /\ toGs' \in [GameServer -> Seq(ToGame)] /\ NoneToGame
           /\ \A t \in GameServer : toGs'[t] = <<>> /\ fromGs'[t] = <<>> /\ here'[t] = {}
<1>1. \A t \in GameServer : toGs'[t] = <<>> /\ fromGs'[t] = <<>> /\ here'[t] = {}
    BY DEF AllStop, Everywhere
<1>2. fromGs' \in [GameServer -> Seq(ToSaac)] /\ toGs' \in [GameServer -> Seq(ToGame)]
    BY DEF AllStop, Everywhere
<1> QED  BY <1>1, <1>2, MeetsNone DEF NoneSent, NoneToGame

(***************************************************************************)
(* Types                                                                   *)
(***************************************************************************)
TypesHold == MailTypes /\ IsFiniteSet(mailfile)

LEMMA InitTypes == MailInit => TypesHold
<1> SUFFICES ASSUME MailInit  PROVE TypesHold
    OBVIOUS
<1>1. PICK start \in Starts : here = start.here /\ strange = start.strange
    BY DEF MailInit
<1>2. here \in [GameServer -> SUBSET Player] /\ strange \subseteq Letter
    BY <1>1
<1>3. mailbuf \in Seq(Entry \union {FreeSlot})
    BY DEF MailInit
<1>4. /\ toGs \in [GameServer -> Seq(ToGame)] /\ fromGs \in [GameServer -> Seq(ToSaac)]
      /\ seen \in [Mails -> Nat]
    BY DEF MailInit, Everywhere
<1>5. IsFiniteSet(mailfile)
    BY FS_EmptySet DEF MailInit
<1> QED  BY <1>2, <1>3, <1>4, <1>5 DEF MailInit, TypesHold, MailTypes

(* What one of the account server's actions leaves of the types to show.   *)
LEMMA ReceiveTypes ==
    ASSUME TypesHold, NEW s \in GameServer, receiveMail(s), UNCHANGED strange
    PROVE  TypesHold'
<1> DEFINE m == Head(fromGs[s]).mail
<1> USE DEF TypesHold
<1>1. /\ m \in Mails
      /\ toGs' \in [GameServer -> Seq(ToGame)]
    BY ReceiveSends
<1>2. fromGs' \in [GameServer -> Seq(ToSaac)]
    BY LineReads DEF receiveMail
<1>3. mailbuf' \in Seq(Entry \union {FreeSlot})
    BY <1>1, InSlotPuts DEF receiveMail
<1>4. /\ mailfile' \subseteq [mail : Mails, id : Nat, whole : BOOLEAN]
      /\ IsFiniteSet(mailfile')
    <2>1. [mail |-> m, id |-> NewId, whole |-> TRUE] \in [mail : Mails, id : Nat, whole : BOOLEAN]
        BY <1>1 DEF NewId, MailTypes
    <2>2. Unlinked(m, NewId) \subseteq mailfile /\ IsFiniteSet(Unlinked(m, NewId))
        BY FS_Subset DEF Unlinked
    <2>3. mailfile' = Unlinked(m, NewId) \union {[mail |-> m, id |-> NewId, whole |-> TRUE]}
        BY DEF receiveMail, Saved
    <2>4. IsFiniteSet(mailfile')
        BY <2>2, <2>3, FS_AddElement
    <2> QED  BY <2>1, <2>2, <2>3, <2>4 DEF MailTypes
<1>5. mailid' \in Nat
    BY DEF receiveMail, CountId, MailTypes
<1>6. settled' \subseteq Mails
    BY <1>1 DEF receiveMail, MailTypes
<1> QED  BY <1>1, <1>2, <1>3, <1>4, <1>5, <1>6 DEF receiveMail, MailTypes

LEMMA NoFileTypes ==
    ASSUME TypesHold, NEW s \in GameServer, receiveMailNoFile(s), UNCHANGED strange
    PROVE  TypesHold'
<1> DEFINE m == Head(fromGs[s]).mail
<1> USE DEF TypesHold
<1>1. m \in Mails
    BY LineReads, LineKinds DEF receiveMailNoFile
<1>2. fromGs' \in [GameServer -> Seq(ToSaac)]
    BY LineReads DEF receiveMailNoFile
<1>3. mailbuf' \in Seq(Entry \union {FreeSlot})
    BY <1>1, InSlotPuts DEF receiveMailNoFile
<1>4. mailid' \in Nat /\ stops' \in 0 .. MaxStops
    BY DEF receiveMailNoFile, CountId, MailTypes
<1> QED  BY <1>1, <1>2, <1>3, <1>4 DEF receiveMailNoFile, MailTypes

(* An acknowledgement that hits frees the first slot it hits, and unlinks  *)
(* its file.                                                               *)
Freed(i) ==
    /\ Used(i)
    /\ mailbuf' = [mailbuf EXCEPT ![i] = FreeSlot]
    /\ mailfile' = Unlinked(mailbuf[i].mail, mailbuf[i].id)

LEMMA AckFrees ==
    ASSUME MailTypes, NEW s \in GameServer, receiveMailAck(s)
    PROVE  \/ UNCHANGED <<mailbuf, mailfile>>
           \/ \E i \in Slots : /\ Freed(i)
                               /\ Head(fromGs[s]) = Ack(Recipient(mailbuf[i].mail), mailbuf[i].id)
<1> DEFINE a == Head(fromGs[s])
           hits == {i \in Slots : Acknowledged(a.player, a.id, i)}
<1>1. a = Ack(a.player, a.id)
    BY LineReads, LineKinds DEF receiveMailAck
<1>2. CASE hits = {}
    BY <1>2 DEF receiveMailAck
<1>3. CASE hits # {}
    <2>1. PICK i \in hits : /\ mailbuf' = [mailbuf EXCEPT ![i] = FreeSlot]
                            /\ mailfile' = Unlinked(mailbuf[i].mail, a.id)
        BY <1>3 DEF receiveMailAck
    <2>2. i \in Slots /\ Acknowledged(a.player, a.id, i)
        OBVIOUS
    <2> QED  BY <1>1, <2>1, <2>2 DEF Acknowledged, Freed
<1> QED  BY <1>2, <1>3

LEMMA AckTypes ==
    ASSUME TypesHold, NEW s \in GameServer, receiveMailAck(s), UNCHANGED strange
    PROVE  TypesHold'
<1> USE DEF TypesHold
<1>1. fromGs' \in [GameServer -> Seq(ToSaac)]
    BY LineReads DEF receiveMailAck
<1>2. /\ mailbuf' \in Seq(Entry \union {FreeSlot})
      /\ mailfile' \subseteq mailfile
    <2>1. CASE UNCHANGED <<mailbuf, mailfile>>
        BY <2>1 DEF MailTypes
    <2>2. ASSUME NEW i \in Slots, Freed(i)
          PROVE  /\ mailbuf' \in Seq(Entry \union {FreeSlot})
                 /\ mailfile' \subseteq mailfile
        BY <2>2 DEF Freed, Slots, Unlinked, MailTypes
    <2> QED  BY <2>1, <2>2, AckFrees
<1>3. IsFiniteSet(mailfile')
    BY <1>2, FS_Subset
<1> QED  BY <1>1, <1>2, <1>3 DEF receiveMailAck, MailTypes, history

LEMMA FlushTypes ==
    ASSUME TypesHold, NEW s \in GameServer, flushMail(s), UNCHANGED strange
    PROVE  TypesHold'
<1> USE DEF TypesHold
<1>1. fromGs' \in [GameServer -> Seq(ToSaac)]
    BY LineReads DEF flushMail
<1>2. /\ toGs' \in [GameServer -> Seq(ToGame)]
      /\ mailbuf' \in Seq(Entry \union {FreeSlot})
    BY FlushSends
<1> QED  BY <1>1, <1>2 DEF flushMail, MailTypes, history

(* Some slots that were used are freed, and their files unlinked.          *)
Expired(E) ==
    /\ \A i \in E : i \in Slots /\ Used(i)
    /\ DOMAIN (mailbuf') = Slots
    /\ \A i \in Slots : mailbuf'[i] = IF i \in E THEN FreeSlot ELSE mailbuf[i]
    /\ mailfile' = {f \in mailfile :
                      \A i \in E : ~SameFile(f, mailbuf[i].mail, mailbuf[i].id)}
    /\ dropped' = dropped \union {mailbuf[i].mail : i \in E}

LEMMA ExpireFrees ==
    ASSUME MailTypes, expireMail
    PROVE  /\ mailbuf' \in Seq(Entry \union {FreeSlot})
           /\ dropped' \subseteq Mails
           /\ \E E : Expired(E)
<1>1. PICK E \in SUBSET {i \in Slots : i <= MaxFlush /\ Used(i)} :
          /\ E # {}
          /\ mailbuf' = [k \in Slots |-> IF k \in E THEN FreeSlot ELSE mailbuf[k]]
          /\ mailfile' = {f \in mailfile :
                             \A i \in E : ~SameFile(f, mailbuf[i].mail, mailbuf[i].id)}
          /\ dropped' = dropped \union {mailbuf[i].mail : i \in E}
    BY DEF expireMail
<1>2. Expired(E)
    BY <1>1 DEF Expired
<1>3. dropped' \subseteq Mails
    BY <1>1, SlotsHold DEF MailTypes
<1>4. mailbuf' \in Seq(Entry \union {FreeSlot})
    <2>1. Slots = 1 .. Len(mailbuf) /\ Len(mailbuf) \in Nat
        BY DEF MailTypes, Slots
    <2>2. \A k \in Slots : mailbuf'[k] \in Entry \union {FreeSlot}
        BY <1>1 DEF MailTypes, Slots
    <2>3. mailbuf' = [k \in 1 .. Len(mailbuf) |-> mailbuf'[k]]
        BY <1>1, <2>1
    <2> QED  BY <2>1, <2>2, <2>3
<1> QED  BY <1>2, <1>3, <1>4

LEMMA StopTypes ==
    ASSUME TypesHold, UNCHANGED strange,
           \/ expireMail \/ SaacStops \/ SaacStopsReading \/ SaacStarts
           \/ \E s \in GameServer : SaacStopsWriting(s)
    PROVE  TypesHold'
<1> USE DEF TypesHold
<1>1. CASE expireMail
    <2>1. mailfile' \subseteq mailfile
        BY <1>1 DEF expireMail
    <2>2. IsFiniteSet(mailfile')
        BY <2>1, FS_Subset
    <2>3. stops' \in 0 .. MaxStops
        BY <1>1 DEF expireMail, MailTypes
    <2> QED  BY <1>1, <2>1, <2>2, <2>3, ExpireFrees DEF expireMail, MailTypes, streams
<1>2. ASSUME AllStop
      PROVE  /\ mailbuf' \in Seq(Entry \union {FreeSlot})
             /\ running' \in BOOLEAN
             /\ known' \subseteq GameServer /\ serving' \subseteq GameServer
             /\ here' \in [GameServer -> SUBSET Player]
             /\ toGs' \in [GameServer -> Seq(ToGame)]
             /\ fromGs' \in [GameServer -> Seq(ToSaac)]
             /\ written' \in 0 .. MaxLetter /\ seen' \in [Mails -> Nat]
             /\ settled' \subseteq Mails
             /\ logins' \in 0 .. MaxLogins /\ stops' \in 0 .. MaxStops
    <2>1. mailbuf' \in Seq(Entry \union {FreeSlot})
        BY <1>2 DEF AllStop
    <2>2. here' \in [GameServer -> SUBSET Player]
        BY <1>2 DEF AllStop, Everywhere
    <2>3. toGs' \in [GameServer -> Seq(ToGame)] /\ fromGs' \in [GameServer -> Seq(ToSaac)]
        BY <1>2, AllCut
    <2>4. stops' \in 0 .. MaxStops
        BY <1>2 DEF AllStop, MailTypes
    <2> QED  BY <1>2, <2>1, <2>2, <2>3, <2>4 DEF AllStop, MailTypes
<1>3. CASE SaacStops
    BY <1>2, <1>3 DEF SaacStops, MailTypes
<1>4. ASSUME NEW s \in GameServer, SaacStopsWriting(s)  PROVE TypesHold'
    <2> DEFINE m == Head(fromGs[s]).mail
               cut == [mail |-> m, id |-> NewId, whole |-> FALSE]
    <2>1. m \in Mails
        <3>1. fromGs[s] \in Seq(ToSaac) /\ fromGs[s] # <<>> /\ Head(fromGs[s]).op = "message"
            BY <1>4 DEF SaacStopsWriting, MailTypes
        <3>2. Head(fromGs[s]) \in ToSaac
            BY <3>1, MeetsTail
        <3> QED  BY <3>1, <3>2, LineKinds
    <2>2. cut \in [mail : Mails, id : Nat, whole : BOOLEAN]
        BY <2>1 DEF NewId, MailTypes
    <2>3. Unlinked(m, NewId) \subseteq mailfile /\ IsFiniteSet(Unlinked(m, NewId))
        BY FS_Subset DEF Unlinked
    <2>4. mailfile' = Unlinked(m, NewId) \union {cut}
        BY <1>4 DEF SaacStopsWriting
    <2>5. IsFiniteSet(mailfile')
        BY <2>3, <2>4, FS_AddElement
    <2>6. mailfile' \subseteq [mail : Mails, id : Nat, whole : BOOLEAN]
        BY <2>2, <2>3, <2>4 DEF MailTypes
    <2>7. mailid' \in Nat /\ dropped' \subseteq Mails
        BY <1>4, <2>1 DEF SaacStopsWriting, CountId, MailTypes
    <2>8. AllStop
        BY <1>4 DEF SaacStopsWriting
    <2> QED  BY <1>2, <2>5, <2>6, <2>7, <2>8 DEF MailTypes
<1>5. CASE SaacStopsReading
    <2>1. PICK f \in mailfile :
              /\ mailfile' = (mailfile \ {f}) \union {[f EXCEPT !.whole = FALSE]}
              /\ dropped' = dropped \union {f.mail}
        BY <1>5 DEF SaacStopsReading
    <2>2. f \in [mail : Mails, id : Nat, whole : BOOLEAN]
        BY DEF MailTypes
    <2>3. IsFiniteSet(mailfile \ {f})
        BY FS_Subset
    <2>4. IsFiniteSet(mailfile')
        BY <2>1, <2>3, FS_AddElement
    <2>5. /\ mailfile' \subseteq [mail : Mails, id : Nat, whole : BOOLEAN]
          /\ dropped' \subseteq Mails
        BY <2>1, <2>2 DEF MailTypes
    <2> QED  BY <1>5, <2>4, <2>5 DEF SaacStopsReading, MailTypes, streams
<1>6. CASE SaacStarts
    <2>1. /\ mailbuf' \in Seq(Entry \union {FreeSlot})
          /\ running' \in BOOLEAN
          /\ UNCHANGED <<mailfile, mailid, known, here, serving, streams, history,
                         logins, stops>>
        BY <1>6, StartFills DEF SaacStarts
    <2> QED  BY <2>1 DEF MailTypes, streams, history
<1> QED  BY <1>1, <1>3, <1>4, <1>5, <1>6

(* What game servers and logins do leaves the account server's store.      *)
StoreStays == UNCHANGED <<mailbuf, mailfile, mailid, running, dropped, strange>>

LEMMA ServerTypes ==
    ASSUME TypesHold, UNCHANGED strange, NEW s \in GameServer,
           \/ serverLogin(s) \/ serverGone(s) \/ ServerStarts(s) \/ ServerStops(s)
    PROVE  TypesHold' /\ StoreStays
<1> USE DEF TypesHold
<1>1. CASE serverLogin(s)
    <2>1. fromGs' \in [GameServer -> Seq(ToSaac)]
        BY <1>1, LineReads DEF serverLogin
    <2> QED  BY <1>1, <2>1 DEF serverLogin, MailTypes, StoreStays, store, history
<1>2. CASE serverGone(s)
    BY <1>2 DEF serverGone, MailTypes, StoreStays, store, streams, history
<1>3. CASE ServerStarts(s)
    <2>1. fromGs' \in [GameServer -> Seq(ToSaac)]
        BY <1>3, LineKinds, MeetsOne, LinesSent DEF ServerStarts
    <2> QED  BY <1>3, <2>1 DEF ServerStarts, MailTypes, StoreStays, store, history
<1>4. CASE ServerStops(s)
    <2>1. /\ fromGs' \in [GameServer -> Seq(ToSaac)]
          /\ toGs' \in [GameServer -> Seq(ToGame)]
        BY <1>4, StopCuts
    <2>2. stops' \in 0 .. MaxStops
        BY <1>4 DEF ServerStops, MailTypes
    <2> QED  BY <1>4, <2>1, <2>2 DEF ServerStops, MailTypes, StoreStays, store
<1> QED  BY <1>1, <1>2, <1>3, <1>4

LEMMA PlayerTypes ==
    ASSUME TypesHold, UNCHANGED strange, NEW s \in GameServer, NEW p \in Player,
           PlayerIn(p, s) \/ PlayerOut(p, s)
    PROVE  TypesHold' /\ StoreStays
<1> USE DEF TypesHold
<1>1. CASE PlayerIn(p, s)
    <2>1. LinesTo(s, <<Flush(p)>>)
        BY <1>1 DEF PlayerIn, Flush
    <2>2. fromGs' \in [GameServer -> Seq(ToSaac)]
        BY <2>1, LineKinds, MeetsOne, LinesSent
    <2>3. logins' \in 0 .. MaxLogins
        BY <1>1 DEF PlayerIn, MailTypes
    <2> QED  BY <1>1, <2>2, <2>3 DEF PlayerIn, MailTypes, StoreStays, store, history
<1>2. CASE PlayerOut(p, s)
    BY <1>2 DEF PlayerOut, MailTypes, StoreStays, store, streams
<1> QED  BY <1>1, <1>2

(* A letter that is not for this server is written to the account server.  *)
LEMMA SendSends ==
    ASSUME MailTypes, NEW s \in GameServer, SendLetter(s),
           NEW m, m = <<written + 1, "letter">>
    PROVE  /\ m \in Letters /\ m \in Mails /\ m[1] = written + 1
           /\ written' = written + 1 /\ written' \in 0 .. MaxLetter
           /\ fromGs' \in [GameServer -> Seq(ToSaac)]
           /\ \/ LinesTo(s, <<Message(m)>>) /\ UNCHANGED seen
              \/ seen' = [seen EXCEPT ![m] = @ + 1] /\ UNCHANGED fromGs
<1>1. written + 1 \in Letter
    BY DEF SendLetter
<1>2. m \in Letters /\ m \in Mails /\ m[1] = written + 1
    BY <1>1 DEF Letters, Mails
<1>3. written' = written + 1 /\ written' \in 0 .. MaxLetter
    BY <1>1 DEF SendLetter, Letter
<1>4. \/ LinesTo(s, <<Message(m)>>) /\ UNCHANGED seen
      \/ seen' = [seen EXCEPT ![m] = @ + 1] /\ UNCHANGED fromGs
    BY DEF SendLetter, Message
<1>5. LinesTo(s, <<Message(m)>>) => fromGs' \in [GameServer -> Seq(ToSaac)]
    BY <1>2, LineKinds, MeetsOne, LinesSent
<1> QED  BY <1>2, <1>3, <1>4, <1>5 DEF MailTypes

(* A line is taken; for a player in the table it is acknowledged, last.    *)
TakenAway(s) == UNCHANGED <<seen, fromGs>>
TakenIn(s, m, id) ==
    /\ Recipient(m) \in here[s]
    /\ seen' = [seen EXCEPT ![m] = @ + 1]
    /\ \/ LinesTo(s, <<Ack(Recipient(m), id)>>)
       \/ LinesTo(s, <<Message(<<m[1], "note">>), Ack(Recipient(m), id)>>)

LEMMA TakeTakes ==
    ASSUME MailTypes, NEW s \in GameServer, takeMessage(s),
           NEW m, m = Head(toGs[s]).mail, NEW id, id = Head(toGs[s]).id
    PROVE  /\ m \in Mails /\ id \in Nat /\ Head(toGs[s]) = MailLine(m, id)
           /\ toGs' \in [GameServer -> Seq(ToGame)] /\ NoneToGame
           /\ fromGs' \in [GameServer -> Seq(ToSaac)]
           /\ seen' \in [Mails -> Nat]
           /\ TakenAway(s) \/ TakenIn(s, m, id)
<1>1. toGs[s] # <<>> /\ toGs' = [toGs EXCEPT ![s] = Tail(@)]
    BY DEF takeMessage
<1>2. /\ Head(toGs[s]) \in ToGame
      /\ toGs' \in [GameServer -> Seq(ToGame)] /\ NoneToGame
    BY <1>1, GameReads
<1>3. m \in Mails /\ id \in Nat /\ Head(toGs[s]) = MailLine(m, id)
    BY <1>2 DEF ToGame, MailLine
<1>4. TakenAway(s) \/ TakenIn(s, m, id)
    BY DEF takeMessage, TakenAway, TakenIn, Ack, Message
<1>5. CASE TakenAway(s)
    BY <1>2, <1>3, <1>4, <1>5 DEF TakenAway, MailTypes
<1>6. CASE TakenIn(s, m, id)
    <2>1. Recipient(m) \in Player /\ <<m[1], "note">> \in Mails
        BY <1>3, RecipientTypes DEF Mails
    <2>2. /\ Ack(Recipient(m), id) \in ToSaac
          /\ Message(<<m[1], "note">>) \in ToSaac
        BY <1>3, <2>1, LineKinds
    <2>3. /\ <<Ack(Recipient(m), id)>> \in Seq(ToSaac)
          /\ <<Message(<<m[1], "note">>), Ack(Recipient(m), id)>> \in Seq(ToSaac)
        BY <2>2
    <2>4. fromGs' \in [GameServer -> Seq(ToSaac)]
        BY <1>6, <2>3, LinesSent DEF TakenIn
    <2>5. seen' \in [Mails -> Nat]
        BY <1>3, <1>6 DEF TakenIn, MailTypes
    <2> QED  BY <1>2, <1>3, <1>4, <2>4, <2>5
<1> QED  BY <1>4, <1>5, <1>6

LEMMA LetterTypes ==
    ASSUME TypesHold, UNCHANGED strange, NEW s \in GameServer,
           SendLetter(s) \/ takeMessage(s)
    PROVE  TypesHold' /\ StoreStays
<1> USE DEF TypesHold
<1>1. CASE SendLetter(s)
    <2> DEFINE m == <<written + 1, "letter">>
    <2>1. /\ m \in Mails
          /\ written' \in 0 .. MaxLetter
          /\ fromGs' \in [GameServer -> Seq(ToSaac)]
          /\ \/ UNCHANGED seen
             \/ seen' = [seen EXCEPT ![m] = @ + 1]
        BY <1>1, SendSends
    <2>2. seen' \in [Mails -> Nat]
        <3> HIDE DEF m
        <3>1. seen \in [Mails -> Nat]
            BY DEF MailTypes
        <3>2. CASE UNCHANGED seen
            BY <3>1, <3>2
        <3>3. CASE seen' = [seen EXCEPT ![m] = @ + 1]
            BY <2>1, <3>1, <3>3
        <3> QED  BY <2>1, <3>2, <3>3
    <2> HIDE DEF m
    <2> QED  BY <1>1, <2>1, <2>2 DEF SendLetter, MailTypes, StoreStays, store
<1>2. CASE takeMessage(s)
    <2>1. /\ toGs' \in [GameServer -> Seq(ToGame)]
          /\ fromGs' \in [GameServer -> Seq(ToSaac)]
          /\ seen' \in [Mails -> Nat]
        BY <1>2, TakeTakes
    <2> QED  BY <1>2, <2>1 DEF takeMessage, MailTypes, StoreStays, store
<1> QED  BY <1>1, <1>2

LEMMA NextTypes == TypesHold /\ [MailNext]_mailVars => TypesHold'
<1> SUFFICES ASSUME TypesHold, [MailNext]_mailVars  PROVE TypesHold'
    OBVIOUS
<1>1. CASE MailNext
    <2>1. MailStep /\ UNCHANGED strange
        BY <1>1 DEF MailNext
    <2> QED  BY <2>1, ReceiveTypes, NoFileTypes, AckTypes, FlushTypes, StopTypes,
                ServerTypes, PlayerTypes, LetterTypes DEF MailStep
<1>2. CASE UNCHANGED mailVars
    BY <1>2 DEF mailVars, TypesHold, MailTypes
<1> QED  BY <1>1, <1>2

(***************************************************************************)
(* Numbers                                                                 *)
(***************************************************************************)
(* A step gives out no number, or gives one to a mail.                     *)
NoNewName ==
    /\ mailid' = mailid
    /\ \A m \in Mails : \A id \in Nat : Named(m, id)' => Named(m, id)
NewName(n) ==
    /\ mailid' = mailid + 1
    /\ \A m \in Mails : \A id \in Nat :
          Named(m, id)' => Named(m, id) \/ (m = n /\ id = mailid)
Naming == NoNewName \/ \E n \in Mails : NewName(n)

LEMMA NumbersKept ==
    ASSUME MailTypes, Numbers, Naming
    PROVE  Numbers'
<1>1. mailid \in Nat
    BY DEF MailTypes
<1>2. CASE NoNewName
    BY <1>1, <1>2 DEF NoNewName, Numbers
<1>3. ASSUME NEW n \in Mails, NewName(n)  PROVE Numbers'
    <2>1. ASSUME NEW m \in Mails, NEW id \in Nat, Named(m, id)'
          PROVE  id < mailid'
        <3>1. Named(m, id) \/ id = mailid
            BY <1>3, <2>1 DEF NewName
        <3> QED  BY <1>1, <1>3, <3>1 DEF NewName, Numbers
    <2>2. ASSUME NEW m \in Mails, NEW l \in Mails, NEW id \in Nat,
                 Named(m, id)', Named(l, id)'
          PROVE  m = l
        <3>1. /\ Named(m, id) \/ (m = n /\ id = mailid)
              /\ Named(l, id) \/ (l = n /\ id = mailid)
            BY <1>3, <2>2 DEF NewName
        <3>2. Named(m, id) \/ Named(l, id) => id # mailid
            BY <1>1 DEF Numbers
        <3> QED  BY <3>1, <3>2 DEF Numbers
    <2> QED  BY <2>1, <2>2 DEF Numbers
<1> QED  BY <1>2, <1>3 DEF Naming

NoAckSent ==
    \A s \in GameServer : \A p \in Player : \A id \in Nat :
        Meets(fromGs'[s], {Ack(p, id)}) => Meets(fromGs[s], {Ack(p, id)})
NoneUnseen == \A m \in Mails : seen[m] > 0 => seen'[m] > 0

(* A number that was given out names no other mail later.                  *)
LEMMA OldNumbers ==
    ASSUME MailTypes, Naming, NEW m \in Mails, NEW id \in Nat, id < mailid, Named(m, id)'
    PROVE  Named(m, id)
BY DEF Naming, NoNewName, NewName, MailTypes

LEMMA MailidGrows == MailTypes /\ Naming => \A id \in Nat : id < mailid => id < mailid'
BY DEF Naming, NoNewName, NewName, MailTypes

LEMMA AcksKept ==
    ASSUME MailTypes, AcksSeen, Naming, NoAckSent, NoneUnseen
    PROVE  AcksSeen'
<1> SUFFICES ASSUME NEW s \in GameServer, NEW p \in Player, NEW id \in Nat,
                    Meets(fromGs'[s], {Ack(p, id)})
             PROVE  id < mailid' /\ \A m \in Mails : Named(m, id)' => seen'[m] > 0
    BY DEF AcksSeen
<1>1. Meets(fromGs[s], {Ack(p, id)})
    BY DEF NoAckSent
<1>2. id < mailid /\ \A m \in Mails : Named(m, id) => seen[m] > 0
    BY <1>1 DEF AcksSeen
<1>3. \A m \in Mails : Named(m, id)' => Named(m, id)
    BY <1>2, OldNumbers
<1>4. id < mailid'
    BY <1>2, MailidGrows
<1> QED  BY <1>2, <1>3, <1>4 DEF NoneUnseen

(* Where a mail's number is found after a step.                            *)
LEMMA LinesStay == NoneToGame \/ UNCHANGED toGs =>
                      \A m \in Mails : \A id \in Nat : LineNames(m, id)' => LineNames(m, id)
BY DEF NoneToGame, LineNames

LEMMA FilesStay ==
    mailfile' \subseteq mailfile =>
        \A m \in Mails : \A id \in Nat : FileNames(m, id)' => FileNames(m, id)
BY DEF FileNames

LEMMA StoreNames ==
    ASSUME StoreStays, NoneToGame \/ UNCHANGED toGs
    PROVE  NoNewName
<1>1. \A m \in Mails : \A id \in Nat : LineNames(m, id)' => LineNames(m, id)
    BY LinesStay
<1>2. \A m \in Mails : \A id \in Nat : FileNames(m, id)' => FileNames(m, id)
    BY DEF StoreStays, FileNames
<1>3. \A m \in Mails : \A id \in Nat : SlotNames(m, id)' => SlotNames(m, id)
    BY DEF StoreStays, SlotNames, Slots
<1> QED  BY <1>1, <1>2, <1>3 DEF NoNewName, Named, StoreStays

LEMMA PutNames ==
    ASSUME NEW n \in Mails, NEW sent, NEW k, PutIn(k, n, sent),
           NEW m \in Mails, NEW id \in Nat, SlotNames(m, id)'
    PROVE  SlotNames(m, id) \/ (m = n /\ id = mailid)
<1>1. PICK i \in DOMAIN (mailbuf') : mailbuf'[i].mail = m /\ mailbuf'[i].id = id
    BY DEF SlotNames, Slots
<1>2. CASE i = k
    BY <1>1, <1>2 DEF PutIn, NewId
<1>3. CASE i # k
    <2>1. mailbuf'[i] # FreeSlot
        BY <1>1, NoFreeMail
    <2>2. i \in Slots /\ mailbuf'[i] = mailbuf[i]
        BY <1>3, <2>1 DEF PutIn
    <2> QED  BY <1>1, <2>2 DEF SlotNames
<1> QED  BY <1>2, <1>3

LEMMA NewFileNames ==
    ASSUME NEW n \in Mails, NEW w, mailfile' = Unlinked(n, NewId) \union
                                       {[mail |-> n, id |-> NewId, whole |-> w]},
           NEW m \in Mails, NEW id \in Nat, FileNames(m, id)'
    PROVE  FileNames(m, id) \/ (m = n /\ id = mailid)
BY DEF FileNames, Unlinked, NewId

LEMMA ReceiveNames ==
    ASSUME MailTypes, NEW s \in GameServer,
           receiveMail(s) \/ receiveMailNoFile(s)
    PROVE  NewName(Head(fromGs[s]).mail) /\ Head(fromGs[s]).mail \in Mails
<1> DEFINE n == Head(fromGs[s]).mail
<1>1. n \in Mails
    BY LineReads, LineKinds DEF receiveMail, receiveMailNoFile
<1>2. mailid' = mailid + 1
    BY DEF receiveMail, receiveMailNoFile, CountId
<1>3. PICK sent \in BOOLEAN : InSlot(n, sent)
    BY DEF receiveMail, receiveMailNoFile
<1> HIDE DEF n
<1>4. PICK k \in Nat : PutIn(k, n, sent)
    BY <1>1, <1>3, InSlotPuts
<1>5. ASSUME NEW m \in Mails, NEW id \in Nat, SlotNames(m, id)'
      PROVE  SlotNames(m, id) \/ (m = n /\ id = mailid)
    BY <1>1, <1>4, <1>5, PutNames
<1>6. ASSUME NEW m \in Mails, NEW id \in Nat, FileNames(m, id)'
      PROVE  FileNames(m, id) \/ (m = n /\ id = mailid)
    <2>1. CASE receiveMail(s)
        <3>1. mailfile' = Unlinked(n, NewId) \union {[mail |-> n, id |-> NewId, whole |-> TRUE]}
            BY <2>1 DEF receiveMail, Saved, n
        <3> QED  BY <1>1, <1>6, <3>1, NewFileNames
    <2>2. CASE receiveMailNoFile(s)
        BY <2>2, <1>6 DEF receiveMailNoFile, FileNames
    <2> QED  BY <2>1, <2>2
<1>7. ASSUME NEW m \in Mails, NEW id \in Nat, LineNames(m, id)'
      PROVE  LineNames(m, id) \/ (m = n /\ id = mailid)
    <2>1. CASE receiveMail(s)
        <3>1. PICK t \in GameServer : Meets(toGs'[t], {MailLine(m, id)})
            BY <1>7 DEF LineNames
        <3>2. \/ Meets(toGs[t], {MailLine(m, id)})
              \/ MailLine(n, NewId) \in {MailLine(m, id)}
            BY <2>1, <3>1, ReceiveSends DEF n
        <3> QED  BY <3>2 DEF LineNames, MailLine, NewId
    <2>2. CASE receiveMailNoFile(s)
        BY <2>2, <1>7 DEF receiveMailNoFile, LineNames
    <2> QED  BY <2>1, <2>2
<1>8. NewName(n)
    BY <1>2, <1>5, <1>6, <1>7 DEF NewName, Named
<1> QED  BY <1>1, <1>8 DEF n

LEMMA AckNames ==
    ASSUME MailTypes, NEW s \in GameServer, receiveMailAck(s)
    PROVE  NoNewName
<1>1. mailid' = mailid /\ UNCHANGED toGs
    BY DEF receiveMailAck
<1>2. CASE UNCHANGED <<mailbuf, mailfile>>
    BY <1>1, <1>2 DEF NoNewName, Named, FileNames, SlotNames, LineNames, Slots
<1>3. ASSUME NEW i \in Slots, Freed(i)  PROVE NoNewName
    <2>1. \A m \in Mails : \A id \in Nat : FileNames(m, id)' => FileNames(m, id)
        BY <1>3, FilesStay DEF Freed, Unlinked
    <2>2. ASSUME NEW m \in Mails, NEW id \in Nat, SlotNames(m, id)'
          PROVE  SlotNames(m, id)
        <3>1. PICK j \in DOMAIN (mailbuf') : mailbuf'[j].mail = m /\ mailbuf'[j].id = id
            BY <2>2 DEF SlotNames, Slots
        <3>2. j \in Slots /\ (j # i => mailbuf'[j] = mailbuf[j]) /\ mailbuf'[i] = FreeSlot
            BY <1>3 DEF Freed, Slots
        <3>3. j # i
            BY <3>1, <3>2, NoFreeMail
        <3> QED  BY <3>1, <3>2, <3>3 DEF SlotNames
    <2>3. \A m \in Mails : \A id \in Nat : LineNames(m, id)' => LineNames(m, id)
        BY <1>1, LinesStay
    <2> QED  BY <1>1, <2>1, <2>2, <2>3 DEF NoNewName, Named
<1> QED  BY <1>2, <1>3, AckFrees

LEMMA FlushNames ==
    ASSUME MailTypes, NEW s \in GameServer, flushMail(s)
    PROVE  NoNewName
<1>1. mailid' = mailid /\ UNCHANGED mailfile
    BY DEF flushMail
<1>2. \A m \in Mails : \A id \in Nat : FileNames(m, id)' => FileNames(m, id)
    BY <1>1, FilesStay
<1>3. \A m \in Mails : \A id \in Nat : SlotNames(m, id)' => SlotNames(m, id)
    BY FlushSends DEF SlotNames, Slots
<1>4. ASSUME NEW m \in Mails, NEW id \in Nat, LineNames(m, id)'
      PROVE  LineNames(m, id) \/ SlotNames(m, id)
    <2>1. PICK t \in GameServer : Meets(toGs'[t], {MailLine(m, id)})
        BY <1>4 DEF LineNames
    <2>2. CASE Meets(toGs[t], {MailLine(m, id)})
        BY <2>2 DEF LineNames
    <2>3. CASE ~Meets(toGs[t], {MailLine(m, id)})
        <3>1. t = s
            BY <2>1, <2>3, FlushSends
        <3>2. \E i \in Slots : MailLine(mailbuf[i].mail, mailbuf[i].id) \in {MailLine(m, id)}
            BY <2>1, <2>3, <3>1, FlushSends
        <3> QED  BY <3>2 DEF SlotNames, MailLine
    <2> QED  BY <2>2, <2>3
<1> QED  BY <1>1, <1>2, <1>3, <1>4 DEF NoNewName, Named

LEMMA ExpireNames == MailTypes /\ expireMail => NoNewName
<1> SUFFICES ASSUME MailTypes, expireMail  PROVE NoNewName
    OBVIOUS
<1>1. mailid' = mailid /\ UNCHANGED toGs
    BY DEF expireMail, streams
<1>2. PICK E : Expired(E)
    BY ExpireFrees
<1>3. \A m \in Mails : \A id \in Nat : FileNames(m, id)' => FileNames(m, id)
    BY <1>2, FilesStay DEF Expired
<1>4. ASSUME NEW m \in Mails, NEW id \in Nat, SlotNames(m, id)'
      PROVE  SlotNames(m, id)
    <2>1. PICK j \in DOMAIN (mailbuf') : mailbuf'[j].mail = m /\ mailbuf'[j].id = id
        BY <1>4 DEF SlotNames, Slots
    <2>2. j \in Slots /\ mailbuf'[j] = mailbuf[j]
        BY <1>2, <2>1, NoFreeMail DEF Expired
    <2> QED  BY <2>1, <2>2 DEF SlotNames
<1>5. \A m \in Mails : \A id \in Nat : LineNames(m, id)' => LineNames(m, id)
    BY <1>1, LinesStay
<1> QED  BY <1>1, <1>3, <1>4, <1>5 DEF NoNewName, Named

LEMMA StoppedNames ==
    ASSUME AllStop
    PROVE  \A m \in Mails : \A id \in Nat : ~SlotNames(m, id)' /\ ~LineNames(m, id)'
<1>1. mailbuf' = <<>> /\ \A t \in GameServer : toGs'[t] = <<>>
    BY AllCut DEF AllStop
<1> QED  BY <1>1, MeetsNone DEF SlotNames, LineNames, Slots

LEMMA SaacStopsNames == SaacStops => NoNewName
<1> SUFFICES ASSUME SaacStops  PROVE NoNewName
    OBVIOUS
<1>1. AllStop /\ UNCHANGED <<mailfile, mailid>>
    BY DEF SaacStops
<1>2. \A m \in Mails : \A id \in Nat : FileNames(m, id)' => FileNames(m, id)
    BY <1>1, FilesStay
<1> QED  BY <1>1, <1>2, StoppedNames DEF NoNewName, Named

LEMMA WritingNames ==
    ASSUME MailTypes, NEW s \in GameServer, SaacStopsWriting(s)
    PROVE  /\ NewName(Head(fromGs[s]).mail) /\ Head(fromGs[s]).mail \in Mails
           /\ Head(fromGs[s]) \in ToSaac
<1> DEFINE n == Head(fromGs[s]).mail
<1>1. fromGs[s] \in Seq(ToSaac) /\ fromGs[s] # <<>> /\ Head(fromGs[s]).op = "message"
    BY DEF SaacStopsWriting, MailTypes
<1>2. Head(fromGs[s]) \in ToSaac
    BY <1>1, MeetsTail
<1>3. n \in Mails
    BY <1>1, <1>2, LineKinds
<1>4. /\ AllStop /\ mailid' = mailid + 1
      /\ mailfile' = Unlinked(n, NewId) \union {[mail |-> n, id |-> NewId, whole |-> FALSE]}
    BY DEF SaacStopsWriting, CountId
<1> HIDE DEF n
<1>5. \A m \in Mails : \A id \in Nat :
          FileNames(m, id)' => FileNames(m, id) \/ (m = n /\ id = mailid)
    BY <1>3, <1>4, NewFileNames
<1>6. NewName(n)
    BY <1>4, <1>5, StoppedNames DEF NewName, Named
<1> QED  BY <1>2, <1>3, <1>6 DEF n

LEMMA ReadingNames == MailTypes /\ SaacStopsReading => NoNewName
<1> SUFFICES ASSUME MailTypes, SaacStopsReading  PROVE NoNewName
    OBVIOUS
<1>1. UNCHANGED <<mailbuf, mailid, toGs>>
    BY DEF SaacStopsReading, streams
<1>2. PICK f \in mailfile : mailfile' = (mailfile \ {f}) \union {[f EXCEPT !.whole = FALSE]}
    BY DEF SaacStopsReading
<1>3. f \in [mail : Mails, id : Nat, whole : BOOLEAN]
    BY DEF MailTypes
<1>4. [f EXCEPT !.whole = FALSE].mail = f.mail /\ [f EXCEPT !.whole = FALSE].id = f.id
    BY <1>3
<1>5. \A m \in Mails : \A id \in Nat : FileNames(m, id)' => FileNames(m, id)
    BY <1>2, <1>4 DEF FileNames
<1>6. \A m \in Mails : \A id \in Nat : SlotNames(m, id)' => SlotNames(m, id)
    BY <1>1 DEF SlotNames, Slots
<1>7. \A m \in Mails : \A id \in Nat : LineNames(m, id)' => LineNames(m, id)
    BY <1>1, LinesStay
<1> QED  BY <1>1, <1>5, <1>6, <1>7 DEF NoNewName, Named

LEMMA StartsNames == TypesHold /\ SaacStarts => NoNewName
<1> SUFFICES ASSUME TypesHold, SaacStarts  PROVE NoNewName
    OBVIOUS
<1>1. UNCHANGED <<mailfile, mailid, toGs>>
    BY DEF SaacStarts, streams
<1>2. PICK place : Filled(place)
    BY StartFills DEF TypesHold
<1>3. \A m \in Mails : \A id \in Nat : FileNames(m, id)' => FileNames(m, id)
    BY <1>1, FilesStay
<1>4. ASSUME NEW m \in Mails, NEW id \in Nat, SlotNames(m, id)'
      PROVE  FileNames(m, id)
    <2>1. PICK j \in DOMAIN (mailbuf') : mailbuf'[j].mail = m /\ mailbuf'[j].id = id
        BY <1>4 DEF SlotNames, Slots
    <2>2. PICK f \in WholeFiles : place[f] = j
        BY <1>2, <2>1, NoFreeMail DEF Filled
    <2>3. mailbuf'[j] = Read(f)
        BY <1>2, <2>2 DEF Filled
    <2> QED  BY <2>1, <2>2, <2>3 DEF FileNames, WholeFiles, Read
<1>5. \A m \in Mails : \A id \in Nat : LineNames(m, id)' => LineNames(m, id)
    BY <1>1, LinesStay
<1> QED  BY <1>1, <1>3, <1>4, <1>5 DEF NoNewName, Named

(* What servers and players do leaves the lines to game servers, or takes  *)
(* some away.                                                              *)
LEMMA LinesKept ==
    ASSUME MailTypes, NEW s \in GameServer,
           \/ serverLogin(s) \/ serverGone(s) \/ ServerStarts(s) \/ ServerStops(s)
           \/ SendLetter(s) \/ takeMessage(s)
           \/ \E p \in Player : PlayerIn(p, s) \/ PlayerOut(p, s)
    PROVE  NoneToGame \/ UNCHANGED toGs
<1>1. CASE ServerStops(s)
    BY <1>1, StopCuts
<1>2. CASE takeMessage(s)
    BY <1>2, TakeTakes
<1>3. CASE \/ serverLogin(s) \/ serverGone(s) \/ ServerStarts(s) \/ SendLetter(s)
           \/ \E p \in Player : PlayerIn(p, s) \/ PlayerOut(p, s)
    BY <1>3 DEF serverLogin, serverGone, ServerStarts, SendLetter, PlayerIn, PlayerOut, streams
<1> QED  BY <1>1, <1>2, <1>3

LEMMA NextNames == TypesHold /\ MailNext => Naming
<1> SUFFICES ASSUME TypesHold, MailNext  PROVE Naming
    OBVIOUS
<1>1. MailTypes /\ UNCHANGED strange /\ MailStep
    BY DEF TypesHold, MailNext
<1>2. CASE expireMail \/ SaacStops \/ SaacStopsReading \/ SaacStarts
    BY <1>1, <1>2, ExpireNames, SaacStopsNames, ReadingNames, StartsNames DEF Naming
<1>3. ASSUME NEW s \in GameServer,
             \/ receiveMail(s) \/ receiveMailNoFile(s) \/ receiveMailAck(s) \/ flushMail(s)
             \/ SaacStopsWriting(s)
      PROVE  Naming
    BY <1>1, <1>3, ReceiveNames, AckNames, FlushNames, WritingNames DEF Naming
<1>4. ASSUME NEW s \in GameServer,
             \/ serverLogin(s) \/ serverGone(s) \/ ServerStarts(s) \/ ServerStops(s)
             \/ SendLetter(s) \/ takeMessage(s)
             \/ \E p \in Player : PlayerIn(p, s) \/ PlayerOut(p, s)
      PROVE  Naming
    <2>1. StoreStays
        BY <1>1, <1>4, ServerTypes, LetterTypes, PlayerTypes
    <2> QED  BY <1>1, <1>4, <2>1, LinesKept, StoreNames DEF Naming
<1> QED  BY <1>1, <1>2, <1>3, <1>4 DEF MailStep

(***************************************************************************)
(* Acknowledgements                                                        *)
(***************************************************************************)
(* All steps but a game server's taking of a line leave both.              *)
LEMMA AckKinds ==
    ASSUME NEW p \in Player, NEW id \in Nat
    PROVE  /\ \A m \in Mails : Message(m) \notin {Ack(p, id)}
           /\ \A q \in Player : Flush(q) \notin {Ack(p, id)}
           /\ [op |-> "login"] \notin {Ack(p, id)}
BY DEF Message, Flush, Ack

LEMMA NoneSentNoAck == NoneSent \/ UNCHANGED fromGs => NoAckSent
BY DEF NoneSent, NoAckSent

LEMMA ServerSends ==
    ASSUME MailTypes, NEW s \in GameServer,
           \/ receiveMail(s) \/ receiveMailNoFile(s) \/ receiveMailAck(s) \/ flushMail(s)
           \/ serverLogin(s) \/ serverGone(s) \/ SaacStopsWriting(s) \/ ServerStops(s)
    PROVE  NoneSent \/ UNCHANGED fromGs
<1>1. Line(s) => NoneSent
    BY LineReads
<1>2. CASE \/ receiveMail(s) \/ receiveMailNoFile(s) \/ receiveMailAck(s) \/ flushMail(s)
           \/ serverLogin(s)
    <2>1. Line(s)
        BY <1>2 DEF receiveMail, receiveMailNoFile, receiveMailAck, flushMail, serverLogin
    <2> QED  BY <1>1, <2>1
<1>3. CASE serverGone(s)
    BY <1>3 DEF serverGone, streams
<1>4. CASE SaacStopsWriting(s)
    BY <1>4, AllCut DEF SaacStopsWriting
<1>5. CASE ServerStops(s)
    BY <1>5, StopCuts
<1> QED  BY <1>2, <1>3, <1>4, <1>5

LEMMA OthersSend ==
    ASSUME MailTypes, expireMail \/ SaacStops \/ SaacStopsReading \/ SaacStarts
    PROVE  NoneSent \/ UNCHANGED fromGs
BY AllCut DEF expireMail, SaacStops, SaacStopsReading, SaacStarts, streams

LEMMA NoAckWritten ==
    ASSUME MailTypes, NEW s \in GameServer,
           ServerStarts(s) \/ SendLetter(s) \/ \E p \in Player : PlayerIn(p, s) \/ PlayerOut(p, s)
    PROVE  NoAckSent
<1>1. ASSUME NEW x \in ToSaac, LinesTo(s, <<x>>),
             \A p \in Player : \A id \in Nat : x \notin {Ack(p, id)}
      PROVE  NoAckSent
    <2>1. /\ <<x>> \in Seq(ToSaac)
          /\ \A X : Meets(<<x>>, X) <=> x \in X
        BY MeetsOne
    <2>2. /\ \A t \in GameServer : t # s => fromGs'[t] = fromGs[t]
          /\ \A X : Meets(fromGs'[s], X) <=> Meets(fromGs[s], X) \/ Meets(<<x>>, X)
        BY <1>1, <2>1, LinesSent
    <2> QED  BY <1>1, <2>1, <2>2 DEF NoAckSent
<1>2. CASE ServerStarts(s)
    BY <1>1, <1>2, LineKinds, AckKinds DEF ServerStarts
<1>3. CASE SendLetter(s)
    <2> DEFINE m == <<written + 1, "letter">>
    <2>1. /\ m \in Mails
          /\ LinesTo(s, <<Message(m)>>) \/ UNCHANGED fromGs
        BY <1>3, SendSends
    <2> HIDE DEF m
    <2>2. CASE LinesTo(s, <<Message(m)>>)
        BY <1>1, <2>1, <2>2, LineKinds, AckKinds
    <2> QED  BY <2>1, <2>2, NoneSentNoAck
<1>4. ASSUME NEW p \in Player, PlayerIn(p, s)  PROVE NoAckSent
    <2>1. LinesTo(s, <<Flush(p)>>)
        BY <1>4 DEF PlayerIn, Flush
    <2> QED  BY <1>1, <2>1, LineKinds, AckKinds
<1>5. ASSUME NEW p \in Player, PlayerOut(p, s)  PROVE NoAckSent
    BY <1>5, NoneSentNoAck DEF PlayerOut, streams
<1> QED  BY <1>2, <1>3, <1>4, <1>5

SeenOnceMore(m) == seen' = [seen EXCEPT ![m] = @ + 1]

LEMMA MoreSeen ==
    ASSUME MailTypes, NEW m \in Mails, SeenOnceMore(m)
    PROVE  /\ NoneUnseen
           /\ seen'[m] = seen[m] + 1 /\ seen[m] \in Nat
           /\ \A n \in Mails : n # m => seen'[n] = seen[n]
<1>1. seen \in [Mails -> Nat]
    BY DEF MailTypes
<1>2. /\ seen'[m] = seen[m] + 1 /\ seen[m] \in Nat
      /\ \A n \in Mails : n # m => seen'[n] = seen[n]
    BY <1>1 DEF SeenOnceMore
<1>3. NoneUnseen
    <2> SUFFICES ASSUME NEW n \in Mails, seen[n] > 0  PROVE seen'[n] > 0
        BY DEF NoneUnseen
    <2>1. CASE n = m
        BY <1>2, <2>1
    <2>2. CASE n # m
        BY <1>2, <2>2
    <2> QED  BY <2>1, <2>2
<1> QED  BY <1>2, <1>3

LEMMA SeenStays == UNCHANGED seen => NoneUnseen
BY DEF NoneUnseen

LEMMA TakeAcks ==
    ASSUME TypesHold, Numbers, AcksSeen, NEW s \in GameServer, takeMessage(s), UNCHANGED strange
    PROVE  AcksSeen'
<1> DEFINE m == Head(toGs[s]).mail
           id == Head(toGs[s]).id
<1>1. MailTypes
    BY DEF TypesHold
<1>2. /\ m \in Mails /\ id \in Nat /\ Head(toGs[s]) = MailLine(m, id)
      /\ NoneToGame
      /\ TakenAway(s) \/ TakenIn(s, m, id)
    BY <1>1, TakeTakes
<1>3. NoNewName
    <2>1. StoreStays
        BY LetterTypes
    <2> QED  BY <1>2, <2>1, StoreNames
<1>4. Named(m, id)
    <2>1. toGs[s] # <<>> /\ toGs' = [toGs EXCEPT ![s] = Tail(@)]
        BY DEF takeMessage
    <2>2. Meets(toGs[s], {MailLine(m, id)})
        BY <1>1, <1>2, <2>1, GameReads
    <2> QED  BY <2>2 DEF Named, LineNames
<1> HIDE DEF m, id
<1>5. CASE TakenAway(s)
    BY <1>1, <1>3, <1>5, NoneSentNoAck, SeenStays, AcksKept DEF Naming, TakenAway
<1>6. CASE TakenIn(s, m, id)
    <2>1. /\ seen'[m] > 0 /\ NoneUnseen
        <3>1. SeenOnceMore(m)
            BY <1>6 DEF TakenIn, SeenOnceMore
        <3>2. seen'[m] = seen[m] + 1 /\ seen[m] \in Nat /\ NoneUnseen
            BY <1>1, <1>2, <3>1, MoreSeen
        <3> QED  BY <3>2
    <2>2. ASSUME NEW t \in GameServer, NEW p \in Player, NEW i \in Nat,
                 Meets(fromGs'[t], {Ack(p, i)})
          PROVE  Meets(fromGs[t], {Ack(p, i)}) \/ i = id
        <3>1. Recipient(m) \in Player /\ <<m[1], "note">> \in Mails
            BY <1>2, RecipientTypes DEF Mails
        <3>2. /\ Ack(Recipient(m), id) \in ToSaac
              /\ Message(<<m[1], "note">>) \in ToSaac
            BY <1>2, <3>1, LineKinds
        <3>3. PICK lines \in Seq(ToSaac) :
                  /\ LinesTo(s, lines)
                  /\ \A X : Meets(lines, X) =>
                        Ack(Recipient(m), id) \in X \/ Message(<<m[1], "note">>) \in X
            <4>1. CASE LinesTo(s, <<Ack(Recipient(m), id)>>)
                BY <3>2, <4>1, MeetsOne
            <4>2. CASE LinesTo(s, <<Message(<<m[1], "note">>), Ack(Recipient(m), id)>>)
                <5> DEFINE two == <<Message(<<m[1], "note">>), Ack(Recipient(m), id)>>
                <5>1. /\ two \in Seq(ToSaac)
                      /\ \A X : Meets(two, X) <=>
                            Message(<<m[1], "note">>) \in X \/ Ack(Recipient(m), id) \in X
                    BY <3>2, MeetsTwo
                <5>2. LinesTo(s, two)
                    BY <4>2
                <5> HIDE DEF two
                <5> QED  BY <5>1, <5>2
            <4> QED  BY <1>6, <4>1, <4>2 DEF TakenIn
        <3>4. /\ \A u \in GameServer : u # s => fromGs'[u] = fromGs[u]
              /\ \A X : Meets(fromGs'[s], X) <=> Meets(fromGs[s], X) \/ Meets(lines, X)
            BY <1>1, <3>3, LinesSent
        <3>5. Message(<<m[1], "note">>) \notin {Ack(p, i)}
            BY <3>1, AckKinds
        <3>6. Ack(Recipient(m), id) \in {Ack(p, i)} => i = id
            BY DEF Ack
        <3> QED  BY <2>2, <3>3, <3>4, <3>5, <3>6
    <2> SUFFICES ASSUME NEW t \in GameServer, NEW p \in Player, NEW i \in Nat,
                        Meets(fromGs'[t], {Ack(p, i)})
                 PROVE  i < mailid' /\ \A n \in Mails : Named(n, i)' => seen'[n] > 0
        BY DEF AcksSeen
    <2>3. CASE Meets(fromGs[t], {Ack(p, i)})
        <3>1. i < mailid /\ \A n \in Mails : Named(n, i) => seen[n] > 0
            BY <2>3 DEF AcksSeen
        <3> QED  BY <1>3, <2>1, <3>1 DEF NoNewName, NoneUnseen
    <2>4. CASE i = id
        <3>1. id < mailid /\ \A n \in Mails : Named(n, id) => n = m
            BY <1>2, <1>4 DEF Numbers
        <3> QED  BY <1>3, <2>1, <2>4, <3>1 DEF NoNewName
    <2> QED  BY <2>2, <2>3, <2>4
<1> QED  BY <1>2, <1>5, <1>6

LEMMA NextAcks == TypesHold /\ Numbers /\ AcksSeen /\ MailNext => AcksSeen'
<1> SUFFICES ASSUME TypesHold, Numbers, AcksSeen, MailNext  PROVE AcksSeen'
    OBVIOUS
<1>1. MailTypes /\ UNCHANGED strange /\ MailStep /\ Naming
    BY NextNames DEF TypesHold, MailNext
<1>2. CASE expireMail \/ SaacStops \/ SaacStopsReading \/ SaacStarts
    <2>1. UNCHANGED seen
        BY <1>2 DEF expireMail, SaacStops, AllStop, SaacStopsReading, SaacStarts, history
    <2>2. NoAckSent
        BY <1>1, <1>2, OthersSend, NoneSentNoAck
    <2> QED  BY <1>1, <2>1, <2>2, SeenStays, AcksKept
<1>3. ASSUME NEW s \in GameServer,
             \/ receiveMail(s) \/ receiveMailNoFile(s) \/ receiveMailAck(s) \/ flushMail(s)
             \/ serverLogin(s) \/ serverGone(s) \/ SaacStopsWriting(s) \/ ServerStops(s)
      PROVE  AcksSeen'
    <2>1. UNCHANGED seen
        BY <1>3 DEF receiveMail, receiveMailNoFile, receiveMailAck, flushMail, serverLogin,
                    serverGone, SaacStopsWriting, AllStop, ServerStops, history
    <2>2. NoAckSent
        BY <1>1, <1>3, ServerSends, NoneSentNoAck
    <2> QED  BY <1>1, <2>1, <2>2, SeenStays, AcksKept
<1>4. ASSUME NEW s \in GameServer,
             ServerStarts(s) \/ SendLetter(s) \/ \E p \in Player : PlayerIn(p, s) \/ PlayerOut(p, s)
      PROVE  AcksSeen'
    <2>1. NoAckSent
        BY <1>1, <1>4, NoAckWritten
    <2>2. NoneUnseen
        <3>1. CASE SendLetter(s)
            <4> DEFINE m == <<written + 1, "letter">>
            <4>1. m \in Mails /\ (UNCHANGED seen \/ SeenOnceMore(m))
                BY <1>1, <3>1, SendSends DEF SeenOnceMore
            <4> QED  BY <1>1, <4>1, MoreSeen, SeenStays
        <3>2. CASE ServerStarts(s) \/ \E p \in Player : PlayerIn(p, s) \/ PlayerOut(p, s)
            <4>1. UNCHANGED seen
                BY <3>2 DEF ServerStarts, PlayerIn, PlayerOut, history
            <4> QED  BY <4>1, SeenStays
        <3> QED  BY <1>4, <3>1, <3>2
    <2> QED  BY <1>1, <2>1, <2>2, AcksKept
<1>5. ASSUME NEW s \in GameServer, takeMessage(s)  PROVE AcksSeen'
    BY <1>1, <1>5, TakeAcks
<1> QED  BY <1>1, <1>2, <1>3, <1>4, <1>5 DEF MailStep

LEMMA NextAllDown == AllDown /\ MailNext => AllDown'
<1> SUFFICES ASSUME AllDown, MailNext, ~running'
             PROVE  /\ mailbuf' = <<>> /\ serving' = {}
                    /\ \A s \in GameServer : here'[s] = {} /\ toGs'[s] = <<>> /\ fromGs'[s] = <<>>
    BY DEF AllDown
<1>1. CASE AllStop
    BY <1>1, AllCut DEF AllStop
<1>2. CASE ~running /\ ~AllStop
    <2>1. /\ mailbuf = <<>> /\ serving = {}
          /\ \A s \in GameServer : here[s] = {} /\ toGs[s] = <<>> /\ fromGs[s] = <<>>
        BY <1>2 DEF AllDown
    <2>2. SaacStopsReading
        <3>1. MailStep /\ ~expireMail /\ ~SaacStops /\ ~SaacStarts
            BY <1>2 DEF MailNext, expireMail, SaacStops, SaacStarts
        <3>2. ASSUME NEW s \in GameServer
              PROVE  /\ ~receiveMail(s) /\ ~receiveMailNoFile(s) /\ ~receiveMailAck(s)
                     /\ ~flushMail(s) /\ ~serverLogin(s) /\ ~serverGone(s)
                     /\ ~SaacStopsWriting(s) /\ ~ServerStarts(s)
            BY <1>2 DEF receiveMail, receiveMailNoFile, receiveMailAck, flushMail, serverLogin,
                        serverGone, SaacStopsWriting, ServerStarts, Line
        <3>3. ASSUME NEW s \in GameServer
              PROVE  /\ ~ServerStops(s) /\ ~SendLetter(s) /\ ~takeMessage(s)
                     /\ \A p \in Player : ~PlayerIn(p, s) /\ ~PlayerOut(p, s)
            BY <2>1 DEF ServerStops, SendLetter, takeMessage, PlayerIn, PlayerOut
        <3> QED  BY <3>1, <3>2, <3>3 DEF MailStep
    <2> QED  BY <2>1, <2>2 DEF SaacStopsReading, streams
<1>3. CASE running /\ ~AllStop
    <2>1. UNCHANGED running
        BY <1>3 DEF MailNext, MailStep, expireMail, SaacStops, SaacStopsReading, SaacStarts,
                    receiveMail, receiveMailNoFile, receiveMailAck, flushMail, serverLogin,
                    serverGone, SaacStopsWriting, ServerStarts, ServerStops, SendLetter,
                    takeMessage, PlayerIn, PlayerOut
    <2> QED  BY <1>3, <2>1
<1> QED  BY <1>1, <1>2, <1>3

(***************************************************************************)
(* Files and memory                                                        *)
(***************************************************************************)
FileOf(m, id) == [mail |-> m, id |-> id, whole |-> TRUE]

(* FilesMatchMemory of a server that runs, by its parts.                   *)
SlotsDiffer ==
    \A i, j \in Slots : Used(i) /\ Used(j) /\ mailbuf[i].id = mailbuf[j].id => i = j
SlotsOnFile ==
    \A i \in Slots : Used(i) /\ mailbuf[i].mail \notin dropped =>
        FileOf(mailbuf[i].mail, mailbuf[i].id) \in mailfile
FilesInSlots ==
    \A f \in mailfile : f.whole =>
        \E i \in Slots : mailbuf[i].mail = f.mail /\ mailbuf[i].id = f.id
Match == SlotsDiffer /\ SlotsOnFile /\ FilesInSlots

LEMMA MatchIs == FilesMatchMemory <=> (running => Match)
BY DEF FilesMatchMemory, Match, SlotsDiffer, SlotsOnFile, FilesInSlots, FileOf

LEMMA SlotNumbers ==
    ASSUME MailTypes, Numbers, NEW i \in Slots, Used(i)
    PROVE  /\ mailbuf[i].mail \in Mails /\ mailbuf[i].id \in Nat
           /\ mailbuf[i].id < mailid /\ mailbuf[i].id # mailid
<1>1. mailbuf[i] \in Entry
    BY SlotsHold
<1>2. mailbuf[i].mail \in Mails /\ mailbuf[i].id \in Nat
    BY <1>1 DEF Entry
<1>3. Named(mailbuf[i].mail, mailbuf[i].id)
    BY DEF Named, SlotNames
<1>4. mailbuf[i].id < mailid
    BY <1>2, <1>3 DEF Numbers
<1> QED  BY <1>2, <1>4

LEMMA FileNumbers ==
    ASSUME MailTypes, Numbers, NEW f \in mailfile
    PROVE  /\ f.mail \in Mails /\ f.id \in Nat
           /\ f.id < mailid /\ f.id # mailid
           /\ f.whole => f = FileOf(f.mail, f.id)
<1>1. f \in [mail : Mails, id : Nat, whole : BOOLEAN]
    BY DEF MailTypes
<1>2. f.mail \in Mails /\ f.id \in Nat
    BY <1>1
<1>3. Named(f.mail, f.id)
    BY DEF Named, FileNames
<1>4. f.id < mailid
    BY <1>2, <1>3 DEF Numbers
<1>5. f.whole => f = FileOf(f.mail, f.id)
    BY <1>1 DEF FileOf
<1> QED  BY <1>2, <1>4, <1>5

(* A new slot and, unless the mail is dropped, a new file.                 *)
LEMMA PutMatches ==
    ASSUME MailTypes, Numbers, Match,
           NEW n \in Mails, NEW sent, NEW k \in Nat, PutIn(k, n, sent),
           \/ mailfile' = Saved(n, NewId) /\ UNCHANGED dropped
           \/ UNCHANGED mailfile /\ dropped' = dropped \union {n}
    PROVE  Match'
<1>1. mailbuf'[k].mail = n /\ mailbuf'[k].id = mailid /\ k \in DOMAIN (mailbuf')
    BY DEF PutIn, NewId
<1>2. ASSUME NEW i \in DOMAIN (mailbuf'), mailbuf'[i] # FreeSlot, i # k
      PROVE  i \in Slots /\ Used(i) /\ mailbuf'[i] = mailbuf[i]
    BY <1>2 DEF PutIn, Used
<1>3. \A f \in mailfile : f \in mailfile'
    BY FileNumbers DEF Saved, Unlinked, SameFile, NewId
<1>4. ASSUME NEW i \in DOMAIN (mailbuf'), NEW j \in DOMAIN (mailbuf'),
             mailbuf'[i] # FreeSlot, mailbuf'[j] # FreeSlot,
             mailbuf'[i].id = mailbuf'[j].id
      PROVE  i = j
    <2>1. CASE i # k /\ j # k
        BY <1>2, <1>4, <2>1 DEF Match, SlotsDiffer
    <2>2. CASE i = k /\ j # k
        <3>1. j \in Slots /\ Used(j) /\ mailbuf'[j] = mailbuf[j]
            BY <1>2, <1>4, <2>2
        <3> QED  BY <1>1, <1>4, <2>2, <3>1, SlotNumbers
    <2>3. CASE i # k /\ j = k
        <3>1. i \in Slots /\ Used(i) /\ mailbuf'[i] = mailbuf[i]
            BY <1>2, <1>4, <2>3
        <3> QED  BY <1>1, <1>4, <2>3, <3>1, SlotNumbers
    <2> QED  BY <2>1, <2>2, <2>3
<1>5. SlotsDiffer'
    BY <1>4 DEF SlotsDiffer, Slots, Used
<1>6. ASSUME NEW i \in DOMAIN (mailbuf'), mailbuf'[i] # FreeSlot,
             mailbuf'[i].mail \notin dropped'
      PROVE  FileOf(mailbuf'[i].mail, mailbuf'[i].id) \in mailfile'
    <2>1. CASE i = k
        <3>1. mailfile' = Saved(n, NewId)
            BY <1>1, <1>6, <2>1
        <3> QED  BY <1>1, <2>1, <3>1 DEF Saved, FileOf, NewId
    <2>2. CASE i # k
        <3>1. i \in Slots /\ Used(i) /\ mailbuf'[i] = mailbuf[i]
            BY <1>2, <1>6, <2>2
        <3>2. mailbuf[i].mail \notin dropped
            BY <1>6, <3>1
        <3> QED  BY <1>3, <3>1, <3>2 DEF Match, SlotsOnFile
    <2> QED  BY <2>1, <2>2
<1>7. SlotsOnFile'
    BY <1>6 DEF SlotsOnFile, Slots, Used, FileOf
<1>8. ASSUME NEW f \in mailfile', f.whole
      PROVE  \E i \in DOMAIN (mailbuf') : mailbuf'[i].mail = f.mail /\ mailbuf'[i].id = f.id
    <2>1. CASE f \in mailfile
        <3>1. PICK i \in Slots : mailbuf[i].mail = f.mail /\ mailbuf[i].id = f.id
            BY <1>8, <2>1 DEF Match, FilesInSlots
        <3>2. Used(i)
            BY <2>1, <3>1, FileNumbers, SlotsHold
        <3>3. i \in DOMAIN (mailbuf') /\ mailbuf'[i] = mailbuf[i]
            BY <3>2 DEF PutIn
        <3> QED  BY <3>1, <3>3
    <2>2. CASE f = FileOf(n, NewId)
        BY <1>1, <2>2 DEF FileOf, NewId
    <2> QED  BY <2>1, <2>2 DEF Saved, Unlinked, FileOf
<1>9. FilesInSlots'
    BY <1>8 DEF FilesInSlots, Slots
<1> QED  BY <1>5, <1>7, <1>9 DEF Match

LEMMA ExpiredMatches ==
    ASSUME MailTypes, Numbers, Match, NEW E, Expired(E)
    PROVE  Match'
<1>1. /\ \A i \in E : i \in Slots /\ Used(i)
      /\ DOMAIN (mailbuf') = Slots
      /\ \A i \in Slots : i \in E => mailbuf'[i] = FreeSlot
      /\ \A i \in Slots : i \notin E => mailbuf'[i] = mailbuf[i]
    BY DEF Expired
<1>2. \A i \in DOMAIN (mailbuf') : mailbuf'[i] # FreeSlot =>
          i \in Slots /\ Used(i) /\ i \notin E /\ mailbuf'[i] = mailbuf[i]
    BY <1>1 DEF Used
<1>3. SlotsDiffer'
    <2>1. ASSUME NEW i \in DOMAIN (mailbuf'), NEW j \in DOMAIN (mailbuf'),
                 mailbuf'[i] # FreeSlot, mailbuf'[j] # FreeSlot,
                 mailbuf'[i].id = mailbuf'[j].id
          PROVE  i = j
        BY <1>2, <2>1 DEF Match, SlotsDiffer
    <2> QED  BY <2>1 DEF SlotsDiffer, Slots, Used
<1>4. ASSUME NEW i \in DOMAIN (mailbuf'), mailbuf'[i] # FreeSlot,
             mailbuf'[i].mail \notin dropped'
      PROVE  FileOf(mailbuf'[i].mail, mailbuf'[i].id) \in mailfile'
    <2>1. i \in Slots /\ Used(i) /\ i \notin E /\ mailbuf'[i] = mailbuf[i]
        BY <1>2, <1>4
    <2>2. mailbuf[i].mail \notin dropped
        BY <1>4, <2>1 DEF Expired
    <2>3. FileOf(mailbuf[i].mail, mailbuf[i].id) \in mailfile
        BY <2>1, <2>2 DEF Match, SlotsOnFile
    <2>4. \A j \in E : mailbuf[j].id # mailbuf[i].id
        BY <1>1, <2>1 DEF Match, SlotsDiffer
    <2>5. \A j \in E : ~SameFile(FileOf(mailbuf[i].mail, mailbuf[i].id),
                                 mailbuf[j].mail, mailbuf[j].id)
        BY <2>4 DEF SameFile, FileOf
    <2> QED  BY <2>1, <2>3, <2>5 DEF Expired
<1>5. SlotsOnFile'
    BY <1>4 DEF SlotsOnFile, Slots, Used, FileOf
<1>6. ASSUME NEW f \in mailfile', f.whole
      PROVE  \E i \in DOMAIN (mailbuf') : mailbuf'[i].mail = f.mail /\ mailbuf'[i].id = f.id
    <2>1. f \in mailfile /\ \A i \in E : ~SameFile(f, mailbuf[i].mail, mailbuf[i].id)
        BY DEF Expired
    <2>2. PICK i \in Slots : mailbuf[i].mail = f.mail /\ mailbuf[i].id = f.id
        BY <1>6, <2>1 DEF Match, FilesInSlots
    <2>3. i \notin E
        BY <2>1, <2>2 DEF SameFile
    <2> QED  BY <1>1, <2>2, <2>3
<1>7. FilesInSlots'
    BY <1>6 DEF FilesInSlots, Slots
<1> QED  BY <1>3, <1>5, <1>7 DEF Match

(* What an acknowledgement frees has gone as what expires does, except     *)
(* that the mail is not dropped.                                           *)
LEMMA FreedMatches ==
    ASSUME MailTypes, Numbers, Match, NEW i \in Slots, Freed(i), UNCHANGED dropped
    PROVE  Match'
<1>1. /\ Used(i)
      /\ DOMAIN (mailbuf') = Slots
      /\ mailbuf'[i] = FreeSlot
      /\ \A j \in Slots : j # i => mailbuf'[j] = mailbuf[j]
    BY DEF Freed, Slots
<1>2. \A j \in DOMAIN (mailbuf') : mailbuf'[j] # FreeSlot =>
          j \in Slots /\ Used(j) /\ j # i /\ mailbuf'[j] = mailbuf[j]
    BY <1>1 DEF Used
<1>3. SlotsDiffer'
    <2>1. ASSUME NEW j \in DOMAIN (mailbuf'), NEW k \in DOMAIN (mailbuf'),
                 mailbuf'[j] # FreeSlot, mailbuf'[k] # FreeSlot,
                 mailbuf'[j].id = mailbuf'[k].id
          PROVE  j = k
        BY <1>2, <2>1 DEF Match, SlotsDiffer
    <2> QED  BY <2>1 DEF SlotsDiffer, Slots, Used
<1>4. ASSUME NEW j \in DOMAIN (mailbuf'), mailbuf'[j] # FreeSlot,
             mailbuf'[j].mail \notin dropped'
      PROVE  FileOf(mailbuf'[j].mail, mailbuf'[j].id) \in mailfile'
    <2>1. j \in Slots /\ Used(j) /\ j # i /\ mailbuf'[j] = mailbuf[j]
        BY <1>2, <1>4
    <2>2. FileOf(mailbuf[j].mail, mailbuf[j].id) \in mailfile
        BY <1>4, <2>1 DEF Match, SlotsOnFile
    <2>3. mailbuf[j].id # mailbuf[i].id
        BY <1>1, <2>1 DEF Match, SlotsDiffer
    <2>4. ~SameFile(FileOf(mailbuf[j].mail, mailbuf[j].id), mailbuf[i].mail, mailbuf[i].id)
        BY <2>3 DEF SameFile, FileOf
    <2> QED  BY <2>1, <2>2, <2>4 DEF Freed, Unlinked
<1>5. SlotsOnFile'
    BY <1>4 DEF SlotsOnFile, Slots, Used, FileOf
<1>6. ASSUME NEW f \in mailfile', f.whole
      PROVE  \E j \in DOMAIN (mailbuf') : mailbuf'[j].mail = f.mail /\ mailbuf'[j].id = f.id
    <2>1. f \in mailfile /\ ~SameFile(f, mailbuf[i].mail, mailbuf[i].id)
        BY DEF Freed, Unlinked
    <2>2. PICK j \in Slots : mailbuf[j].mail = f.mail /\ mailbuf[j].id = f.id
        BY <1>6, <2>1 DEF Match, FilesInSlots
    <2>3. j # i
        BY <2>1, <2>2 DEF SameFile
    <2> QED  BY <1>1, <2>2, <2>3
<1>7. FilesInSlots'
    BY <1>6 DEF FilesInSlots, Slots
<1> QED  BY <1>3, <1>5, <1>7 DEF Match

LEMMA FlushMatches ==
    ASSUME MailTypes, Match, NEW s \in GameServer, flushMail(s)
    PROVE  Match'
<1>1. /\ DOMAIN (mailbuf') = Slots
      /\ \A i \in Slots : /\ mailbuf'[i].mail = mailbuf[i].mail
                          /\ mailbuf'[i].id = mailbuf[i].id
                          /\ mailbuf'[i] # FreeSlot <=> Used(i)
    BY FlushSends
<1>2. UNCHANGED <<mailfile, dropped>>
    BY DEF flushMail, history
<1>3. SlotsDiffer' /\ SlotsOnFile' /\ FilesInSlots'
    BY <1>1, <1>2 DEF Match, SlotsDiffer, SlotsOnFile, FilesInSlots, Slots, Used, FileOf
<1> QED  BY <1>3 DEF Match

(* Whatever the server had, what it reads is what is on file.              *)
LEMMA StartMatches ==
    ASSUME TypesHold, Numbers, SaacStarts
    PROVE  Match'
<1>1. MailTypes /\ UNCHANGED <<mailfile, dropped>>
    BY DEF TypesHold, SaacStarts, history
<1>2. PICK place : Filled(place)
    BY StartFills DEF TypesHold
<1>3. ASSUME NEW i \in DOMAIN (mailbuf'), mailbuf'[i] # FreeSlot
      PROVE  \E f \in WholeFiles : place[f] = i /\ mailbuf'[i] = Read(f)
    BY <1>2, <1>3 DEF Filled
<1>4. ASSUME NEW i \in DOMAIN (mailbuf'), NEW j \in DOMAIN (mailbuf'),
             mailbuf'[i] # FreeSlot, mailbuf'[j] # FreeSlot,
             mailbuf'[i].id = mailbuf'[j].id
      PROVE  i = j
    <2>1. PICK f \in WholeFiles : place[f] = i /\ mailbuf'[i] = Read(f)
        BY <1>3, <1>4
    <2>2. PICK g \in WholeFiles : place[g] = j /\ mailbuf'[j] = Read(g)
        BY <1>3, <1>4
    <2>3. f.id = g.id
        BY <1>4, <2>1, <2>2 DEF Read
    <2>4. f \in mailfile /\ g \in mailfile /\ f.whole /\ g.whole
        BY DEF WholeFiles
    <2>5. f.mail = g.mail
        <3>1. Named(f.mail, f.id) /\ Named(g.mail, g.id)
            BY <2>4 DEF Named, FileNames
        <3>2. f.mail \in Mails /\ g.mail \in Mails /\ f.id \in Nat
            BY <1>1, <2>4, FileNumbers
        <3> QED  BY <2>3, <3>1, <3>2 DEF Numbers
    <2>6. f = g
        BY <1>1, <2>3, <2>4, <2>5, FileNumbers
    <2> QED  BY <2>1, <2>2, <2>6
<1>5. SlotsDiffer'
    BY <1>4 DEF SlotsDiffer, Slots, Used
<1>6. ASSUME NEW i \in DOMAIN (mailbuf'), mailbuf'[i] # FreeSlot
      PROVE  FileOf(mailbuf'[i].mail, mailbuf'[i].id) \in mailfile'
    <2>1. PICK f \in WholeFiles : mailbuf'[i] = Read(f)
        BY <1>3, <1>6
    <2>2. f \in mailfile /\ f = FileOf(f.mail, f.id)
        BY <1>1, FileNumbers DEF WholeFiles
    <2> QED  BY <1>1, <2>1, <2>2 DEF Read
<1>7. SlotsOnFile'
    BY <1>6 DEF SlotsOnFile, Slots, Used, FileOf
<1>8. FilesInSlots'
    <2>1. ASSUME NEW f \in mailfile', f.whole
          PROVE  \E i \in DOMAIN (mailbuf') : mailbuf'[i].mail = f.mail /\ mailbuf'[i].id = f.id
        <3>1. f \in WholeFiles
            BY <1>1, <2>1 DEF WholeFiles
        <3>2. place[f] \in DOMAIN (mailbuf') /\ mailbuf'[place[f]] = Read(f)
            BY <1>2, <3>1 DEF Filled
        <3>3. Read(f).mail = f.mail /\ Read(f).id = f.id
            BY DEF Read
        <3> QED  BY <3>2, <3>3
    <2> QED  BY <2>1 DEF FilesInSlots, Slots
<1> QED  BY <1>5, <1>7, <1>8 DEF Match

LEMMA NextMatch ==
    TypesHold /\ Numbers /\ FilesMatchMemory /\ MailNext => FilesMatchMemory'
<1> SUFFICES ASSUME TypesHold, Numbers, FilesMatchMemory, MailNext, running'  PROVE Match'
    BY MatchIs, PTL
<1>1. MailTypes /\ UNCHANGED strange /\ MailStep /\ (running => Match)
    BY MatchIs DEF TypesHold, MailNext
<1>2. CASE expireMail
    <2>1. Match /\ \E E : Expired(E)
        BY <1>1, <1>2, ExpireFrees DEF expireMail
    <2> QED  BY <1>1, <2>1, ExpiredMatches
<1>3. CASE SaacStarts
    BY <1>3, StartMatches
<1>4. ASSUME SaacStops \/ SaacStopsReading \/ \E s \in GameServer : SaacStopsWriting(s)
      PROVE  ~running'
    BY <1>4 DEF SaacStops, SaacStopsWriting, AllStop, SaacStopsReading
<1>5. ASSUME NEW s \in GameServer, receiveMail(s) \/ receiveMailNoFile(s)  PROVE Match'
    <2> DEFINE n == Head(fromGs[s]).mail
    <2>1. Match /\ n \in Mails
        BY <1>1, <1>5, ReceiveNames DEF receiveMail, receiveMailNoFile, Line
    <2>2. PICK sent \in BOOLEAN : InSlot(n, sent)
        BY <1>5 DEF receiveMail, receiveMailNoFile
    <2>3. \/ mailfile' = Saved(n, NewId) /\ UNCHANGED dropped
          \/ UNCHANGED mailfile /\ dropped' = dropped \union {n}
        BY <1>5 DEF receiveMail, receiveMailNoFile
    <2> HIDE DEF n
    <2>4. PICK k \in Nat : PutIn(k, n, sent)
        BY <1>1, <2>1, <2>2, InSlotPuts
    <2> QED  BY <1>1, <2>1, <2>3, <2>4, PutMatches
<1>6. ASSUME NEW s \in GameServer, receiveMailAck(s)  PROVE Match'
    <2>1. Match /\ UNCHANGED dropped
        BY <1>1, <1>6 DEF receiveMailAck, Line, history
    <2>2. CASE UNCHANGED <<mailbuf, mailfile>>
        BY <2>1, <2>2 DEF Match, SlotsDiffer, SlotsOnFile, FilesInSlots, Slots, Used, FileOf
    <2>3. ASSUME NEW i \in Slots, Freed(i)  PROVE Match'
        BY <1>1, <2>1, <2>3, FreedMatches
    <2> QED  BY <1>1, <1>6, <2>2, <2>3, AckFrees
<1>7. ASSUME NEW s \in GameServer, flushMail(s)  PROVE Match'
    <2>1. Match
        BY <1>1, <1>7 DEF flushMail, Line
    <2> QED  BY <1>1, <1>7, <2>1, FlushMatches
<1>8. ASSUME NEW s \in GameServer,
             \/ serverLogin(s) \/ serverGone(s) \/ ServerStarts(s) \/ ServerStops(s)
             \/ SendLetter(s) \/ takeMessage(s)
             \/ \E p \in Player : PlayerIn(p, s) \/ PlayerOut(p, s)
      PROVE  Match'
    <2>1. StoreStays
        BY <1>1, <1>8, ServerTypes, LetterTypes, PlayerTypes
    <2>2. Match
        BY <1>1, <2>1 DEF StoreStays
    <2> QED  BY <2>1, <2>2 DEF StoreStays, Match, SlotsDiffer, SlotsOnFile, FilesInSlots,
                               Slots, Used, FileOf
<1> QED  BY <1>1, <1>2, <1>3, <1>4, <1>5, <1>6, <1>7, <1>8 DEF MailStep

(***************************************************************************)
(* The theorems about what is kept                                         *)
(***************************************************************************)
LEMMA InitInv == MailInit => MailInv
<1> SUFFICES ASSUME MailInit  PROVE MailInv
    OBVIOUS
<1>1. TypesHold
    BY InitTypes
<1>2. /\ mailbuf = <<>> /\ mailfile = {} /\ running = TRUE
      /\ \A s \in GameServer : toGs[s] = <<>> /\ fromGs[s] = <<>>
    BY DEF MailInit, Everywhere
<1>3. \A m \in Mails : \A id \in Nat : ~Named(m, id)
    BY <1>2, MeetsNone DEF Named, FileNames, SlotNames, LineNames, Slots
<1>4. Numbers /\ AcksSeen
    BY <1>2, <1>3, MeetsNone DEF Numbers, AcksSeen
<1>5. AllDown
    BY <1>2 DEF AllDown
<1>6. FilesMatchMemory
    BY <1>2 DEF FilesMatchMemory, Slots
<1> QED  BY <1>1, <1>4, <1>5, <1>6 DEF MailInv, TypesHold

LEMMA StutterInv == MailInv /\ UNCHANGED mailVars => MailInv'
<1> SUFFICES ASSUME MailInv, UNCHANGED mailVars  PROVE MailInv'
    OBVIOUS
<1>1. TypesHold'
    BY NextTypes DEF MailInv, TypesHold
<1>2. UNCHANGED <<mailbuf, mailfile, mailid, running, here, serving, toGs, fromGs, seen, dropped>>
    BY DEF mailVars
<1>3. Numbers'
    <2>1. NoNewName
        BY <1>2 DEF NoNewName, Named, FileNames, SlotNames, LineNames, Slots
    <2> QED  BY <2>1, NumbersKept DEF MailInv, Naming
<1>4. AcksSeen'
    BY <1>2 DEF MailInv, AcksSeen, Named, FileNames, SlotNames, LineNames, Slots
<1>5. AllDown'
    BY <1>2 DEF MailInv, AllDown
<1>6. FilesMatchMemory'
    BY <1>2 DEF MailInv, FilesMatchMemory, Slots, Used
<1> QED  BY <1>1, <1>3, <1>4, <1>5, <1>6 DEF MailInv, TypesHold

LEMMA NextInv == MailInv /\ [MailNext]_mailVars => MailInv'
<1> SUFFICES ASSUME MailInv, MailNext  PROVE MailInv'
    BY StutterInv
<1>1. TypesHold /\ Numbers /\ AcksSeen /\ AllDown /\ FilesMatchMemory
    BY DEF MailInv, TypesHold
<1>2. TypesHold'
    BY <1>1, NextTypes
<1>3. Numbers'
    BY <1>1, NextNames, NumbersKept DEF TypesHold
<1>4. AcksSeen' /\ AllDown' /\ FilesMatchMemory'
    BY <1>1, NextAcks, NextAllDown, NextMatch
<1> QED  BY <1>2, <1>3, <1>4 DEF MailInv, TypesHold

(* Numbers of mails are never given twice, and stand for what was seen.    *)
THEOREM MailInvariant == MailSpec => []MailInv
<1>1. MailInit => MailInv
    BY InitInv
<1>2. MailInv /\ [MailNext]_mailVars => MailInv'
    BY NextInv
<1> QED  BY <1>1, <1>2, PTL DEF MailSpec

(* Types: a slot holds a mail, its number and whether it was sent, lines   *)
(* are of their kinds, and counters in their bounds.                       *)
THEOREM MailTyped == MailSpec => []MailTypes
<1>1. MailInv => MailTypes
    BY DEF MailInv
<1> QED  BY <1>1, MailInvariant, PTL

(* Memory and files agree while the account server runs, however often it  *)
(* stopped, also in the middle of writing a file or of reading one.        *)
THEOREM FilesMatch == MailSpec => []FilesMatchMemory
<1>1. MailInv => FilesMatchMemory
    BY DEF MailInv
<1> QED  BY <1>1, MailInvariant, PTL

(* One step of KeptUntilSeen.                                              *)
GivenUp(m) == Kept(m) /\ ~Kept(m)' => seen[m] > 0 \/ m \in dropped'

LEMMA InvFacts == MailInv => MailTypes /\ TypesHold /\ Numbers /\ AcksSeen /\ AllDown
                             /\ (running => Match)
BY MatchIs DEF MailInv, TypesHold

LEMMA KeptInMemory ==
    ASSUME MailInv, running, NEW m \in Mails, Kept(m)
    PROVE  \E i \in Slots : mailbuf[i].mail = m /\ Used(i)
<1>1. Match /\ MailTypes
    BY InvFacts
<1>2. \E i \in Slots : mailbuf[i].mail = m
    BY <1>1 DEF Kept, InMemory, OnFile, Match, FilesInSlots
<1> QED  BY <1>1, <1>2, SlotsHold

LEMMA StopKeeps ==
    ASSUME MailInv, running, NEW m \in Mails, Kept(m),
           \A f \in mailfile : f \in mailfile', dropped \subseteq dropped'
    PROVE  Kept(m)' \/ m \in dropped'
<1>1. PICK i \in Slots : mailbuf[i].mail = m /\ Used(i)
    BY KeptInMemory
<1>2. CASE m \in dropped
    BY <1>2
<1>3. CASE m \notin dropped
    <2>1. FileOf(m, mailbuf[i].id) \in mailfile
        BY <1>1, <1>3, InvFacts DEF Match, SlotsOnFile
    <2>2. FileOf(m, mailbuf[i].id).whole /\ FileOf(m, mailbuf[i].id).mail = m
        BY DEF FileOf
    <2> QED  BY <2>1, <2>2 DEF Kept, OnFile
<1> QED  BY <1>2, <1>3

LEMMA NextGivesUp == ASSUME MailInv, MailNext, NEW m \in Mails  PROVE GivenUp(m)
<1> SUFFICES ASSUME Kept(m)  PROVE Kept(m)' \/ seen[m] > 0 \/ m \in dropped'
    BY DEF GivenUp
<1>1. MailTypes /\ TypesHold /\ Numbers /\ AcksSeen /\ AllDown /\ UNCHANGED strange /\ MailStep
    BY InvFacts DEF MailNext
<1>2. CASE expireMail
    <2>1. PICK i \in Slots : mailbuf[i].mail = m /\ Used(i)
        BY <1>2, KeptInMemory DEF expireMail
    <2>2. PICK E : Expired(E)
        BY <1>1, <1>2, ExpireFrees
    <2>3. CASE i \in E
        BY <2>1, <2>2, <2>3 DEF Expired
    <2>4. CASE i \notin E
        BY <2>1, <2>2, <2>4 DEF Expired, Kept, InMemory, Slots
    <2> QED  BY <2>3, <2>4
<1>3. CASE SaacStarts
    <2>1. mailbuf = <<>> /\ UNCHANGED mailfile
        BY <1>1, <1>3 DEF AllDown, SaacStarts
    <2> QED  BY <2>1 DEF Kept, InMemory, OnFile, Slots
<1>4. CASE SaacStops
    BY <1>4, StopKeeps DEF SaacStops
<1>5. CASE SaacStopsReading
    <2>1. PICK f \in mailfile :
              /\ mailfile' = (mailfile \ {f}) \union {[f EXCEPT !.whole = FALSE]}
              /\ dropped' = dropped \union {f.mail}
        BY <1>5 DEF SaacStopsReading
    <2>2. UNCHANGED mailbuf
        BY <1>5 DEF SaacStopsReading
    <2> QED  BY <2>1, <2>2 DEF Kept, InMemory, OnFile, Slots
<1>6. ASSUME NEW s \in GameServer, SaacStopsWriting(s)
      PROVE  Kept(m)' \/ seen[m] > 0 \/ m \in dropped'
    <2>1. \A f \in mailfile : f \in mailfile'
        BY <1>1, <1>6, FileNumbers DEF SaacStopsWriting, Unlinked, SameFile, NewId
    <2>2. running /\ dropped \subseteq dropped'
        BY <1>6 DEF SaacStopsWriting
    <2> QED  BY <2>1, <2>2, StopKeeps
<1>7. ASSUME NEW s \in GameServer, receiveMail(s) \/ receiveMailNoFile(s)
      PROVE  Kept(m)'
    <2> DEFINE n == Head(fromGs[s]).mail
    <2>1. running /\ n \in Mails
        BY <1>1, <1>7, ReceiveNames DEF receiveMail, receiveMailNoFile, Line
    <2>2. PICK sent \in BOOLEAN : InSlot(n, sent)
        BY <1>7 DEF receiveMail, receiveMailNoFile
    <2> HIDE DEF n
    <2>3. PICK k \in Nat : PutIn(k, n, sent)
        BY <1>1, <2>1, <2>2, InSlotPuts
    <2>4. PICK i \in Slots : mailbuf[i].mail = m /\ Used(i)
        BY <2>1, KeptInMemory
    <2> QED  BY <2>3, <2>4 DEF PutIn, Kept, InMemory, Slots
<1>8. ASSUME NEW s \in GameServer, receiveMailAck(s)
      PROVE  Kept(m)' \/ seen[m] > 0
    <2>1. CASE UNCHANGED <<mailbuf, mailfile>>
        BY <2>1 DEF Kept, InMemory, OnFile, Slots
    <2>2. ASSUME NEW i \in Slots, Freed(i),
                 Head(fromGs[s]) = Ack(Recipient(mailbuf[i].mail), mailbuf[i].id)
          PROVE  Kept(m)' \/ seen[m] > 0
        <3>1. PICK j \in Slots : mailbuf[j].mail = m /\ Used(j)
            BY <1>8, KeptInMemory DEF receiveMailAck, Line
        <3>2. CASE j # i
            BY <2>2, <3>1, <3>2 DEF Freed, Kept, InMemory, Slots
        <3>3. CASE j = i
            <4>1. mailbuf[i].mail \in Mails /\ mailbuf[i].id \in Nat
                BY <1>1, <3>1, <3>3, SlotNumbers
            <4>2. Named(m, mailbuf[i].id)
                BY <3>1, <3>3 DEF Named, SlotNames
            <4>3. Recipient(m) \in Player
                BY RecipientTypes
            <4>4. Meets(fromGs[s], {Ack(Recipient(m), mailbuf[i].id)})
                <5>1. Line(s)
                    BY <1>8 DEF receiveMailAck
                <5> QED  BY <1>1, <2>2, <3>1, <3>3, <5>1, LineReads
            <4> QED  BY <1>1, <4>1, <4>2, <4>3, <4>4 DEF AcksSeen
        <3> QED  BY <3>2, <3>3
    <2> QED  BY <1>1, <1>8, <2>1, <2>2, AckFrees
<1>9. ASSUME NEW s \in GameServer, flushMail(s)
      PROVE  Kept(m)'
    <2>1. /\ DOMAIN (mailbuf') = Slots
          /\ \A i \in Slots : mailbuf'[i].mail = mailbuf[i].mail
          /\ UNCHANGED mailfile
        BY <1>1, <1>9, FlushSends DEF flushMail
    <2> QED  BY <2>1 DEF Kept, InMemory, OnFile, Slots
<1>10. ASSUME NEW s \in GameServer,
             \/ serverLogin(s) \/ serverGone(s) \/ ServerStarts(s) \/ ServerStops(s)
             \/ SendLetter(s) \/ takeMessage(s)
             \/ \E p \in Player : PlayerIn(p, s) \/ PlayerOut(p, s)
      PROVE  Kept(m)'
    <2>1. StoreStays
        BY <1>1, <1>10, ServerTypes, LetterTypes, PlayerTypes
    <2> QED  BY <2>1 DEF StoreStays, Kept, InMemory, OnFile, Slots
<1> QED  BY <1>1, <1>2, <1>3, <1>4, <1>5, <1>6, <1>7, <1>8, <1>9, <1>10 DEF MailStep

(* A mail that was accepted goes only when it was seen, has expired or had *)
(* no file.                                                                *)
THEOREM MailsAreKept == MailSpec => KeptUntilSeen
<1>1. MailInv /\ [MailNext]_mailVars =>
          [\A m \in Mails : Kept(m) /\ ~Kept(m)' => seen[m] > 0 \/ m \in dropped']_mailVars
    BY NextGivesUp DEF GivenUp
<1> QED  BY <1>1, MailInvariant, PTL DEF MailSpec, KeptUntilSeen

(***************************************************************************)
(* Letters that are settled                                                *)
(***************************************************************************)
(* None of X is added to what game servers have sent.                      *)
NotSent(X) == \A t \in GameServer : /\ Meets(fromGs'[t], X) => Meets(fromGs[t], X)
                                    /\ Once(fromGs[t], X) => Once(fromGs'[t], X)

LEMMA NoneIsSent == NoneSent \/ UNCHANGED fromGs => \A X : NotSent(X)
BY DEF NoneSent, NotSent

LEMMA OthersAreSent ==
    ASSUME MailTypes, NEW s \in GameServer, NEW lines \in Seq(ToSaac), LinesTo(s, lines),
           NEW X, ~Meets(lines, X)
    PROVE  NotSent(X)
<1>1. Once(lines, X)
    BY DEF Meets, Once
<1>2. /\ \A t \in GameServer : t # s => fromGs'[t] = fromGs[t]
      /\ Meets(fromGs'[s], X) <=> Meets(fromGs[s], X) \/ Meets(lines, X)
      /\ /\ Once(fromGs[s], X) /\ Once(lines, X)
         /\ ~(Meets(fromGs[s], X) /\ Meets(lines, X))
         => Once(fromGs'[s], X)
    BY LinesSent
<1> QED  BY <1>1, <1>2 DEF NotSent

LEMMA LetterFacts ==
    /\ Letters \subseteq Mails
    /\ \A m \in Letters : m[1] \in Letter /\ m[1] \in Nat /\ m = <<m[1], "letter">>
    /\ \A m \in Mails : m[2] = "letter" => m \in Letters
    /\ \A n : <<n, "note">> \notin Letters
BY DEF Letters, Mails, Letter

(* What is sent for a letter, and what for a player that logs in.          *)
LEMMA SentApart ==
    /\ \A m \in Letters : \A p \in Player : /\ Flush(p) \notin {Message(m)}
                                            /\ Message(m) \notin {Flush(p)}
    /\ \A m, n \in Mails : m # n => Message(n) \notin {Message(m)}
    /\ \A p, q \in Player : p # q => Flush(q) \notin {Flush(p)}
    /\ \A m \in Mails : \A p, q \in Player : \A id \in Nat :
          /\ Ack(q, id) \notin {Message(m)} /\ Ack(q, id) \notin {Flush(p)}
          /\ [op |-> "login"] \notin {Message(m)} /\ [op |-> "login"] \notin {Flush(p)}
          /\ Message(m) \notin {Flush(p)}
BY DEF Message, Flush, Ack

(* A step that tells nothing of a letter.                                  *)
Untold(m) ==
    /\ Underway(m)' => Underway(m)
    /\ written' = written
    /\ seen'[m] = seen[m]
    /\ m \in settled' => m \in settled
    /\ \A id \in Nat : Named(m, id)' => Named(m, id)
FreshFor(m) == /\ Underway(m) => m[1] <= written
               /\ Underway(m) \/ m[1] > written => Unknown(m)

LEMMA UntoldFresh ==
    ASSUME NEW m \in Letters, FreshFor(m), Untold(m)
    PROVE  FreshFor(m)'
BY DEF FreshFor, Untold, Unknown

LEMMA NotUnderway ==
    ASSUME NEW m, NotSent({Message(m)})
    PROVE  Underway(m)' => Underway(m)
BY DEF NotSent, Underway

LEMMA OnceKept ==
    ASSUME LettersOnce, \A m \in Letters : NotSent({Message(m)})
    PROVE  LettersOnce'
BY DEF LettersOnce, NotSent

(* A settled letter stays so when nothing comes to it.                     *)
LEMMA SettledKept ==
    ASSUME NEW m \in Letters, NEW s \in GameServer, SettledAt(m, s),
           Recipient(m) \in here'[s], NotSent({Flush(Recipient(m))}),
           seen'[m] = seen[m],
           Meets(toGs'[s], LinesAbout(m)) => Meets(toGs[s], LinesAbout(m)),
           Once(toGs[s], LinesAbout(m)) => Once(toGs'[s], LinesAbout(m))
    PROVE  SettledAt(m, s)'
BY DEF SettledAt, NotSent

LEMMA OnePlaceKept ==
    ASSUME OnePlace, \A t \in GameServer : here'[t] \subseteq here[t]
    PROVE  OnePlace'
BY DEF OnePlace

(* Steps that send nothing about a letter or a player, take nothing in,    *)
(* settle nothing and move nobody.                                         *)
LEMMA CalmStep ==
    ASSUME MailTypes, LetterInv, NoNewName,
           NoneToGame \/ UNCHANGED toGs,
           \A m \in Letters : NotSent({Message(m)}),
           \A p \in Player : NotSent({Flush(p)}),
           UNCHANGED <<written, seen, settled, here>>
    PROVE  LetterInv'
<1>1. \A m \in Letters : FreshFor(m)
    BY DEF LetterInv, LettersFresh, FreshFor
<1>2. ASSUME NEW m \in Letters  PROVE FreshFor(m)'
    <2>1. Untold(m)
        BY NotUnderway, LetterFacts DEF Untold, NoNewName
    <2> QED  BY <1>1, <2>1, UntoldFresh
<1>3. LettersFresh'
    BY <1>2 DEF LettersFresh, FreshFor
<1>4. LettersOnce'
    BY OnceKept DEF LetterInv
<1>5. OnePlace'
    BY OnePlaceKept DEF LetterInv
<1>6. ASSUME NEW m \in Letters, m \in settled
      PROVE  \E s \in GameServer : SettledAt(m, s)'
    <2>1. PICK s \in GameServer : SettledAt(m, s)
        BY <1>6 DEF LetterInv, SettledLetters
    <2>2. Recipient(m) \in Player
        BY LetterFacts, RecipientTypes
    <2>3. /\ Meets(toGs'[s], LinesAbout(m)) => Meets(toGs[s], LinesAbout(m))
          /\ Once(toGs[s], LinesAbout(m)) => Once(toGs'[s], LinesAbout(m))
        BY DEF NoneToGame
    <2>4. Recipient(m) \in here'[s]
        BY <2>1 DEF SettledAt
    <2> QED  BY <2>1, <2>2, <2>3, <2>4, SettledKept
<1>7. SettledLetters'
    BY <1>6 DEF SettledLetters
<1> QED  BY <1>3, <1>4, <1>5, <1>7 DEF LetterInv

LEMMA CalmSteps ==
    ASSUME TypesHold, LetterInv, UNCHANGED strange,
           \/ expireMail \/ SaacStopsReading \/ SaacStarts
           \/ \E s \in GameServer :
                 receiveMailAck(s) \/ serverLogin(s) \/ serverGone(s) \/ ServerStarts(s)
    PROVE  LetterInv'
<1>1. MailTypes
    BY DEF TypesHold
<1>2. CASE expireMail \/ SaacStopsReading \/ SaacStarts
    <2>1. NoNewName
        BY <1>1, <1>2, ExpireNames, ReadingNames, StartsNames
    <2>2. UNCHANGED <<toGs, fromGs, written, seen, settled, here>>
        BY <1>2 DEF expireMail, SaacStopsReading, SaacStarts, streams, history
    <2>3. \A X : NotSent(X)
        BY <2>2, NoneIsSent
    <2> QED  BY <1>1, <2>1, <2>2, <2>3, CalmStep
<1>3. ASSUME NEW s \in GameServer, receiveMailAck(s) \/ serverLogin(s) \/ serverGone(s)
      PROVE  LetterInv'
    <2>1. NoNewName
        <3>1. CASE receiveMailAck(s)
            BY <1>1, <3>1, AckNames
        <3>2. CASE serverLogin(s) \/ serverGone(s)
            <4>1. StoreStays
                BY <3>2, ServerTypes
            <4>2. NoneToGame \/ UNCHANGED toGs
                BY <1>1, <3>2, LinesKept
            <4> QED  BY <4>1, <4>2, StoreNames
        <3> QED  BY <1>3, <3>1, <3>2
    <2>2. UNCHANGED <<toGs, written, seen, settled, here>>
        BY <1>3 DEF receiveMailAck, serverLogin, serverGone, streams, history
    <2>3. \A X : NotSent(X)
        BY <1>1, <1>3, ServerSends, NoneIsSent
    <2> QED  BY <1>1, <2>1, <2>2, <2>3, CalmStep
<1>4. ASSUME NEW s \in GameServer, ServerStarts(s)  PROVE LetterInv'
    <2> DEFINE lines == <<[op |-> "login"]>>
    <2>1. NoNewName
        <3>1. StoreStays
            BY <1>4, ServerTypes
        <3>2. NoneToGame \/ UNCHANGED toGs
            BY <1>1, <1>4, LinesKept
        <3> QED  BY <3>1, <3>2, StoreNames
    <2>2. UNCHANGED <<toGs, written, seen, settled, here>>
        BY <1>4 DEF ServerStarts, history
    <2>3. LinesTo(s, lines)
        BY <1>4 DEF ServerStarts
    <2>4. /\ lines \in Seq(ToSaac)
          /\ \A X : Meets(lines, X) <=> [op |-> "login"] \in X
        BY LineKinds, MeetsOne
    <2> HIDE DEF lines
    <2>5. \A m \in Letters : NotSent({Message(m)})
        <3> SUFFICES ASSUME NEW m \in Letters  PROVE NotSent({Message(m)})
            OBVIOUS
        <3>1. [op |-> "login"] \notin {Message(m)}
            BY DEF Message
        <3> QED  BY <1>1, <2>3, <2>4, <3>1, OthersAreSent
    <2>6. \A p \in Player : NotSent({Flush(p)})
        <3> SUFFICES ASSUME NEW p \in Player  PROVE NotSent({Flush(p)})
            OBVIOUS
        <3>1. [op |-> "login"] \notin {Flush(p)}
            BY DEF Flush
        <3> QED  BY <1>1, <2>3, <2>4, <3>1, OthersAreSent
    <2> QED  BY <1>1, <2>1, <2>2, <2>5, <2>6, CalmStep
<1> QED  BY <1>2, <1>3, <1>4

LEMMA StopLetters ==
    ASSUME TypesHold, LetterInv, SaacStops \/ \E s \in GameServer : SaacStopsWriting(s)
    PROVE  LetterInv'
<1>1. MailTypes /\ AllStop
    BY DEF TypesHold, SaacStops, SaacStopsWriting
<1>2. /\ \A t \in GameServer : fromGs'[t] = <<>> /\ here'[t] = {}
      /\ settled' = {} /\ UNCHANGED <<written, seen>>
    BY <1>1, AllCut DEF AllStop
<1>3. \A m \in Letters : FreshFor(m)
    BY DEF LetterInv, LettersFresh, FreshFor
<1>4. ASSUME NEW m \in Letters
      PROVE  ~Underway(m)' /\ (m[1] > written => Unknown(m)')
    <2>1. ~Underway(m)'
        BY <1>2, MeetsNone DEF Underway
    <2>2. ASSUME m[1] > written, NEW id \in Nat, Named(m, id)'  PROVE Named(m, id)
        <3>1. CASE SaacStops
            BY <2>2, <3>1, SaacStopsNames, LetterFacts DEF NoNewName
        <3>2. ASSUME NEW s \in GameServer, SaacStopsWriting(s)  PROVE Named(m, id)
            <4> DEFINE n == Head(fromGs[s]).mail
            <4>1. NewName(n) /\ Head(fromGs[s]) \in ToSaac
                BY <1>1, <3>2, WritingNames
            <4>2. Meets(fromGs[s], {Message(n)})
                <5>1. fromGs[s] \in Seq(ToSaac) /\ fromGs[s] # <<>>
                      /\ Head(fromGs[s]).op = "message"
                    BY <1>1, <3>2 DEF SaacStopsWriting, MailTypes
                <5>2. Head(fromGs[s]) = Message(n)
                    BY <4>1, <5>1, LineKinds
                <5> QED  BY <5>1, <5>2, MeetsTail
            <4> HIDE DEF n
            <4>3. n # m
                <5>1. ~Underway(m)
                    BY <1>1, <1>3, <2>2, LetterFacts DEF FreshFor, MailTypes
                <5> QED  BY <4>2, <5>1 DEF Underway
            <4> QED  BY <2>2, <4>1, <4>3, LetterFacts DEF NewName
        <3> QED  BY <3>1, <3>2
    <2> QED  BY <1>2, <1>3, <2>1, <2>2 DEF FreshFor, Unknown
<1>5. LettersFresh'
    BY <1>2, <1>4 DEF LettersFresh
<1>6. LettersOnce'
    BY <1>2, MeetsNone DEF LettersOnce
<1>7. OnePlace' /\ SettledLetters'
    BY <1>2 DEF OnePlace, SettledLetters
<1> QED  BY <1>5, <1>6, <1>7 DEF LetterInv

LEMMA FlushLetters ==
    ASSUME TypesHold, LetterInv, NEW s \in GameServer, flushMail(s)
    PROVE  LetterInv'
<1> DEFINE p == Head(fromGs[s]).player
<1>1. MailTypes /\ NoNewName
    BY FlushNames DEF TypesHold
<1>2. UNCHANGED <<written, seen, settled, here>>
    BY DEF flushMail, history
<1>3. \A X : NotSent(X)
    BY <1>1, ServerSends, NoneIsSent
<1>4. Meets(fromGs[s], {Flush(p)})
    <2>1. Line(s) /\ Head(fromGs[s]) \in ToSaac /\ Head(fromGs[s]).op = "flush"
        BY <1>1, FlushSends DEF flushMail
    <2>2. Head(fromGs[s]) = Flush(p)
        BY <2>1, LineKinds
    <2> QED  BY <1>1, <2>1, <2>2, LineReads
<1>5. /\ \A t \in GameServer : t # s => toGs'[t] = toGs[t]
      /\ \A X : \/ /\ Meets(toGs'[s], X) => Meets(toGs[s], X)
                   /\ Once(toGs[s], X) => Once(toGs'[s], X)
                   \/ \E i \in Slots : /\ Recipient(mailbuf[i].mail) = p
                                    /\ MailLine(mailbuf[i].mail, mailbuf[i].id) \in X
    BY <1>1, FlushSends
<1> HIDE DEF p
<1>6. ASSUME NEW m \in Letters  PROVE FreshFor(m)'
    <2>1. Untold(m)
        BY <1>1, <1>2, <1>3, NotUnderway, LetterFacts DEF Untold, NoNewName
    <2> QED  BY <2>1, UntoldFresh DEF LetterInv, LettersFresh, FreshFor
<1>7. LettersFresh'
    BY <1>6 DEF LettersFresh, FreshFor
<1>8. LettersOnce' /\ OnePlace'
    BY <1>2, <1>3, OnceKept, OnePlaceKept DEF LetterInv
<1>9. ASSUME NEW m \in Letters, m \in settled
      PROVE  \E t \in GameServer : SettledAt(m, t)'
    <2>1. PICK t \in GameServer : SettledAt(m, t)
        BY <1>9 DEF LetterInv, SettledLetters
    <2>2. /\ Meets(toGs'[t], LinesAbout(m)) => Meets(toGs[t], LinesAbout(m))
          /\ Once(toGs[t], LinesAbout(m)) => Once(toGs'[t], LinesAbout(m))
        <3>1. CASE t # s
            BY <1>5, <3>1
        <3>2. CASE t = s
            <4>1. Recipient(m) # p
                BY <1>4, <2>1, <3>2 DEF SettledAt
            <4>2. ~\E i \in Slots : /\ Recipient(mailbuf[i].mail) = p
                                    /\ MailLine(mailbuf[i].mail, mailbuf[i].id) \in LinesAbout(m)
                BY <4>1 DEF MailLine, LinesAbout
            <4> QED  BY <1>5, <3>2, <4>2
        <3> QED  BY <3>1, <3>2
    <2>3. Recipient(m) \in here'[t]
        BY <1>2, <2>1 DEF SettledAt
    <2> QED  BY <1>2, <1>3, <2>1, <2>2, <2>3, SettledKept
<1>10. SettledLetters'
    BY <1>2, <1>9 DEF SettledLetters
<1> QED  BY <1>7, <1>8, <1>10 DEF LetterInv

(* A letter that arrives is under way no more, and nowhere else until now. *)
LEMMA ArrivedFresh ==
    ASSUME MailTypes, LetterInv, NEW s \in GameServer, Line(s),
           NEW n \in Mails, Head(fromGs[s]) = Message(n), NewName(n),
           UNCHANGED <<written, seen>>, settled' \subseteq settled \union {n}
    PROVE  LettersFresh' /\ (n \in Letters => Unknown(n))
<1>1. NoneSent /\ Meets(fromGs[s], {Message(n)})
    BY LineReads
<1>2. \A m \in Letters : FreshFor(m)
    BY DEF LetterInv, LettersFresh, FreshFor
<1>3. n \in Letters => Unknown(n) /\ n[1] <= written
    BY <1>1, <1>2 DEF FreshFor, Underway
<1>4. ASSUME NEW m \in Letters, m # n  PROVE FreshFor(m)'
    <2>1. Underway(m)' => Underway(m)
        BY <1>1, NoneIsSent, NotUnderway
    <2>2. Untold(m)
        BY <1>4, <2>1, LetterFacts DEF Untold, NewName
    <2> QED  BY <1>2, <2>2, UntoldFresh
<1>5. ASSUME n \in Letters  PROVE FreshFor(n)'
    <2>1. ASSUME NEW t \in GameServer  PROVE ~Meets(fromGs'[t], {Message(n)})
        <3>1. CASE t = s
            <4>1. Once(fromGs[s], {Message(n)})
                BY <1>5 DEF LetterInv, LettersOnce
            <4> QED  BY <3>1, <4>1, LineReads
        <3>2. CASE t # s
            <4>1. ~Meets(fromGs[t], {Message(n)})
                BY <1>1, <1>5, <3>2 DEF LetterInv, LettersOnce
            <4> QED  BY <1>1, <4>1 DEF NoneSent
        <3> QED  BY <3>1, <3>2
    <2>2. ~Underway(n)'
        BY <2>1 DEF Underway
    <2>3. ~(n[1] > written')
        BY <1>3, <1>5, LetterFacts DEF MailTypes
    <2> QED  BY <2>2, <2>3 DEF FreshFor
<1>6. LettersFresh'
    BY <1>4, <1>5 DEF LettersFresh, FreshFor
<1> QED  BY <1>3, <1>6

LEMMA ReceiveLetters ==
    ASSUME TypesHold, LetterInv, NEW s \in GameServer,
           receiveMail(s) \/ receiveMailNoFile(s)
    PROVE  LetterInv'
<1>0. PICK n : n = Head(fromGs[s]).mail
    OBVIOUS
<1>1. MailTypes /\ Line(s) /\ UNCHANGED <<written, seen, here>>
    BY DEF TypesHold, receiveMail, receiveMailNoFile
<1>2. n \in Mails /\ Head(fromGs[s]) = Message(n) /\ NewName(n)
    <2>1. Head(fromGs[s]).op = "message"
        BY DEF receiveMail, receiveMailNoFile
    <2> QED  BY <1>0, <1>1, <2>1, LineReads, LineKinds, ReceiveNames
<1>3. /\ settled' \subseteq settled \union {n}
      /\ n \in settled' => n \in settled \/ (receiveMail(s) /\ SettledIn(Recipient(n)))
    BY <1>0 DEF receiveMail, receiveMailNoFile
<1>4. \A X : NotSent(X)
    BY <1>1, LineReads, NoneIsSent
<1>5. \A t \in GameServer : \A X : MailLine(n, NewId) \notin X =>
          /\ Meets(toGs'[t], X) => Meets(toGs[t], X)
          /\ Once(toGs[t], X) => Once(toGs'[t], X)
    <2>1. CASE receiveMail(s)
        BY <1>0, <1>1, <2>1, ReceiveSends
    <2>2. CASE receiveMailNoFile(s)
        BY <2>2 DEF receiveMailNoFile
    <2> QED  BY <2>1, <2>2
<1>6. receiveMail(s) => \A t \in GameServer : \A X :
          Once(toGs[t], X) /\ ~Meets(toGs[t], X) => Once(toGs'[t], X)
    BY <1>0, <1>1, ReceiveSends
<1>7. LettersFresh' /\ (n \in Letters => Unknown(n))
    BY <1>1, <1>2, <1>3, ArrivedFresh
<1>8. LettersOnce' /\ OnePlace'
    BY <1>1, <1>4, OnceKept, OnePlaceKept DEF LetterInv
<1>9. ASSUME NEW m \in Letters, m \in settled'
      PROVE  \E t \in GameServer : SettledAt(m, t)'
    <2>1. CASE m # n
        <3>1. PICK t \in GameServer : SettledAt(m, t)
            BY <1>3, <1>9, <2>1 DEF LetterInv, SettledLetters
        <3>2. MailLine(n, NewId) \notin LinesAbout(m)
            BY <2>1 DEF MailLine, LinesAbout
        <3>3. Recipient(m) \in here'[t]
            BY <1>1, <3>1 DEF SettledAt
        <3> QED  BY <1>1, <1>4, <1>5, <3>1, <3>2, <3>3, SettledKept
    <2>2. CASE m = n
        <3>1. Unknown(n)
            BY <1>7, <2>2
        <3>2. receiveMail(s) /\ SettledIn(Recipient(n))
            BY <1>3, <1>9, <2>2, <3>1 DEF Unknown
        <3>3. PICK t \in known : /\ Recipient(n) \in here[t]
                                 /\ Flush(Recipient(n)) \notin Range(fromGs[t])
            BY <3>2 DEF SettledIn, Flush
        <3>4. t \in GameServer
            BY <1>1 DEF MailTypes
        <3>5. ~Meets(fromGs'[t], {Flush(Recipient(n))})
            <4>1. ~Meets(fromGs[t], {Flush(Recipient(n))})
                BY <3>3 DEF Range, Meets
            <4> QED  BY <1>4, <3>4, <4>1 DEF NotSent
        <3>6. ~Meets(toGs[t], LinesAbout(n))
            <4> SUFFICES ASSUME Meets(toGs[t], LinesAbout(n))  PROVE FALSE
                OBVIOUS
            <4>1. PICK k \in DOMAIN toGs[t] : toGs[t][k] \in LinesAbout(n)
                BY DEF Meets
            <4>2. PICK id \in Nat : toGs[t][k] = MailLine(n, id)
                BY <4>1 DEF LinesAbout, MailLine
            <4>3. Named(n, id)
                BY <3>4, <4>2 DEF Named, LineNames, Meets
            <4> QED  BY <3>1, <4>3 DEF Unknown
        <3>7. Once(toGs'[t], LinesAbout(n))
            <4>1. Once(toGs[t], LinesAbout(n))
                BY <3>6 DEF Meets, Once
            <4> QED  BY <1>6, <3>2, <3>4, <3>6, <4>1
        <3>8. Recipient(n) \in here'[t] /\ seen'[n] = 0
            BY <1>1, <3>1, <3>3 DEF Unknown
        <3>9. SettledAt(n, t)'
            BY <3>5, <3>7, <3>8 DEF SettledAt
        <3> QED  BY <2>2, <3>4, <3>9
    <2> QED  BY <2>1, <2>2
<1>10. SettledLetters'
    BY <1>9 DEF SettledLetters
<1> QED  BY <1>7, <1>8, <1>10 DEF LetterInv

LEMMA SendLetters ==
    ASSUME TypesHold, LetterInv, NEW s \in GameServer, SendLetter(s), UNCHANGED strange
    PROVE  LetterInv'
<1>0. PICK n : n = <<written + 1, "letter">>
    OBVIOUS
<1>1. MailTypes /\ UNCHANGED <<toGs, here, settled>>
    BY DEF TypesHold, SendLetter
<1>2. /\ n \in Letters /\ n \in Mails /\ n[1] = written + 1 /\ written' = written + 1
      /\ \/ LinesTo(s, <<Message(n)>>) /\ UNCHANGED seen
         \/ SeenOnceMore(n) /\ UNCHANGED fromGs
    BY <1>0, <1>1, SendSends DEF SeenOnceMore
<1>3. NoNewName
    BY <1>1, LetterTypes, StoreNames
<1>4. \A m \in Letters : FreshFor(m)
    BY DEF LetterInv, LettersFresh, FreshFor
<1>5. written \in Nat
    BY <1>1 DEF MailTypes
<1>6. Unknown(n) /\ ~Underway(n)
    BY <1>2, <1>4, <1>5 DEF FreshFor
<1>7. \A m \in Mails : m # n => seen'[m] = seen[m]
    BY <1>1, <1>2, MoreSeen
<1>8. \A X : Message(n) \notin X => NotSent(X)
    <2> SUFFICES ASSUME NEW X, Message(n) \notin X  PROVE NotSent(X)
        OBVIOUS
    <2>1. CASE LinesTo(s, <<Message(n)>>)
        <3> DEFINE lines == <<Message(n)>>
        <3>1. lines \in Seq(ToSaac) /\ ~Meets(lines, X)
            BY <1>2, LineKinds, MeetsOne
        <3>2. LinesTo(s, lines)
            BY <2>1
        <3> HIDE DEF lines
        <3> QED  BY <1>1, <3>1, <3>2, OthersAreSent
    <2>2. CASE UNCHANGED fromGs
        BY <2>2, NoneIsSent
    <2> QED  BY <1>2, <2>1, <2>2
<1>9. ASSUME NEW m \in Letters, m # n  PROVE FreshFor(m)' /\ NotSent({Message(m)})
    <2>1. NotSent({Message(m)})
        BY <1>2, <1>8, <1>9, LetterFacts, SentApart
    <2>2. Underway(m)' => Underway(m)
        BY <2>1, NotUnderway
    <2>3. seen'[m] = seen[m] /\ m[1] \in Nat
        BY <1>7, <1>9, LetterFacts
    <2> QED  BY <1>1, <1>2, <1>3, <1>4, <1>5, <2>1, <2>2, <2>3, LetterFacts
             DEF FreshFor, Unknown, NoNewName
<1>10. FreshFor(n)'
    <2>1. CASE UNCHANGED seen
        BY <1>1, <1>2, <1>3, <1>5, <1>6, <2>1 DEF FreshFor, Unknown, NoNewName
    <2>2. CASE UNCHANGED fromGs
        <3>1. ~Underway(n)'
            BY <1>6, <2>2 DEF Underway
        <3> QED  BY <1>2, <1>5, <3>1 DEF FreshFor
    <2> QED  BY <1>2, <2>1, <2>2
<1>11. LettersFresh'
    BY <1>9, <1>10 DEF LettersFresh, FreshFor
<1>12. LettersOnce'
    <2>1. ASSUME NEW t \in GameServer
          PROVE  /\ Once(fromGs'[t], {Message(n)})
                 /\ Meets(fromGs'[t], {Message(n)}) => t = s
        <3>1. ~Meets(fromGs[t], {Message(n)})
            BY <1>6 DEF Underway
        <3>2. Once(fromGs[t], {Message(n)})
            BY <3>1 DEF Meets, Once
        <3>3. CASE UNCHANGED fromGs
            BY <3>1, <3>2, <3>3
        <3>4. CASE LinesTo(s, <<Message(n)>>)
            <4> DEFINE lines == <<Message(n)>>
            <4>1. /\ lines \in Seq(ToSaac)
                  /\ Once(lines, {Message(n)})
                BY <1>2, LineKinds, MeetsOne
            <4>2. LinesTo(s, lines)
                BY <3>4
            <4> HIDE DEF lines
            <4> QED  BY <1>1, <3>1, <3>2, <4>1, <4>2, LinesSent
        <3> QED  BY <1>2, <3>3, <3>4
    <2>2. ASSUME NEW m \in Letters, NEW t \in GameServer, NEW u \in GameServer
          PROVE  /\ Once(fromGs'[t], {Message(m)})
                 /\ Meets(fromGs'[t], {Message(m)}) /\ Meets(fromGs'[u], {Message(m)}) => t = u
        <3>1. CASE m = n
            BY <2>1, <3>1
        <3>2. CASE m # n
            BY <1>9, <3>2 DEF LetterInv, LettersOnce, NotSent
        <3> QED  BY <3>1, <3>2
    <2> QED  BY <2>2 DEF LettersOnce
<1>13. OnePlace'
    BY <1>1, OnePlaceKept DEF LetterInv
<1>14. ASSUME NEW m \in Letters, m \in settled
       PROVE  \E t \in GameServer : SettledAt(m, t)'
    <2>1. PICK t \in GameServer : SettledAt(m, t)
        BY <1>14 DEF LetterInv, SettledLetters
    <2>2. m # n
        BY <1>6, <1>14 DEF Unknown
    <2>3. NotSent({Flush(Recipient(m))})
        <3>1. Recipient(m) \in Player
            BY LetterFacts, RecipientTypes
        <3> QED  BY <1>2, <1>8, <3>1, SentApart
    <2>4. Recipient(m) \in here'[t] /\ seen'[m] = seen[m]
        BY <1>1, <1>7, <2>1, <2>2, LetterFacts DEF SettledAt
    <2> QED  BY <1>1, <2>1, <2>3, <2>4, SettledKept
<1>15. SettledLetters'
    BY <1>1, <1>14 DEF SettledLetters
<1> QED  BY <1>11, <1>12, <1>13, <1>15 DEF LetterInv

(* What a game server says when it takes a line is of neither kind.        *)
LEMMA TakenSends ==
    ASSUME MailTypes, NEW s \in GameServer, NEW m \in Mails, NEW id \in Nat,
           TakenAway(s) \/ TakenIn(s, m, id)
    PROVE  /\ \A l \in Letters : NotSent({Message(l)})
           /\ \A p \in Player : NotSent({Flush(p)})
<1>1. CASE TakenAway(s)
    BY <1>1, NoneIsSent DEF TakenAway
<1>2. CASE TakenIn(s, m, id)
    <2> DEFINE note == <<m[1], "note">>
               ack == Ack(Recipient(m), id)
    <2>1. Recipient(m) \in Player /\ note \in Mails /\ note \notin Letters
        BY RecipientTypes, LetterFacts DEF Mails
    <2>2. ack \in ToSaac /\ Message(note) \in ToSaac
        BY <2>1, LineKinds
    <2>3. PICK lines \in Seq(ToSaac) :
              /\ LinesTo(s, lines)
              /\ \A X : Meets(lines, X) => ack \in X \/ Message(note) \in X
        <3>1. /\ <<ack>> \in Seq(ToSaac) /\ <<Message(note), ack>> \in Seq(ToSaac)
              /\ \A X : Meets(<<ack>>, X) => ack \in X
              /\ \A X : Meets(<<Message(note), ack>>, X) => ack \in X \/ Message(note) \in X
            BY <2>2, MeetsOne, MeetsTwo
        <3>2. LinesTo(s, <<ack>>) \/ LinesTo(s, <<Message(note), ack>>)
            BY <1>2 DEF TakenIn
        <3> HIDE DEF ack, note
        <3> QED  BY <3>1, <3>2
    <2>4. ASSUME NEW l \in Letters  PROVE NotSent({Message(l)})
        <3>1. l \in Mails /\ l # note
            BY <2>1, LetterFacts
        <3>2. Message(note) \notin {Message(l)} /\ ack \notin {Message(l)}
            BY <2>1, <3>1, SentApart
        <3>3. ~Meets(lines, {Message(l)})
            BY <2>3, <3>2
        <3> QED  BY <2>3, <3>3, OthersAreSent
    <2>5. ASSUME NEW p \in Player  PROVE NotSent({Flush(p)})
        <3>1. Message(note) \notin {Flush(p)} /\ ack \notin {Flush(p)}
            BY <2>1, SentApart
        <3>2. ~Meets(lines, {Flush(p)})
            BY <2>3, <3>1
        <3> QED  BY <2>3, <3>2, OthersAreSent
    <2> QED  BY <2>4, <2>5
<1> QED  BY <1>1, <1>2

LEMMA TakeLetters ==
    ASSUME TypesHold, LetterInv, NEW s \in GameServer, takeMessage(s), UNCHANGED strange
    PROVE  LetterInv'
<1>0. PICK n, id : n = Head(toGs[s]).mail /\ id = Head(toGs[s]).id
    OBVIOUS
<1>1. MailTypes /\ UNCHANGED <<written, here, settled>>
    BY DEF TypesHold, takeMessage
<1>2. /\ n \in Mails /\ id \in Nat /\ Head(toGs[s]) = MailLine(n, id)
      /\ NoneToGame
      /\ TakenAway(s) \/ TakenIn(s, n, id)
    BY <1>0, <1>1, TakeTakes
<1>3. NoNewName
    BY <1>2, LetterTypes, StoreNames
<1>4. /\ \A X : MailLine(n, id) \in X => Meets(toGs[s], X)
      /\ \A X : Once(toGs[s], X) /\ MailLine(n, id) \in X => ~Meets(toGs'[s], X)
    <2>1. toGs[s] # <<>> /\ toGs' = [toGs EXCEPT ![s] = Tail(@)]
        BY DEF takeMessage
    <2>2. /\ \A X : Head(toGs[s]) \in X => Meets(toGs[s], X)
          /\ \A X : Once(toGs[s], X) /\ Head(toGs[s]) \in X => ~Meets(toGs'[s], X)
        BY <1>1, <2>1, GameReads
    <2> QED  BY <1>2, <2>2
<1>5. /\ \A m \in Letters : NotSent({Message(m)})
      /\ \A p \in Player : NotSent({Flush(p)})
    BY <1>1, <1>2, TakenSends
<1>6. /\ \A m \in Mails : m # n => seen'[m] = seen[m]
      /\ \/ seen'[n] = seen[n]
         \/ seen'[n] = seen[n] + 1 /\ Recipient(n) \in here[s]
    <2>1. CASE TakenAway(s)
        BY <2>1 DEF TakenAway
    <2>2. CASE TakenIn(s, n, id)
        <3>1. SeenOnceMore(n) /\ Recipient(n) \in here[s]
            BY <2>2 DEF TakenIn, SeenOnceMore
        <3> QED  BY <1>1, <1>2, <3>1, MoreSeen
    <2> QED  BY <1>2, <2>1, <2>2
<1>7. \A m \in Letters : FreshFor(m)
    BY DEF LetterInv, LettersFresh, FreshFor
<1>8. ASSUME NEW m \in Letters  PROVE FreshFor(m)'
    <2>1. Underway(m)' => Underway(m)
        BY <1>5, NotUnderway
    <2>2. CASE m # n
        <3>1. Untold(m)
            BY <1>1, <1>3, <1>6, <2>1, <2>2, LetterFacts DEF Untold, NoNewName
        <3> QED  BY <1>7, <3>1, UntoldFresh
    <2>3. CASE m = n
        <3>1. Named(n, id)
            BY <1>4 DEF Named, LineNames
        <3>2. ~Underway(m) /\ ~(m[1] > written)
            BY <1>2, <1>7, <2>3, <3>1 DEF FreshFor, Unknown
        <3> QED  BY <1>1, <2>1, <3>2 DEF FreshFor
    <2> QED  BY <2>2, <2>3
<1>9. LettersFresh'
    BY <1>8 DEF LettersFresh, FreshFor
<1>10. LettersOnce' /\ OnePlace'
    BY <1>1, <1>5, OnceKept, OnePlaceKept DEF LetterInv
<1>11. ASSUME NEW m \in Letters, m \in settled
       PROVE  \E t \in GameServer : SettledAt(m, t)'
    <2>1. PICK t \in GameServer : SettledAt(m, t)
        BY <1>11 DEF LetterInv, SettledLetters
    <2>2. NotSent({Flush(Recipient(m))})
        BY <1>5, LetterFacts, RecipientTypes
    <2>3. Recipient(m) \in here'[t]
        BY <1>1, <2>1 DEF SettledAt
    <2>4. /\ Meets(toGs'[t], LinesAbout(m)) => Meets(toGs[t], LinesAbout(m))
          /\ Once(toGs[t], LinesAbout(m)) => Once(toGs'[t], LinesAbout(m))
        BY <1>2 DEF NoneToGame
    <2>5. CASE seen'[m] = seen[m]
        BY <2>1, <2>2, <2>3, <2>4, <2>5, SettledKept
    <2>6. CASE seen'[m] # seen[m]
        <3>1. m = n /\ seen'[m] = seen[m] + 1 /\ Recipient(m) \in here[s]
            BY <1>6, <2>6, LetterFacts
        <3>2. t = s
            BY <2>1, <3>1 DEF LetterInv, OnePlace, SettledAt
        <3>3. MailLine(n, id) \in LinesAbout(m)
            BY <1>2, <3>1 DEF MailLine, LinesAbout
        <3>4. Meets(toGs[s], LinesAbout(m)) /\ ~Meets(toGs'[s], LinesAbout(m))
            BY <1>4, <2>1, <3>2, <3>3 DEF SettledAt
        <3>5. seen[m] \in Nat /\ seen[m] <= 1 /\ seen[m] # 1
            BY <1>1, <2>1, <3>2, <3>4, LetterFacts DEF SettledAt, MailTypes
        <3>6. seen'[m] <= 1
            BY <3>1, <3>5
        <3>7. ~Meets(fromGs'[t], {Flush(Recipient(m))})
            BY <2>1, <2>2 DEF NotSent, SettledAt
        <3>8. Once(toGs'[t], LinesAbout(m))
            BY <2>1, <2>4 DEF SettledAt
        <3> QED  BY <2>3, <3>2, <3>4, <3>6, <3>7, <3>8 DEF SettledAt
    <2> QED  BY <2>5, <2>6
<1>12. SettledLetters'
    BY <1>1, <1>11 DEF SettledLetters
<1> QED  BY <1>9, <1>10, <1>12 DEF LetterInv

(* Players that come and go, and servers that stop, take letters of those  *)
(* who leave out of settled.                                               *)
LEMMA MoveLetters ==
    ASSUME TypesHold, LetterInv, UNCHANGED strange, NEW s \in GameServer,
           ServerStops(s) \/ \E p \in Player : PlayerIn(p, s) \/ PlayerOut(p, s)
    PROVE  LetterInv'
<1>1. MailTypes /\ UNCHANGED <<written, seen>>
    BY DEF TypesHold, ServerStops, PlayerIn, PlayerOut, history
<1>2. here \in [GameServer -> SUBSET Player]
    BY <1>1 DEF MailTypes
<1>3. settled' \subseteq settled
    BY DEF ServerStops, PlayerIn, PlayerOut, history
<1>4. NoneToGame \/ UNCHANGED toGs
    BY <1>1, LinesKept
<1>5. NoNewName
    <2>1. StoreStays
        BY ServerTypes, PlayerTypes
    <2> QED  BY <1>4, <2>1, StoreNames
<1>6. /\ \A m \in Letters : NotSent({Message(m)})
      /\ \A q \in Player : NotSent({Flush(q)}) \/ PlayerIn(q, s)
    <2>1. CASE ServerStops(s)
        BY <1>1, <2>1, StopCuts, NoneIsSent
    <2>2. ASSUME NEW p \in Player, PlayerOut(p, s)  PROVE \A X : NotSent(X)
        BY <2>2, NoneIsSent DEF PlayerOut, streams
    <2>3. ASSUME NEW p \in Player, PlayerIn(p, s)
          PROVE  \A X : Flush(p) \notin X => NotSent(X)
        <3> DEFINE lines == <<Flush(p)>>
        <3>1. lines \in Seq(ToSaac) /\ \A X : Meets(lines, X) <=> Flush(p) \in X
            BY LineKinds, MeetsOne
        <3>2. LinesTo(s, lines)
            BY <2>3 DEF PlayerIn, Flush
        <3> HIDE DEF lines
        <3> QED  BY <1>1, <3>1, <3>2, OthersAreSent
    <2>4. ASSUME NEW p \in Player, PlayerIn(p, s)
          PROVE  /\ \A m \in Letters : NotSent({Message(m)})
                 /\ \A q \in Player : q # p => NotSent({Flush(q)})
        BY <2>3, <2>4, SentApart
    <2> QED  BY <2>1, <2>2, <2>4
<1>7. ASSUME NEW m \in Letters  PROVE FreshFor(m)'
    <2>1. Untold(m)
        BY <1>1, <1>3, <1>5, <1>6, NotUnderway, LetterFacts DEF Untold, NoNewName
    <2> QED  BY <2>1, UntoldFresh DEF LetterInv, LettersFresh, FreshFor
<1>8. LettersFresh'
    BY <1>7 DEF LettersFresh, FreshFor
<1>9. LettersOnce'
    BY <1>6, OnceKept DEF LetterInv
<1>10. OnePlace'
    <2>1. CASE ServerStops(s)
        <3>1. \A t \in GameServer : here'[t] \subseteq here[t]
            BY <1>2, <2>1 DEF ServerStops
        <3> QED  BY <3>1, OnePlaceKept DEF LetterInv
    <2>2. ASSUME NEW p \in Player, PlayerOut(p, s)  PROVE OnePlace'
        <3>1. \A t \in GameServer : here'[t] \subseteq here[t]
            BY <1>2, <2>2 DEF PlayerOut
        <3> QED  BY <3>1, OnePlaceKept DEF LetterInv
    <2>3. ASSUME NEW p \in Player, PlayerIn(p, s)  PROVE OnePlace'
        <3>1. /\ here'[s] = here[s] \union {p}
              /\ \A t \in GameServer : t # s => here'[t] = here[t]
              /\ \A t \in GameServer : p \notin here[t]
            BY <1>2, <2>3 DEF PlayerIn, In
        <3>2. \A t, u \in GameServer : t # u => here[t] \cap here[u] = {}
            BY DEF LetterInv, OnePlace
        <3>3. ASSUME NEW t \in GameServer, NEW u \in GameServer, t # u
              PROVE  here'[t] \cap here'[u] = {}
            <4>1. CASE t = s
                BY <3>1, <3>2, <3>3, <4>1
            <4>2. CASE u = s
                BY <3>1, <3>2, <3>3, <4>2
            <4>3. CASE t # s /\ u # s
                BY <3>1, <3>2, <3>3, <4>3
            <4> QED  BY <4>1, <4>2, <4>3
        <3> QED  BY <3>3 DEF OnePlace
    <2> QED  BY <2>1, <2>2, <2>3
<1>11. ASSUME NEW m \in Letters, m \in settled'
       PROVE  \E t \in GameServer : SettledAt(m, t)'
    <2>1. PICK t \in GameServer : SettledAt(m, t)
        BY <1>3, <1>11 DEF LetterInv, SettledLetters
    <2>2. Recipient(m) \in Player /\ Recipient(m) \in here[t] /\ m \in Mails
        BY <2>1, LetterFacts, RecipientTypes DEF SettledAt
    <2>3. m \in MailsTo(Recipient(m))
        BY <2>2 DEF MailsTo
    <2>4. Recipient(m) \in here'[t]
        <3>1. CASE ServerStops(s)
            <4>1. t # s
                BY <1>11, <2>2, <2>3, <3>1 DEF ServerStops
            <4> QED  BY <1>2, <2>2, <3>1, <4>1 DEF ServerStops
        <3>2. ASSUME NEW p \in Player, PlayerOut(p, s)  PROVE Recipient(m) \in here'[t]
            <4>1. Recipient(m) # p
                BY <1>11, <2>3, <3>2 DEF PlayerOut
            <4> QED  BY <1>2, <2>2, <3>2, <4>1 DEF PlayerOut
        <3>3. ASSUME NEW p \in Player, PlayerIn(p, s)  PROVE Recipient(m) \in here'[t]
            BY <1>2, <2>2, <3>3 DEF PlayerIn
        <3> QED  BY <3>1, <3>2, <3>3
    <2>5. NotSent({Flush(Recipient(m))})
        <3>1. ~PlayerIn(Recipient(m), s)
            BY <2>2 DEF PlayerIn, In
        <3> QED  BY <1>6, <2>2, <3>1
    <2>6. /\ Meets(toGs'[t], LinesAbout(m)) => Meets(toGs[t], LinesAbout(m))
          /\ Once(toGs[t], LinesAbout(m)) => Once(toGs'[t], LinesAbout(m))
        BY <1>4 DEF NoneToGame
    <2> QED  BY <1>1, <2>1, <2>4, <2>5, <2>6, SettledKept
<1>12. SettledLetters'
    BY <1>11 DEF SettledLetters
<1> QED  BY <1>8, <1>9, <1>10, <1>12 DEF LetterInv

LEMMA InitLetters == MailInit => LetterInv
<1> SUFFICES ASSUME MailInit  PROVE LetterInv
    OBVIOUS
<1>1. /\ \A s \in GameServer : toGs[s] = <<>> /\ fromGs[s] = <<>>
      /\ mailbuf = <<>> /\ mailfile = {} /\ settled = {} /\ seen = [m \in Mails |-> 0]
    BY DEF MailInit, Everywhere
<1>2. \A m \in Mails : \A id \in Nat : ~Named(m, id)
    BY <1>1, MeetsNone DEF Named, FileNames, SlotNames, LineNames, Slots
<1>3. \A m : ~Underway(m)
    BY <1>1, MeetsNone DEF Underway
<1>4. LettersFresh
    BY <1>1, <1>2, <1>3, LetterFacts DEF LettersFresh, Unknown
<1>5. LettersOnce
    BY <1>1, MeetsNone DEF LettersOnce
<1>6. OnePlace
    BY DEF MailInit, OnePlace
<1>7. SettledLetters
    BY <1>1 DEF SettledLetters
<1> QED  BY <1>4, <1>5, <1>6, <1>7 DEF LetterInv

LEMMA NextLetters ==
    TypesHold /\ LetterInv /\ [MailNext]_mailVars => LetterInv'
<1> SUFFICES ASSUME TypesHold, LetterInv, [MailNext]_mailVars  PROVE LetterInv'
    OBVIOUS
<1>1. CASE MailNext
    <2>1. MailStep /\ UNCHANGED strange
        BY <1>1 DEF MailNext
    <2> QED  BY <2>1, CalmSteps, StopLetters, FlushLetters, ReceiveLetters, SendLetters,
                TakeLetters, MoveLetters DEF MailStep
<1>2. CASE UNCHANGED mailVars
    <2>1. /\ UNCHANGED <<mailbuf, mailfile, mailid, toGs, fromGs, written, seen,
                         settled, here>>
        BY <1>2 DEF mailVars
    <2>2. NoNewName
        BY <2>1 DEF NoNewName, Named, FileNames, SlotNames, LineNames, Slots
    <2>3. \A X : NotSent(X)
        BY <2>1, NoneIsSent
    <2> QED  BY <2>1, <2>2, <2>3, CalmStep DEF TypesHold
<1> QED  BY <1>1, <1>2

(* A letter that comes to a recipient who is in and stays is shown once.   *)
THEOREM SettledOnce == MailSpec => []SettledSeenOnce
<1>1. MailInit => LetterInv
    BY InitLetters
<1>2. MailInv => TypesHold
    BY DEF MailInv, TypesHold
<1>3. TypesHold /\ LetterInv /\ [MailNext]_mailVars => LetterInv'
    BY NextLetters
<1>4. TypesHold /\ LetterInv => SettledSeenOnce
    <2> SUFFICES ASSUME TypesHold, LetterInv, NEW m \in settled, m[2] = "letter"
                 PROVE  seen[m] <= 1
        BY DEF SettledSeenOnce
    <2>1. m \in Letters
        BY LetterFacts DEF TypesHold, MailTypes
    <2> QED  BY <2>1 DEF LetterInv, SettledLetters, SettledAt
<1> QED  BY <1>1, <1>2, <1>3, <1>4, MailInvariant, PTL DEF MailSpec
=============================================================================
