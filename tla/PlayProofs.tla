--------------------------------- MODULE PlayProofs ---------------------------
(***************************************************************************)
(* Proofs about the parties, the trades and the battles of those who play  *)
(* on one game server, for every number of characters, battles and lists,  *)
(* and every size of a party and of a battle.                              *)
(***************************************************************************)
EXTENDS Play, TLAPS, WellFoundedInduction, FiniteSetTheorems

USE PartyAssumption DEF PartyAssumption

(***************************************************************************)
(* The parties: leaders and members tell the same story.  The functions of *)
(* char_party.c are operators on the parties as they stand, and one        *)
(* handler calls several; so the property is stated of any parties P, and  *)
(* each function is shown to keep it.                                      *)
(***************************************************************************)
MemberIn(P, c) ==
    /\ P.slot[c][0] \in on \ {c} /\ P.mode[P.slot[c][0]] = "LEADER"
    /\ \E i \in Member : P.slot[P.slot[c][0]][i] = c
    /\ \A i \in Member : P.slot[c][i] = None

FollowerIn(P, l, x) == x \in on \ {l} /\ P.mode[x] = "CLIENT" /\ P.slot[x][0] = l

LeaderIn(P, l) ==
    /\ P.slot[l][0] = l
    /\ \E i \in Member : P.slot[l][i] # None
    /\ \A i \in Member : P.slot[l][i] # None =>
          /\ FollowerIn(P, l, P.slot[l][i])
          /\ \A j \in Member : P.slot[l][j] = P.slot[l][i] => i = j

Agrees(P) ==
    /\ \A c \in on : P.mode[c] = "CLIENT" => MemberIn(P, c)
    /\ \A c \in on : P.mode[c] = "LEADER" => LeaderIn(P, c)
    /\ \A c \in on : P.mode[c] = "NONE"   => \A i \in Member : P.slot[c][i] = None
    /\ \A c \in Char \ on : P.mode[c] = "NONE"

PartyInv == PartyTypes /\ Agrees(PartyNow)

-----------------------------------------------------------------------------
(* The least of some numbers is one of them.                               *)
LEMMA FirstOfIn == ASSUME NEW I \in SUBSET Nat, I # {}
                   PROVE  FirstOf(I) \in I
  <1> DEFINE R == {ss \in Nat \X Nat : ss[1] < ss[2]}
  <1>1. R = OpToRel(<, Nat)
    BY Zenon DEF OpToRel
  <1>2. IsWellFoundedOn(R, Nat)
    BY <1>1, NatLessThanWellFounded, Zenon
  <1>3. PICK m \in I : \A y \in I : ~(<<y, m>> \in R)
    <2> HIDE DEF R
    <2> QED
      BY <1>2, WFMin
  <1>4. ASSUME NEW y \in I PROVE m <= y
    <2>1. m \in Nat /\ y \in Nat
      OBVIOUS
    <2>2. ~(y < m)
      BY <1>3, <2>1
    <2> QED
      BY <2>1, <2>2
  <1> QED
    BY <1>4 DEF FirstOf

(* The one number with a property is the least of those that have it.      *)
LEMMA FirstOfOne == ASSUME NEW i \in Nat PROVE FirstOf({i}) = i
  BY DEF FirstOf

LEMMA PlaceFacts == /\ Member \subseteq Place /\ Place \subseteq Nat
                    /\ 0 \in Place /\ 0 \notin Member /\ Place \ {0} = Member
  BY DEF Place, Member

LEMMA NowTyped == PartyTypes => PartyNow \in Parties /\ on \subseteq Char
  BY DEF PartyTypes, PartyNow, Parties

(* The property of the run is the property of the parties as they stand.   *)
LEMMA AgreesIsAgrees == PartyTypes => (PartyAgrees <=> Agrees(PartyNow))
  <1>1. PartyNow.mode = pmode /\ PartyNow.slot = pslot
    BY DEF PartyNow
  <1>2. ASSUME NEW c \in Char PROVE MemberIn(PartyNow, c) <=> MemberAgrees(c)
    BY <1>1 DEF MemberIn, MemberAgrees
  <1>3. ASSUME NEW c \in Char PROVE LeaderIn(PartyNow, c) <=> LeaderAgrees(c)
    BY <1>1 DEF LeaderIn, LeaderAgrees, FollowerIn
  <1> QED
    BY <1>1, <1>2, <1>3 DEF PartyTypes, PMode, PartyAgrees, Agrees

-----------------------------------------------------------------------------
(* CHAR_DischargeParty of a leader                                         *)
LEMMA DisbandKeeps ==
    ASSUME NEW P \in Parties, on \subseteq Char, Agrees(P), NEW c \in on, P.mode[c] = "LEADER"
    PROVE  /\ Disband(P, c) \in Parties /\ Agrees(Disband(P, c))
           /\ Disband(P, c).mode[c] = "NONE"
           /\ \A x \in on : P.mode[x] = "NONE" => Disband(P, c).mode[x] = "NONE"
  <1> DEFINE Q == Disband(P, c)
             M == Members(P, c)
  <1>1. /\ Q.mode = [x \in Char |-> IF x \in M THEN "NONE" ELSE P.mode[x]]
        /\ Q.slot = [x \in Char |-> IF x = c THEN NoSlots
                                    ELSE IF x \in M THEN [P.slot[x] EXCEPT ![0] = None]
                                    ELSE P.slot[x]]
        /\ Q = [mode |-> Q.mode, slot |-> Q.slot]
    BY DEF Disband
  <1>2. P.mode \in [Char -> PMode] /\ P.slot \in [Char -> [Place -> Char \union {None}]]
    BY DEF Parties
  <1>3. M \subseteq on /\ \A x \in on : x \in M <=> \E i \in Place : P.slot[c][i] = x
    BY DEF Members
  <1>4. LeaderIn(P, c) /\ c \in M
    BY <1>3, PlaceFacts DEF Agrees, LeaderIn
  <1>5. ASSUME NEW x \in M, x # c
        PROVE  P.mode[x] = "CLIENT" /\ P.slot[x][0] = c /\ MemberIn(P, x)
    BY <1>3, <1>4, <1>5, PlaceFacts DEF LeaderIn, FollowerIn, Agrees
  <1>6. NoSlots \in [Place -> Char \union {None}] /\ \A i \in Place : NoSlots[i] = None
    BY DEF NoSlots
  <1>7. Q \in Parties
    <2>1. Q.mode \in [Char -> PMode]
      BY <1>1, <1>2 DEF PMode
    <2> HIDE DEF Q, M
    <2>2. \A x \in Char : [P.slot[x] EXCEPT ![0] = None] \in [Place -> Char \union {None}]
      BY <1>2
    <2>3. Q.slot \in [Char -> [Place -> Char \union {None}]]
      BY <1>1, <1>2, <1>6, <2>2
    <2> QED
      BY <1>1, <2>1, <2>3 DEF Parties
  <1> HIDE DEF Q, M
  <1>8. ASSUME NEW x \in on, Q.mode[x] = "CLIENT" PROVE MemberIn(Q, x)
    <2>1. x \notin M /\ P.mode[x] = "CLIENT" /\ MemberIn(P, x) /\ x # c
      BY <1>1, <1>4, <1>8 DEF Agrees
    <2> DEFINE l == P.slot[x][0]
    <2>2. l \in on /\ l # c /\ P.mode[l] = "LEADER"
      BY <1>3, <2>1, PlaceFacts DEF MemberIn
    <2>3. l \notin M
      BY <1>5, <2>2
    <2>4. Q.slot[x] = P.slot[x] /\ Q.slot[l] = P.slot[l] /\ Q.mode[l] = "LEADER"
      BY <1>1, <2>1, <2>2, <2>3
    <2> QED
      BY <2>1, <2>2, <2>4 DEF MemberIn
  <1>9. ASSUME NEW x \in on, Q.mode[x] = "LEADER" PROVE LeaderIn(Q, x)
    <2>1. x \notin M /\ P.mode[x] = "LEADER" /\ LeaderIn(P, x) /\ x # c
      BY <1>1, <1>4, <1>9 DEF Agrees
    <2>2. Q.slot[x] = P.slot[x]
      BY <1>1, <2>1
    <2>3. ASSUME NEW y \in on, FollowerIn(P, x, y) PROVE FollowerIn(Q, x, y)
      <3>1. y \notin M /\ y # c
        BY <1>5, <2>1, <2>3 DEF FollowerIn
      <3> QED
        BY <1>1, <2>3, <3>1 DEF FollowerIn
    <2> QED
      BY <2>1, <2>2, <2>3 DEF LeaderIn, FollowerIn
  <1>10. ASSUME NEW x \in on, Q.mode[x] = "NONE", NEW i \in Member PROVE Q.slot[x][i] = None
    <2>1. CASE x = c
      BY <1>1, <1>6, <2>1, PlaceFacts
    <2>2. CASE x # c /\ x \in M
      <3>1. P.slot[x][i] = None
        BY <1>5, <2>2 DEF MemberIn
      <3> QED
        BY <1>1, <1>2, <2>2, <3>1, PlaceFacts
    <2>3. CASE x # c /\ x \notin M
      BY <1>1, <1>10, <2>3 DEF Agrees
    <2> QED
      BY <2>1, <2>2, <2>3
  <1>11. \A x \in Char \ on : Q.mode[x] = "NONE"
    BY <1>1, <1>3 DEF Agrees
  <1>12. Agrees(Q)
    BY <1>8, <1>9, <1>10, <1>11 DEF Agrees
  <1>13. Q.mode[c] = "NONE" /\ \A x \in on : P.mode[x] = "NONE" => Q.mode[x] = "NONE"
    BY <1>1, <1>4
  <1> QED
    BY <1>7, <1>12, <1>13 DEF Q

(* ... of a member                                                         *)
LEMMA LeaveKeeps ==
    ASSUME NEW P \in Parties, on \subseteq Char, Agrees(P), NEW c \in on, P.mode[c] = "CLIENT"
    PROVE  /\ Leave(P, c) \in Parties /\ Agrees(Leave(P, c))
           /\ Leave(P, c).mode[c] = "NONE"
           /\ \A x \in on : P.mode[x] = "NONE" => Leave(P, c).mode[x] = "NONE"
  <1> DEFINE Q == Leave(P, c)
             l == P.slot[c][0]
             rest == WithoutPlace(P, l, c)
             last == \A i \in Member : rest[i] \notin on
  <1>1. P.mode \in [Char -> PMode] /\ P.slot \in [Char -> [Place -> Char \union {None}]]
    BY DEF Parties
  <1>2. MemberIn(P, c)
    BY DEF Agrees
  <1>3. l \in on /\ l # c /\ P.mode[l] = "LEADER" /\ LeaderIn(P, l)
    BY <1>2 DEF MemberIn, Agrees
  <1>4. PICK p \in Member : P.slot[l][p] = c
    BY <1>2 DEF MemberIn
  <1>5. {i \in Place : P.slot[l][i] = c} = {p}
    <2>1. P.slot[l][0] # c
      BY <1>3 DEF LeaderIn
    <2>2. \A i \in Member : P.slot[l][i] = c => i = p
      BY <1>3, <1>4, <1>1 DEF LeaderIn
    <2> QED
      BY <1>4, <2>1, <2>2, PlaceFacts
  <1>6. rest = [P.slot[l] EXCEPT ![p] = None]
    BY <1>5, FirstOfOne, PlaceFacts DEF WithoutPlace
  <1>7. /\ Q.mode = [P.mode EXCEPT ![c] = "NONE", ![l] = IF last THEN "NONE" ELSE P.mode[l]]
        /\ Q.slot = [P.slot EXCEPT ![c] = [P.slot[c] EXCEPT ![0] = None], ![l] = rest]
        /\ Q = [mode |-> Q.mode, slot |-> Q.slot]
    BY <1>3 DEF Leave
  <1> HIDE DEF Q, rest, last
  <1>8. Q \in Parties
    <2>1. Q.mode \in [Char -> PMode]
      <3>1. PICK v \in PMode : v = IF last THEN "NONE" ELSE P.mode[l]
        BY <1>3 DEF PMode
      <3>2. Q.mode = [P.mode EXCEPT ![c] = "NONE", ![l] = v]
        BY <1>7, <3>1
      <3> QED
        BY <1>1, <3>2 DEF PMode
    <2>2. rest \in [Place -> Char \union {None}]
      BY <1>1, <1>3, <1>6
    <2>3. PICK s \in [Place -> Char \union {None}] : s = [P.slot[c] EXCEPT ![0] = None]
      BY <1>1
    <2>4. Q.slot \in [Char -> [Place -> Char \union {None}]]
      <3>1. Q.slot = [P.slot EXCEPT ![c] = s, ![l] = rest]
        BY <1>7, <2>3
      <3> QED
        BY <1>1, <2>2, <3>1
    <2> QED
      BY <1>7, <2>1, <2>4 DEF Parties
  <1>9. \A x \in Char \ {c, l} : Q.mode[x] = P.mode[x] /\ Q.slot[x] = P.slot[x]
    BY <1>1, <1>7
  <1>10. /\ Q.mode[c] = "NONE" /\ Q.mode[l] = IF last THEN "NONE" ELSE "LEADER"
         /\ Q.slot[l] = rest
         /\ \A i \in Member : Q.slot[c][i] = P.slot[c][i]
    BY <1>1, <1>3, <1>7, PlaceFacts
  <1>11. /\ rest[0] = l /\ rest[p] = None
         /\ \A i \in Place \ {p} : rest[i] = P.slot[l][i]
    BY <1>1, <1>3, <1>4, <1>6, PlaceFacts DEF LeaderIn
  <1>12. ASSUME NEW i \in Member, rest[i] # None
         PROVE  rest[i] \in on /\ rest[i] # c /\ i # p /\ rest[i] = P.slot[l][i]
    <2>1. i # p /\ rest[i] = P.slot[l][i]
      BY <1>11, <1>12, PlaceFacts
    <2>2. P.slot[l][i] # c
      BY <1>5, <2>1, PlaceFacts
    <2> QED
      BY <1>3, <1>12, <2>1, <2>2 DEF LeaderIn, FollowerIn
  <1>13. ASSUME NEW x \in on, Q.mode[x] = "CLIENT" PROVE MemberIn(Q, x)
    <2>1. x # c /\ x # l /\ P.mode[x] = "CLIENT" /\ Q.slot[x] = P.slot[x] /\ MemberIn(P, x)
      BY <1>9, <1>10, <1>13 DEF Agrees
    <2> DEFINE k == P.slot[x][0]
    <2>2. k \in on /\ k # x /\ P.mode[k] = "LEADER" /\ k # c
      BY <2>1 DEF MemberIn
    <2>3. CASE k = l
      <3>1. PICK j \in Member : P.slot[l][j] = x
        BY <2>1, <2>3 DEF MemberIn
      <3>2. rest[j] = x
        BY <1>4, <1>11, <2>1, <3>1, PlaceFacts
      <3>3. Q.mode[l] = "LEADER"
        BY <1>10, <3>2 DEF last
      <3> QED
        BY <1>3, <1>10, <2>1, <2>3, <3>2, <3>3 DEF MemberIn
    <2>4. CASE k # l
      BY <1>9, <2>1, <2>2, <2>4 DEF MemberIn
    <2> QED
      BY <2>3, <2>4
  <1>14. ASSUME NEW x \in on, Q.mode[x] = "LEADER" PROVE LeaderIn(Q, x)
    <2>1. CASE x = l
      <3>1. PICK i \in Member : rest[i] \in on
        BY <1>10, <1>14, <2>1 DEF last
      <3>2. rest[i] # None
        BY <3>1
      <3>3. ASSUME NEW j \in Member, rest[j] # None PROVE FollowerIn(Q, l, rest[j])
        <4>1. FollowerIn(P, l, rest[j])
          BY <1>3, <1>12, <3>3 DEF LeaderIn
        <4> QED
          BY <1>9, <1>12, <3>3, <4>1 DEF FollowerIn
      <3>4. ASSUME NEW j \in Member, rest[j] # None, NEW k \in Member, rest[k] = rest[j]
            PROVE  j = k
        BY <1>3, <1>12, <3>4 DEF LeaderIn
      <3> QED
        BY <1>10, <1>11, <2>1, <3>2, <3>3, <3>4 DEF LeaderIn
    <2>2. CASE x # l
      <3>1. x # c /\ P.mode[x] = "LEADER" /\ Q.slot[x] = P.slot[x] /\ LeaderIn(P, x)
        BY <1>9, <1>10, <1>14, <2>2 DEF Agrees
      <3>2. ASSUME NEW y, FollowerIn(P, x, y) PROVE FollowerIn(Q, x, y)
        <4>1. y # c /\ y # l
          BY <1>3, <2>2, <3>2 DEF FollowerIn
        <4> QED
          BY <1>9, <3>2, <4>1 DEF FollowerIn
      <3> QED
        BY <3>1, <3>2 DEF LeaderIn
    <2> QED
      BY <2>1, <2>2
  <1>15. ASSUME NEW x \in on, Q.mode[x] = "NONE", NEW i \in Member PROVE Q.slot[x][i] = None
    <2>1. CASE x = c
      BY <1>2, <1>10, <2>1 DEF MemberIn
    <2>2. CASE x = l
      BY <1>10, <1>12, <1>15, <2>2 DEF last
    <2>3. CASE x # c /\ x # l
      BY <1>9, <1>15, <2>3 DEF Agrees
    <2> QED
      BY <2>1, <2>2, <2>3
  <1>16. \A x \in Char \ on : Q.mode[x] = "NONE"
    BY <1>3, <1>9 DEF Agrees
  <1>17. Agrees(Q)
    BY <1>13, <1>14, <1>15, <1>16 DEF Agrees
  <1>18. Q.mode[c] = "NONE" /\ \A x \in on : P.mode[x] = "NONE" => Q.mode[x] = "NONE"
    BY <1>3, <1>9, <1>10
  <1> QED
    BY <1>8, <1>17, <1>18 DEF Q

(* CHAR_DischargeParty: whoever is discharged is in no party, and nobody   *)
(* who was in none is put in one.                                          *)
LEMMA DischargeKeeps ==
    ASSUME NEW P \in Parties, on \subseteq Char, Agrees(P), NEW c \in on
    PROVE  /\ Discharge(P, c) \in Parties /\ Agrees(Discharge(P, c))
           /\ Discharge(P, c).mode[c] = "NONE"
           /\ \A x \in on : P.mode[x] = "NONE" => Discharge(P, c).mode[x] = "NONE"
  <1>1. P.mode[c] \in PMode
    BY DEF Parties
  <1>2. CASE P.mode[c] = "LEADER"
    BY <1>2, DisbandKeeps DEF Discharge
  <1>3. CASE P.mode[c] = "CLIENT"
    BY <1>3, LeaveKeeps DEF Discharge
  <1>4. CASE P.mode[c] = "NONE"
    BY <1>4 DEF Discharge
  <1> QED
    BY <1>1, <1>2, <1>3, <1>4 DEF PMode

-----------------------------------------------------------------------------
(* Whose party t is in, if in none its own, is led or could be.            *)
LEMMA LeaderOfFacts ==
    ASSUME NEW P \in Parties, on \subseteq Char, Agrees(P), NEW t \in on
    PROVE  /\ LeaderOf(P, t) \in on
           /\ P.mode[LeaderOf(P, t)] \in {"NONE", "LEADER"}
           /\ P.mode[t] = "NONE" => LeaderOf(P, t) = t
           /\ P.mode[t] # "NONE" => P.mode[LeaderOf(P, t)] = "LEADER"
  <1>1. P.mode[t] \in PMode
    BY DEF Parties
  <1>2. CASE P.mode[t] = "NONE"
    BY <1>2 DEF LeaderOf
  <1>3. CASE P.mode[t] = "LEADER"
    BY <1>3 DEF LeaderOf, Agrees, LeaderIn
  <1>4. CASE P.mode[t] = "CLIENT"
    <2>1. MemberIn(P, t)
      BY <1>4 DEF Agrees
    <2>2. LeaderIn(P, P.slot[t][0])
      BY <2>1 DEF MemberIn, Agrees
    <2> QED
      BY <1>4, <2>1, <2>2 DEF LeaderOf, MemberIn, LeaderIn
  <1> QED
    BY <1>1, <1>2, <1>3, <1>4 DEF PMode

(* CHAR_JoinParty_Main, of someone in no party and with a place left       *)
LEMMA JoinKeeps ==
    ASSUME NEW P \in Parties, on \subseteq Char, Agrees(P),
           NEW c \in on, P.mode[c] = "NONE", NEW t \in on, t # c,
           EmptyPlaces(P, LeaderOf(P, t)) # {}
    PROVE  JoinMain(P, c, t) \in Parties /\ Agrees(JoinMain(P, c, t))
  <1> DEFINE Q == JoinMain(P, c, t)
             l == LeaderOf(P, t)
             p == FirstOf(EmptyPlaces(P, l))
             s == [[P.slot[l] EXCEPT ![0] = l] EXCEPT ![p] = c]
  <1>1. P.mode \in [Char -> PMode] /\ P.slot \in [Char -> [Place -> Char \union {None}]]
    BY DEF Parties
  <1>2. l \in on /\ l # c /\ P.mode[l] \in {"NONE", "LEADER"}
    BY LeaderOfFacts
  <1>3. p \in Member /\ P.slot[l][p] = None
    <2>1. EmptyPlaces(P, l) \in SUBSET Nat
      BY PlaceFacts DEF EmptyPlaces
    <2> QED
      BY <2>1, FirstOfIn DEF EmptyPlaces
  <1>4. /\ Q.mode = [P.mode EXCEPT ![l] = "LEADER", ![c] = "CLIENT"]
        /\ Q.slot = [P.slot EXCEPT ![l] = s, ![c] = [P.slot[c] EXCEPT ![0] = l]]
        /\ Q = [mode |-> Q.mode, slot |-> Q.slot]
    BY DEF JoinMain
  <1> HIDE DEF Q, l, p
  <1>5. /\ s \in [Place -> Char \union {None}] /\ s[0] = l /\ s[p] = c
        /\ \A i \in Member \ {p} : s[i] = P.slot[l][i]
    BY <1>1, <1>2, <1>3, PlaceFacts
  <1> HIDE DEF s
  <1>6. Q \in Parties
    <2>1. Q.mode \in [Char -> PMode]
      BY <1>1, <1>4 DEF PMode
    <2>2. PICK k \in [Place -> Char \union {None}] : k = [P.slot[c] EXCEPT ![0] = l]
      BY <1>1, <1>2
    <2>3. Q.slot = [P.slot EXCEPT ![l] = s, ![c] = k]
      BY <1>4, <2>2
    <2>4. Q.slot \in [Char -> [Place -> Char \union {None}]]
      BY <1>1, <1>5, <2>3
    <2> QED
      BY <1>4, <2>1, <2>4 DEF Parties
  <1>7. \A x \in Char \ {c, l} : Q.mode[x] = P.mode[x] /\ Q.slot[x] = P.slot[x]
    BY <1>1, <1>4
  <1>8. /\ Q.mode[c] = "CLIENT" /\ Q.mode[l] = "LEADER" /\ Q.slot[l] = s /\ Q.slot[c][0] = l
        /\ \A i \in Member : Q.slot[c][i] = P.slot[c][i]
    BY <1>1, <1>2, <1>4, PlaceFacts
  <1>9. ASSUME NEW i \in Member, P.slot[l][i] # None
        PROVE  /\ P.mode[l] = "LEADER" /\ LeaderIn(P, l) /\ i # p /\ s[i] = P.slot[l][i]
               /\ P.slot[l][i] \notin {c, l}
    <2>1. P.mode[l] = "LEADER" /\ LeaderIn(P, l)
      BY <1>2, <1>9 DEF Agrees
    <2>2. FollowerIn(P, l, P.slot[l][i])
      BY <1>9, <2>1 DEF LeaderIn
    <2> QED
      BY <1>3, <1>5, <1>9, <2>1, <2>2 DEF FollowerIn
  <1>10. ASSUME NEW x \in on, Q.mode[x] = "CLIENT" PROVE MemberIn(Q, x)
    <2>1. CASE x = c
      <3>1. \A i \in Member : P.slot[c][i] = None
        BY DEF Agrees
      <3> QED
        BY <1>2, <1>3, <1>5, <1>8, <2>1, <3>1 DEF MemberIn
    <2>2. CASE x # c
      <3>1. x # l /\ P.mode[x] = "CLIENT" /\ MemberIn(P, x) /\ Q.slot[x] = P.slot[x]
        BY <1>7, <1>8, <1>10, <2>2 DEF Agrees
      <3> DEFINE k == P.slot[x][0]
      <3>2. PICK j \in Member : P.slot[k][j] = x
        BY <3>1 DEF MemberIn
      <3>3. k \in on /\ k # x /\ k # c /\ P.mode[k] = "LEADER"
        BY <3>1 DEF MemberIn
      <3>4. Q.mode[k] = "LEADER" /\ Q.slot[k][j] = x
        BY <1>7, <1>8, <1>9, <3>2, <3>3
      <3> QED
        BY <3>1, <3>3, <3>4 DEF MemberIn
    <2> QED
      BY <2>1, <2>2
  <1>11. ASSUME NEW x \in on, Q.mode[x] = "LEADER" PROVE LeaderIn(Q, x)
    <2>1. CASE x = l
      <3>1. FollowerIn(Q, l, c)
        BY <1>2, <1>8 DEF FollowerIn
      <3>2. ASSUME NEW i \in Member, P.slot[l][i] # None PROVE FollowerIn(Q, l, P.slot[l][i])
        <4>1. FollowerIn(P, l, P.slot[l][i])
          BY <1>9, <3>2 DEF LeaderIn
        <4> QED
          BY <1>7, <1>9, <3>2, <4>1 DEF FollowerIn
      <3>3. ASSUME NEW i \in Member, s[i] # None PROVE FollowerIn(Q, l, s[i])
        BY <1>5, <3>1, <3>2, <3>3
      <3>4. ASSUME NEW i \in Member, s[i] # None, NEW j \in Member, s[j] = s[i] PROVE i = j
        BY <1>5, <1>9, <3>4 DEF LeaderIn
      <3> QED
        BY <1>3, <1>5, <1>8, <2>1, <3>3, <3>4 DEF LeaderIn
    <2>2. CASE x # l
      <3>1. x # c /\ P.mode[x] = "LEADER" /\ Q.slot[x] = P.slot[x] /\ LeaderIn(P, x)
        BY <1>7, <1>8, <1>11, <2>2 DEF Agrees
      <3>2. ASSUME NEW y, FollowerIn(P, x, y) PROVE FollowerIn(Q, x, y)
        <4>1. y # c /\ y # l
          BY <1>2, <3>2 DEF FollowerIn
        <4> QED
          BY <1>7, <3>2, <4>1 DEF FollowerIn
      <3> QED
        BY <3>1, <3>2 DEF LeaderIn
    <2> QED
      BY <2>1, <2>2
  <1>12. ASSUME NEW x \in on, Q.mode[x] = "NONE", NEW i \in Member PROVE Q.slot[x][i] = None
    BY <1>7, <1>8, <1>12 DEF Agrees
  <1>13. \A x \in Char \ on : Q.mode[x] = "NONE"
    BY <1>2, <1>7 DEF Agrees
  <1>14. Agrees(Q)
    BY <1>10, <1>11, <1>12, <1>13 DEF Agrees
  <1> QED
    BY <1>6, <1>14 DEF Q

-----------------------------------------------------------------------------
(* The parties become those that a function has returned.                  *)
LEMMA BecomesKeeps ==
    ASSUME NEW Q \in Parties, Agrees(Q), PartyBecomes(Q), on \subseteq Char, UNCHANGED on
    PROVE  PartyInv'
  <1>1. pmode' = Q.mode /\ pslot' = Q.slot
    BY DEF PartyBecomes
  <1>2. PartyTypes'
    BY <1>1 DEF PartyTypes, Parties
  <1>3. Agrees(PartyNow)'
    BY <1>1 DEF Agrees, MemberIn, LeaderIn, FollowerIn, PartyNow
  <1> QED
    BY <1>2, <1>3 DEF PartyInv

(* ... and someone who is in none of them leaves the game.                 *)
LEMMA GoneKeeps ==
    ASSUME NEW Q \in Parties, Agrees(Q), PartyBecomes(Q), on \subseteq Char,
           NEW c \in on, Q.mode[c] = "NONE", on' = on \ {c}
    PROVE  PartyInv'
  <1>1. pmode' = Q.mode /\ pslot' = Q.slot
    BY DEF PartyBecomes
  <1>2. PartyTypes'
    BY <1>1 DEF PartyTypes, Parties
  <1>3. ASSUME NEW x \in on', Q.mode[x] = "CLIENT" PROVE MemberIn(PartyNow, x)'
    BY <1>1, <1>3 DEF Agrees, MemberIn, PartyNow
  <1>4. ASSUME NEW x \in on', Q.mode[x] = "LEADER" PROVE LeaderIn(PartyNow, x)'
    BY <1>1, <1>4 DEF Agrees, LeaderIn, FollowerIn, PartyNow
  <1>5. Agrees(PartyNow)'
    BY <1>1, <1>3, <1>4 DEF Agrees, PartyNow
  <1> QED
    BY <1>2, <1>5 DEF PartyInv

LEMMA PartyInitInv == PartyInit => PartyInv
  BY PlaceFacts DEF PartyInit, PartyInv, PartyTypes, PMode, NoSlots, Agrees, PartyNow

(* Whoever comes takes an index that no party names.                       *)
LEMMA PartyLoginKeeps == ASSUME PartyInv, NEW c \in Char, PartyLogin(c) PROVE PartyInv'
  <1>1. /\ c \notin on /\ on' = on \union {c}
        /\ pmode' = [pmode EXCEPT ![c] = "NONE"] /\ pslot' = [pslot EXCEPT ![c] = NoSlots]
    BY DEF PartyLogin
  <1>2. PartyTypes /\ Agrees(PartyNow)
    BY DEF PartyInv
  <1>3. NoSlots \in [Place -> Char \union {None}] /\ \A i \in Member : NoSlots[i] = None
    BY PlaceFacts DEF NoSlots
  <1>4. PartyTypes'
    BY <1>1, <1>2, <1>3 DEF PartyTypes, PMode
  <1>5. /\ pmode'[c] = "NONE" /\ pslot'[c] = NoSlots
        /\ \A x \in on : pmode'[x] = pmode[x] /\ pslot'[x] = pslot[x]
    BY <1>1, <1>2 DEF PartyTypes
  <1>6. ASSUME NEW x \in on', pmode'[x] = "CLIENT" PROVE MemberIn(PartyNow, x)'
    <2>1. x \in on /\ MemberIn(PartyNow, x)
      BY <1>1, <1>2, <1>5, <1>6 DEF Agrees, PartyNow
    <2> QED
      BY <1>1, <1>5, <2>1 DEF MemberIn, PartyNow
  <1>7. ASSUME NEW x \in on', pmode'[x] = "LEADER" PROVE LeaderIn(PartyNow, x)'
    <2>1. x \in on /\ LeaderIn(PartyNow, x)
      BY <1>1, <1>2, <1>5, <1>7 DEF Agrees, PartyNow
    <2> QED
      BY <1>1, <1>5, <2>1 DEF LeaderIn, FollowerIn, PartyNow
  <1>8. ASSUME NEW x \in on', pmode'[x] = "NONE", NEW i \in Member PROVE pslot'[x][i] = None
    BY <1>1, <1>2, <1>3, <1>5, <1>8 DEF Agrees, PartyNow
  <1>9. \A x \in Char \ on' : pmode'[x] = "NONE"
    BY <1>1, <1>2 DEF Agrees, PartyNow, PartyTypes
  <1>10. Agrees(PartyNow)'
    BY <1>6, <1>7, <1>8, <1>9 DEF Agrees, PartyNow
  <1> QED
    BY <1>4, <1>10 DEF PartyInv

LEMMA PartyLogoutKeeps == ASSUME PartyInv, NEW c \in Char, PartyLogout(c) PROVE PartyInv'
  BY NowTyped, DischargeKeeps, GoneKeeps DEF PartyInv, PartyLogout

LEMMA LeavePartyKeeps == ASSUME PartyInv, NEW c \in Char, LeaveParty(c) PROVE PartyInv'
  BY NowTyped, DischargeKeeps, BecomesKeeps DEF PartyInv, LeaveParty

LEMMA KickKeeps == ASSUME PartyInv, NEW c \in Char, NEW i \in Kickable, Kick(c, i)
                   PROVE  PartyInv'
  <1>1. PICK x \in on : PartyBecomes(Discharge(PartyNow, x))
    BY DEF Kick
  <1>2. UNCHANGED on
    BY DEF Kick
  <1> QED
    BY <1>1, <1>2, NowTyped, DischargeKeeps, BecomesKeeps DEF PartyInv

LEMMA JoinPartyKeeps == ASSUME PartyInv, NEW c \in Char, NEW t \in Char, JoinParty(c, t)
                        PROVE  PartyInv'
  <1>1. PartyNow \in Parties /\ on \subseteq Char /\ PartyNow.mode[c] = "NONE"
    BY NowTyped DEF PartyInv, JoinParty, PartyNow
  <1> QED
    BY <1>1, JoinKeeps, BecomesKeeps DEF PartyInv, JoinParty

LEMMA MakePairKeeps == ASSUME PartyInv, NEW c \in Char, NEW t \in Char, MakePair(c, t)
                       PROVE  PartyInv'
  <1> DEFINE P == Discharge(PartyNow, c)
             Q == Discharge(P, t)
  <1>1. PartyNow \in Parties /\ on \subseteq Char /\ Agrees(PartyNow)
    BY NowTyped DEF PartyInv
  <1>2. c \in on /\ t \in on /\ t # c /\ PartyBecomes(JoinMain(Q, c, t)) /\ UNCHANGED on
    BY DEF MakePair
  <1>3. P \in Parties /\ Agrees(P) /\ P.mode[c] = "NONE"
    BY <1>1, <1>2, DischargeKeeps
  <1> HIDE DEF P
  <1>4. Q \in Parties /\ Agrees(Q) /\ Q.mode[c] = "NONE" /\ Q.mode[t] = "NONE"
    BY <1>1, <1>2, <1>3, DischargeKeeps
  <1> HIDE DEF Q
  <1>5. LeaderOf(Q, t) = t
    BY <1>4 DEF LeaderOf
  <1>6. EmptyPlaces(Q, t) # {}
    <2>1. 1 \in Member
      BY DEF Member
    <2> QED
      BY <1>2, <1>4, <2>1 DEF EmptyPlaces, Agrees
  <1>7. JoinMain(Q, c, t) \in Parties /\ Agrees(JoinMain(Q, c, t))
    BY <1>1, <1>2, <1>4, <1>5, <1>6, JoinKeeps
  <1> QED
    BY <1>1, <1>2, <1>7, BecomesKeeps

LEMMA PartyStepInv == PartyInv /\ [PartyNext]_partyVars => PartyInv'
  <1> SUFFICES ASSUME PartyInv, [PartyNext]_partyVars PROVE PartyInv'
    OBVIOUS
  <1>1. CASE UNCHANGED partyVars
    BY <1>1 DEF partyVars, PartyInv, PartyTypes, Agrees, MemberIn, LeaderIn, FollowerIn, PartyNow
  <1>2. ASSUME NEW c \in Char, PartyLogin(c) PROVE PartyInv'
    BY <1>2, PartyLoginKeeps
  <1>3. ASSUME NEW c \in Char, PartyLogout(c) PROVE PartyInv'
    BY <1>3, PartyLogoutKeeps
  <1>4. ASSUME NEW c \in Char, LeaveParty(c) PROVE PartyInv'
    BY <1>4, LeavePartyKeeps
  <1>5. ASSUME NEW c \in Char, NEW i \in Kickable, Kick(c, i) PROVE PartyInv'
    BY <1>5, KickKeeps
  <1>6. ASSUME NEW c \in Char, NEW t \in Char, JoinParty(c, t) PROVE PartyInv'
    BY <1>6, JoinPartyKeeps
  <1>7. ASSUME NEW c \in Char, NEW t \in Char, MakePair(c, t) PROVE PartyInv'
    BY <1>7, MakePairKeeps
  <1> QED
    BY <1>1, <1>2, <1>3, <1>4, <1>5, <1>6, <1>7 DEF PartyNext

-----------------------------------------------------------------------------
(* CHAR_JoinParty, CHAR_DischargeParty and the rest keep every index in    *)
(* range and every place typed, and leaders and members tell the same      *)
(* story after any sequence of them.                                       *)
THEOREM PartyInvAlways == PartySpec => []PartyInv
  BY PartyInitInv, PartyStepInv, PTL DEF PartySpec

(* A member is in one place of one leader, who leads somebody; no place    *)
(* names a character that has left, was put out, or whose index has passed *)
(* to another player (char_party.c, CHAR_logout).                          *)
THEOREM PartyAgreesAlways == PartySpec => []PartyAgrees
  <1>1. PartyInv => PartyAgrees
    BY AgreesIsAgrees DEF PartyInv
  <1> QED
    BY <1>1, PartyInvAlways, PTL

-----------------------------------------------------------------------------
(***************************************************************************)
(* The trades, while players come and go, make parties and fight.          *)
(***************************************************************************)
USE TradeAssumption DEF TradeAssumption

Sides == {1, 2}
ListType == [use : BOOLEAN, who : [Sides -> Char \union {None}],
             fd : [Sides -> Fd \union {None}], shown : [Sides -> 0 .. MaxShown]]

ModesTyped ==
    /\ on \subseteq Char
    /\ fd \in [Char -> Fd \union {None}] /\ \A c \in Char : c \in on <=> fd[c] # None
    /\ tmode \in [Char -> TradeMode] /\ conf \in [Char -> BOOLEAN]
    /\ mylist \in [Char -> TradeIndex \union {None}]
    /\ \A c \in Char \ on : tmode[c] = "FREE" /\ mylist[c] = None

ListsTyped == list \in [TradeIndex -> ListType]

(* c is named, once, on side i of list l, with its connection.             *)
NamedOn(l, i, c) == list[l].who[i] = c /\ list[l].fd[i] = fd[c] /\ list[l].who[3 - i] # c

(* The number that a connection holds is that of a list in use which names *)
(* the player.                                                             *)
ListsName ==
    \A c \in on : mylist[c] # None =>
       list[mylist[c]].use /\ \E i \in Sides : NamedOn(mylist[c], i, c)

(* By the list of c its partner is t.                                      *)
Partner(c, t) ==
    /\ mylist[c] # None /\ list[mylist[c]].use
    /\ \E i \in Sides : /\ NamedOn(mylist[c], i, c)
                        /\ list[mylist[c]].who[3 - i] = t /\ list[mylist[c]].fd[3 - i] = fd[t]

(* Who has pressed for the last time has confirmed, and so has its         *)
(* partner: neither can show anything more.                                *)
LockHolds ==
    \A c, t \in on :
       tmode[c] = "LOCK" /\ Partner(c, t) /\ Partner(t, c)
          => conf[c] /\ conf[t] /\ word[c] = list[mylist[c]].shown

TradeInv == ModesTyped /\ ListsTyped /\ ListsName /\ LockHolds

-----------------------------------------------------------------------------
LEMMA SidesFacts == \A i \in Sides : 3 - i \in Sides /\ 3 - (3 - i) = i /\ i # 3 - i /\ i \in Nat
  BY DEF Sides

LEMMA ListFacts ==
    ASSUME ListsTyped, NEW l \in TradeIndex
    PROVE  /\ list[l].use \in BOOLEAN
           /\ \A i \in Sides : /\ list[l].who[i] \in Char \union {None}
                               /\ list[l].fd[i] \in Fd \union {None}
                               /\ list[l].shown[i] \in 0 .. MaxShown
  BY DEF ListsTyped, ListType

LEMMA FreeListType == FreeList \in ListType
  BY DEF FreeList, ListType, Sides

(* TRADE_getMyTarget finds the partner, if there is one.                   *)
LEMMA TargetIsPartner ==
    ASSUME ModesTyped, ListsTyped, ListsName, NEW c \in on, NEW t \in on
    PROVE  Target(c) = t <=> Partner(c, t)
  <1> DEFINE l == mylist[c]
  <1>1. CASE l = None
    BY <1>1 DEF Target, Partner, ModesTyped
  <1>2. CASE l # None
    <2>1. l \in TradeIndex /\ list[l].use
      BY <1>2 DEF ModesTyped, ListsName
    <2>2. PICK i \in Sides : NamedOn(l, i, c)
      BY <1>2 DEF ListsName
    <2>3. MySides(l, c) = {i}
      BY <2>2, SidesFacts DEF MySides, NamedOn, Sides
    <2>4. FirstOf(MySides(l, c)) = i
      BY <2>3, FirstOfOne, SidesFacts
    <2>5. Target(c) = IF list[l].who[3 - i] \in on \ {c} /\ list[l].fd[3 - i] = fd[list[l].who[3 - i]]
                      THEN list[l].who[3 - i] ELSE None
      BY <1>2, <2>1, <2>3, <2>4 DEF Target
    <2>6. \A j \in Sides : NamedOn(l, j, c) => j = i
      BY <2>2, SidesFacts DEF NamedOn, Sides
    <2>7. list[l].who[3 - i] # c /\ None \notin on
      BY <2>2 DEF NamedOn, ModesTyped
    <2> QED
      BY <1>2, <2>1, <2>2, <2>5, <2>6, <2>7 DEF Partner
  <1> QED
    BY <1>1, <1>2

-----------------------------------------------------------------------------
LEMMA TradeInitInv == PlayInit => TradeInv
  BY FreeListType DEF PlayInit, PartyInit, TradeInit, TradeInv, ModesTyped, ListsTyped, TradeMode,
                      ListsName, LockHolds

(* Parties and battles leave the trades alone, and nobody comes or goes.   *)
LEMMA OthersKeep == TradeInv /\ UNCHANGED <<on, tradeVars>> => TradeInv'
  BY DEF tradeVars, TradeInv, ModesTyped, ListsTyped, ListsName, LockHolds, NamedOn, Partner

(* Lists are given back: whoever is on loses a number of a list given      *)
(* back, and no mode but those of nobody's partner has changed.            *)
LEMMA ResetKeeps ==
    ASSUME TradeInv, NEW L \in SUBSET TradeIndex, NEW D \in SUBSET Char,
           TradesBecome(ResetList(Freed(Trades, D), L)), UNCHANGED <<on, fd>>,
           \A c \in on, t \in on : t \in D /\ Partner(c, t) /\ Partner(t, c) =>
              \E l \in L : t \in {list[l].who[1], list[l].who[2]}
    PROVE  TradeInv'
  <1>1. /\ tmode' = [c \in Char |-> IF c \in D THEN "FREE" ELSE tmode[c]]
        /\ conf'  = [c \in Char |-> c \notin D /\ conf[c]]
        /\ mylist' = [c \in Char |->
               IF \E l \in L : c \in {list[l].who[1], list[l].who[2]} /\ c \in on
               THEN None ELSE mylist[c]]
        /\ list'  = [l \in TradeIndex |-> IF l \in L THEN FreeList ELSE list[l]]
    BY DEF TradesBecome, ResetList, Freed, Trades, NamesIn
  <1>2. \A c \in Char : tmode'[c] = "LOCK" => word'[c] = word[c]
    BY <1>1 DEF TradesBecome, ResetList, Freed, Trades
  <1>3. ModesTyped /\ ListsTyped /\ ListsName /\ LockHolds
    BY DEF TradeInv
  <1>4. ModesTyped'
    BY <1>1, <1>3 DEF ModesTyped, TradeMode
  <1>5. ListsTyped'
    BY <1>1, <1>3, FreeListType DEF ListsTyped
  <1>6. ASSUME NEW c \in on, mylist'[c] # None
        PROVE  mylist'[c] = mylist[c] /\ mylist[c] \in TradeIndex \ L
    <2>1. mylist'[c] = mylist[c] /\ mylist[c] \in TradeIndex
      BY <1>1, <1>3, <1>6 DEF ModesTyped
    <2>2. ~\E l \in L : c \in {list[l].who[1], list[l].who[2]}
      BY <1>1, <1>3, <1>6 DEF ModesTyped
    <2>3. \E i \in Sides : list[mylist[c]].who[i] = c
      BY <1>3, <1>6, <2>1 DEF ListsName, NamedOn
    <2> QED
      BY <2>1, <2>2, <2>3 DEF Sides
  <1>7. \A l \in TradeIndex \ L : list'[l] = list[l]
    BY <1>1
  <1>8. ListsName'
    BY <1>3, <1>6, <1>7 DEF ListsName, NamedOn
  <1>9. ASSUME NEW c \in on, NEW t \in on, tmode'[c] = "LOCK", Partner(c, t)', Partner(t, c)'
        PROVE  conf'[c] /\ conf'[t] /\ word'[c] = list'[mylist'[c]].shown
    <2>1. mylist'[c] = mylist[c] /\ mylist'[t] = mylist[t] /\ {mylist[c], mylist[t]} \subseteq TradeIndex \ L
      BY <1>6, <1>9 DEF Partner
    <2>2. Partner(c, t) /\ Partner(t, c)
      BY <1>7, <1>9, <2>1 DEF Partner, NamedOn
    <2>3. c \notin D /\ t \notin D
      <3>1. c \notin D
        BY <1>1, <1>3, <1>9 DEF ModesTyped
      <3>2. ASSUME t \in D PROVE mylist'[t] = None
        BY <1>1, <1>3, <2>2, <3>2 DEF ModesTyped
      <3> QED
        BY <1>9, <3>1, <3>2 DEF Partner
    <2>4. tmode[c] = "LOCK" /\ conf'[c] = conf[c] /\ conf'[t] = conf[t]
      BY <1>1, <1>3, <1>9, <2>3 DEF ModesTyped
    <2>5. conf[c] /\ conf[t] /\ word[c] = list[mylist[c]].shown
      BY <1>3, <2>2, <2>4 DEF LockHolds
    <2> QED
      BY <1>2, <1>3, <1>7, <1>9, <2>1, <2>4, <2>5 DEF ModesTyped
  <1>10. LockHolds'
    BY <1>9 DEF LockHolds
  <1> QED
    BY <1>4, <1>5, <1>8, <1>10 DEF TradeInv

LEMMA FreedNobody == ASSUME ModesTyped PROVE Freed(Trades, {}) = Trades
  <1> DEFINE m == [c \in Char |-> IF c \in {} THEN "FREE" ELSE tmode[c]]
             k == [c \in Char |-> c \notin {} /\ conf[c]]
  <1>1. m = tmode
    BY DEF ModesTyped
  <1>2. k = conf
    BY DEF ModesTyped
  <1>3. Freed(Trades, {}) = [Trades EXCEPT !.mode = m, !.conf = k]
    BY Zenon DEF Freed, Trades
  <1> HIDE DEF m, k
  <1> QED
    BY <1>1, <1>2, <1>3 DEF Trades

(* Whoever is let go keeps the number of its list, and the lists stay.     *)
LEMMA FreedLists == ASSUME NEW D
                    PROVE  /\ Freed(Trades, D).my = mylist /\ Freed(Trades, D).list = list
                           /\ Freed(Trades, D) = [mode |-> Freed(Trades, D).mode,
                                                  conf |-> Freed(Trades, D).conf,
                                                  my |-> mylist, list |-> list]
  <1> DEFINE m == [c \in Char |-> IF c \in D THEN "FREE" ELSE Trades.mode[c]]
             k == [c \in Char |-> c \notin D /\ Trades.conf[c]]
  <1>1. Freed(Trades, D) = [Trades EXCEPT !.mode = m, !.conf = k]
    BY Zenon DEF Freed
  <1> HIDE DEF m, k
  <1> QED
    BY <1>1 DEF Trades

LEMMA ResetNone == ASSUME NEW T, T = [mode |-> T.mode, conf |-> T.conf, my |-> T.my, list |-> T.list],
                          T.my = [c \in Char |-> T.my[c]],
                          T.list = [l \in TradeIndex |-> T.list[l]]
                   PROVE  ResetList(T, {}) = T
  <1> DEFINE n == [l \in TradeIndex |-> IF l \in {} THEN FreeList ELSE T.list[l]]
             y == [c \in Char |-> IF \E l \in {} : c \in NamesIn(T, l) /\ c \in on THEN None
                                  ELSE T.my[c]]
  <1>1. n = T.list /\ y = T.my
    OBVIOUS
  <1>2. ResetList(T, {}) = [T EXCEPT !.list = n, !.my = y]
    BY Zenon DEF ResetList
  <1> HIDE DEF n, y
  <1> QED
    BY <1>1, <1>2

(* TRADE_CheckTradeListUser                                                *)
LEMMA SweptKeeps == ASSUME TradeInv, TradesBecome(Swept(Trades)), UNCHANGED <<on, fd>>
                    PROVE  TradeInv'
  <1> DEFINE L == {l \in TradeIndex : Trades.list[l].use
                     /\ \E c \in NamesIn(Trades, l) : c \notin on \/ Trades.mode[c] = "FREE"}
  <1>1. Swept(Trades) = ResetList(Freed(Trades, {}), L)
    BY FreedNobody DEF TradeInv, Swept
  <1> HIDE DEF L
  <1>2. L \in SUBSET TradeIndex
    BY DEF L
  <1> QED
    BY <1>1, <1>2, ResetKeeps

(* TRADE_Close                                                             *)
LEMMA CloseKeeps == ASSUME TradeInv, NEW c \in Char, NEW f \in Fd, CloseTrade(c, f), UNCHANGED on
                    PROVE  TradeInv'
  <1> DEFINE D == {c, Target(c)} \ {None}
             L == {mylist[c]} \ {None}
  <1>1. c \in on /\ TradesBecome(Closed(c, f)) /\ UNCHANGED <<on, fd>>
    BY DEF CloseTrade
  <1>2. ModesTyped /\ ListsTyped /\ ListsName
    BY DEF TradeInv
  <1>3. CASE Closed(c, f) = Trades
    <2>1. Trades = ResetList(Freed(Trades, {}), {})
      <3>1. ResetList(Trades, {}) = Trades
        BY <1>2, ResetNone DEF Trades, ModesTyped, ListsTyped
      <3> QED
        BY <1>2, <3>1, FreedNobody
    <2> QED
      BY <1>1, <1>3, <2>1, ResetKeeps
  <1>4. CASE Closed(c, f) # Trades
    <2>1. Target(c) # None => Target(c) \in on \ {c}
      BY DEF Target
    <2>2. D \in SUBSET Char /\ L \in SUBSET TradeIndex
      BY <1>1, <1>2, <2>1 DEF ModesTyped
    <2>3. Freed(Trades, {c, Target(c)}) = Freed(Trades, D)
      BY DEF Freed
    <2>4. Closed(c, f) = ResetList(Freed(Trades, D), L)
      <3>1. CASE mylist[c] = None
        <4>1. ResetList(Freed(Trades, D), {}) = Freed(Trades, D)
          BY <1>2, FreedLists, ResetNone DEF ModesTyped, ListsTyped
        <4> QED
          BY <1>4, <2>3, <3>1, <4>1 DEF Closed
      <3>2. CASE mylist[c] # None
        BY <1>4, <2>3, <3>2 DEF Closed
      <3> QED
        BY <3>1, <3>2
    <2>5. ASSUME NEW x \in on, NEW t \in on, t \in D, Partner(x, t), Partner(t, x)
          PROVE  \E l \in L : t \in {list[l].who[1], list[l].who[2]}
      <3>1. CASE t = c
        BY <2>5, <3>1, SidesFacts DEF Partner, NamedOn, Sides
      <3>2. CASE t # c
        <4>1. Target(c) = t /\ Partner(c, t)
          BY <1>1, <1>2, <2>5, <3>2, TargetIsPartner
        <4> QED
          BY <4>1, SidesFacts DEF Partner, Sides
      <3> QED
        BY <3>1, <3>2
    <2> HIDE DEF D, L
    <2> QED
      BY <1>1, <2>2, <2>4, <2>5, ResetKeeps
  <1> QED
    BY <1>3, <1>4

(* TRADE_Search, with a list for the two                                   *)
Lent(c, t, l) ==
    TradesBecome([mode |-> [tmode EXCEPT ![c] = "TRADING", ![t] = "TRADING"],
                  conf |-> [conf EXCEPT ![c] = FALSE, ![t] = FALSE],
                  my   |-> [mylist EXCEPT ![c] = l, ![t] = l],
                  list |-> [list EXCEPT ![l] = [use |-> TRUE, who |-> <<c, t>>,
                                                fd |-> <<fd[c], fd[t]>>, shown |-> <<0, 0>>]]])

LEMMA LentKeeps ==
    ASSUME TradeInv, UNCHANGED <<on, fd>>, NEW c \in on, NEW t \in on, t # c,
           NEW l \in TradeIndex, ~list[l].use, Lent(c, t, l)
    PROVE  TradeInv'
  <1> DEFINE n == [use |-> TRUE, who |-> <<c, t>>, fd |-> <<fd[c], fd[t]>>, shown |-> <<0, 0>>]
  <1>1. ModesTyped /\ ListsTyped /\ ListsName /\ LockHolds
    BY DEF TradeInv
  <1>2. /\ tmode' = [tmode EXCEPT ![c] = "TRADING", ![t] = "TRADING"]
        /\ conf' = [conf EXCEPT ![c] = FALSE, ![t] = FALSE]
        /\ mylist' = [mylist EXCEPT ![c] = l, ![t] = l]
        /\ list' = [list EXCEPT ![l] = n]
        /\ \A x \in Char : tmode'[x] = "LOCK" /\ tmode[x] = "LOCK" => word'[x] = word[x]
    BY DEF Lent, TradesBecome
  <1>3. ModesTyped'
    BY <1>1, <1>2 DEF ModesTyped, TradeMode
  <1>4. n \in ListType /\ n.use /\ n.who[1] = c /\ n.who[2] = t /\ n.fd[1] = fd[c] /\ n.fd[2] = fd[t]
    <2>1. /\ <<c, t>> \in [Sides -> Char \union {None}]
          /\ <<fd[c], fd[t]>> \in [Sides -> Fd \union {None}]
      BY <1>1 DEF ModesTyped, Sides
    <2>2. <<0, 0>> \in [Sides -> 0 .. MaxShown]
      BY DEF Sides
    <2> QED
      BY <2>1, <2>2 DEF ListType
  <1> HIDE DEF n
  <1>5. ListsTyped' /\ list'[l] = n /\ \A k \in TradeIndex \ {l} : list'[k] = list[k]
    BY <1>1, <1>2, <1>4 DEF ListsTyped
  <1>6. /\ mylist'[c] = l /\ mylist'[t] = l
        /\ \A x \in on \ {c, t} : mylist'[x] = mylist[x] /\ conf'[x] = conf[x] /\ tmode'[x] = tmode[x]
        /\ tmode'[c] # "LOCK" /\ tmode'[t] # "LOCK"
    BY <1>1, <1>2 DEF ModesTyped
  <1>7. \A x \in on \ {c, t} : mylist[x] # None => mylist[x] \in TradeIndex \ {l}
    BY <1>1 DEF ModesTyped, ListsName
  <1>8. ASSUME NEW x \in on', mylist'[x] # None
        PROVE  list'[mylist'[x]].use /\ \E i \in Sides : NamedOn(mylist[x], i, x)'
    <2>1. CASE x = c
      BY <1>4, <1>5, <1>6, <2>1 DEF NamedOn, Sides
    <2>2. CASE x = t
      BY <1>4, <1>5, <1>6, <2>2 DEF NamedOn, Sides
    <2>3. CASE x \notin {c, t}
      BY <1>1, <1>5, <1>6, <1>7, <1>8, <2>3 DEF NamedOn, ListsName
    <2> QED
      BY <2>1, <2>2, <2>3
  <1>9. ListsName'
    BY <1>8 DEF ListsName, NamedOn
  <1>10. ASSUME NEW x \in on', NEW y \in on', tmode'[x] = "LOCK", Partner(x, y)', Partner(y, x)'
         PROVE  conf'[x] /\ conf'[y] /\ word'[x] = list'[mylist'[x]].shown
    <2>1. x \notin {c, t}
      BY <1>6, <1>10
    <2>2. y \notin {c, t}
      BY <1>4, <1>5, <1>6, <1>10, <2>1 DEF Partner, NamedOn, Sides
    <2>3. Partner(x, y) /\ Partner(y, x)
      BY <1>5, <1>6, <1>7, <1>10, <2>1, <2>2 DEF Partner, NamedOn
    <2>4. conf[x] /\ conf[y] /\ word[x] = list[mylist[x]].shown /\ mylist[x] # None
      BY <1>1, <1>6, <1>10, <2>1, <2>3 DEF LockHolds, Partner
    <2> QED
      BY <1>1, <1>2, <1>5, <1>6, <1>7, <1>10, <2>1, <2>2, <2>4 DEF ModesTyped
  <1>11. LockHolds'
    BY <1>10 DEF LockHolds
  <1> QED
    BY <1>3, <1>5, <1>9, <1>11 DEF TradeInv

LEMMA SearchKeeps == ASSUME TradeInv, NEW c \in Char, NEW t \in Char, Search(c, t), UNCHANGED on
                     PROVE  TradeInv'
  <1>1. c \in on /\ t \in on /\ t # c /\ UNCHANGED fd
    BY DEF Search, Unbound
  <1>2. \/ \E l \in TradeIndex : ~list[l].use /\ Lent(c, t, l)
        \/ TradesBecome(Swept(Trades))
    BY DEF Search, Lent
  <1> QED
    BY <1>1, <1>2, LentKeeps, SweptKeeps

(* TRADE_ShowItem: whoever shows something has confirmed nothing, and is   *)
(* the partner of nobody who has pressed.                                  *)
LEMMA ShowKeeps == ASSUME TradeInv, NEW c \in Char, NEW t \in Char, Show(c, t), UNCHANGED on
                   PROVE  TradeInv'
  <1> DEFINE l == mylist[c]
             i == FirstOf({j \in Sides : list[l].who[j] = c})
             n == [list[l] EXCEPT !.shown = [list[l].shown EXCEPT ![i] = @ + 1]]
  <1>1. ModesTyped /\ ListsTyped /\ ListsName /\ LockHolds
    BY DEF TradeInv
  <1>2. /\ c \in on /\ t \in on /\ Target(c) = t /\ Target(t) = c
        /\ ~conf[c] /\ list[l].shown[i] < MaxShown
        /\ TradesBecome([Trades EXCEPT !.list = PutDown(l, i)]) /\ UNCHANGED <<on, fd>>
    BY DEF Show, Dealing, Unbound, Sides
  <1>3. Partner(c, t) /\ l \in TradeIndex
    BY <1>1, <1>2, TargetIsPartner DEF Partner, ModesTyped
  <1>4. list' = [list EXCEPT ![l] = n] /\ UNCHANGED <<tmode, conf, mylist>>
    BY <1>2 DEF TradesBecome, PutDown, Trades
  <1>5. \A x \in Char : tmode[x] = "LOCK" => word'[x] = word[x]
    BY <1>2 DEF TradesBecome, Trades
  <1>6. PICK k \in Sides : NamedOn(l, k, c)
    BY <1>3 DEF Partner
  <1>7. i = k
    <2>1. {j \in Sides : list[l].who[j] = c} = {k}
      BY <1>6, SidesFacts DEF NamedOn, Sides
    <2> QED
      BY <2>1, FirstOfOne, SidesFacts
  <1>8. n \in ListType /\ n.use = list[l].use /\ n.who = list[l].who /\ n.fd = list[l].fd
    <2>1. list[l] \in ListType
      BY <1>1, <1>3 DEF ListsTyped
    <2>2. PICK s \in [Sides -> 0 .. MaxShown] : s = [list[l].shown EXCEPT ![i] = @ + 1]
      <3> DEFINE r == list[l].shown
      <3>1. r \in [Sides -> 0 .. MaxShown] /\ i \in Sides
        BY <1>7, <2>1 DEF ListType
      <3>2. r[i] < MaxShown
        BY <1>2
      <3> HIDE DEF r, i
      <3>3. r[i] + 1 \in 0 .. MaxShown
        BY <3>1, <3>2
      <3>4. [r EXCEPT ![i] = @ + 1] \in [Sides -> 0 .. MaxShown]
        BY <3>1, <3>3
      <3> QED
        BY <3>4 DEF r
    <2>3. n = [list[l] EXCEPT !.shown = s]
      BY <2>2
    <2> QED
      BY <2>1, <2>3 DEF ListType
  <1> HIDE DEF n, i
  <1>9. ListsTyped' /\ list'[l] = n /\ \A x \in TradeIndex \ {l} : list'[x] = list[x]
    BY <1>1, <1>3, <1>4, <1>8 DEF ListsTyped
  <1>10. \A x \in TradeIndex : /\ list'[x].use = list[x].use /\ list'[x].who = list[x].who
                                /\ list'[x].fd = list[x].fd
    BY <1>8, <1>9
  <1>11. ModesTyped'
    BY <1>1, <1>2, <1>4 DEF ModesTyped
  <1>12. ListsName'
    BY <1>1, <1>2, <1>4, <1>10 DEF ListsName, NamedOn, ModesTyped
  <1>13. ASSUME NEW x \in on', NEW y \in on', tmode'[x] = "LOCK", Partner(x, y)', Partner(y, x)'
         PROVE  conf'[x] /\ conf'[y] /\ word'[x] = list'[mylist'[x]].shown
    <2>1. Partner(x, y) /\ Partner(y, x) /\ mylist[x] \in TradeIndex
      BY <1>1, <1>2, <1>4, <1>10, <1>13 DEF Partner, NamedOn, ModesTyped
    <2>2. conf[x] /\ conf[y] /\ word[x] = list[mylist[x]].shown
      BY <1>1, <1>2, <1>4, <1>13, <2>1 DEF LockHolds
    <2>3. x # c /\ y # c
      BY <1>2, <2>2
    <2>4. mylist[x] # l
      BY <1>6, <2>1, <2>3, SidesFacts DEF Partner, NamedOn, Sides
    <2> QED
      BY <1>1, <1>2, <1>4, <1>5, <1>9, <1>13, <2>1, <2>2, <2>4 DEF ModesTyped
  <1>14. LockHolds'
    BY <1>13 DEF LockHolds
  <1> QED
    BY <1>9, <1>11, <1>12, <1>14 DEF TradeInv

LEMMA ConfirmKeeps == ASSUME TradeInv, NEW c \in Char, NEW t \in Char, Confirm(c, t), UNCHANGED on
                      PROVE  TradeInv'
  <1>1. ModesTyped /\ ListsTyped /\ ListsName /\ LockHolds
    BY DEF TradeInv
  <1>2. /\ UNCHANGED <<on, fd, tmode, mylist, list>> /\ conf' = [conf EXCEPT ![c] = TRUE]
        /\ \A x \in Char : tmode[x] = "LOCK" => word'[x] = word[x]
    BY DEF Confirm, TradesBecome, Trades
  <1>3. ModesTyped' /\ ListsTyped' /\ ListsName'
    BY <1>1, <1>2 DEF ModesTyped, ListsTyped, ListsName, NamedOn
  <1>4. LockHolds'
    BY <1>1, <1>2 DEF LockHolds, Partner, NamedOn, ModesTyped
  <1> QED
    BY <1>3, <1>4 DEF TradeInv

(* ... the last word: its partner has confirmed too.                       *)
LEMMA PressKeeps == ASSUME TradeInv, NEW c \in Char, NEW t \in Char, Press(c, t), UNCHANGED on
                    PROVE  TradeInv'
  <1> DEFINE m == IF tmode[t] = "LOCK" THEN [tmode EXCEPT ![c] = "FREE", ![t] = "FREE"]
                  ELSE [tmode EXCEPT ![c] = "LOCK"]
  <1>1. ModesTyped /\ ListsTyped /\ ListsName /\ LockHolds
    BY DEF TradeInv
  <1>2. /\ c \in on /\ t \in on /\ Target(c) = t /\ conf[c] /\ conf[t] /\ tmode[c] # "LOCK"
        /\ TradesBecome([Trades EXCEPT !.mode = m]) /\ UNCHANGED <<on, fd>>
    BY DEF Press, Dealing, Unbound
  <1>3. /\ UNCHANGED <<on, fd, conf, mylist, list>> /\ tmode' = m
        /\ \A x \in Char : m[x] = "LOCK" => word'[x] = IF tmode[x] = "LOCK" THEN word[x]
                                                     ELSE list[mylist[x]].shown
    BY <1>2 DEF TradesBecome, Trades
  <1>4. m \in [Char -> TradeMode] /\ \A x \in Char \ on : m[x] = "FREE"
    BY <1>1, <1>2 DEF ModesTyped, TradeMode
  <1>5. \A x \in on : m[x] = "LOCK" => tmode[x] = "LOCK" \/ x = c
    BY <1>1, <1>2 DEF ModesTyped
  <1> HIDE DEF m
  <1>6. ModesTyped' /\ ListsTyped' /\ ListsName'
    BY <1>1, <1>3, <1>4 DEF ModesTyped, ListsTyped, ListsName, NamedOn
  <1>7. ASSUME NEW x \in on', NEW y \in on', tmode'[x] = "LOCK", Partner(x, y)', Partner(y, x)'
        PROVE  conf'[x] /\ conf'[y] /\ word'[x] = list'[mylist'[x]].shown
    <2>1. Partner(x, y) /\ Partner(y, x) /\ x \in on /\ y \in on /\ m[x] = "LOCK"
      BY <1>3, <1>7 DEF Partner, NamedOn
    <2>2. CASE tmode[x] = "LOCK"
      BY <1>1, <1>3, <2>1, <2>2 DEF LockHolds, ModesTyped
    <2>3. CASE tmode[x] # "LOCK"
      <3>1. x = c
        BY <1>5, <2>1, <2>3
      <3>2. y = t
        BY <1>1, <1>2, <2>1, <3>1, TargetIsPartner
      <3> QED
        BY <1>1, <1>2, <1>3, <2>1, <2>3, <3>1, <3>2 DEF ModesTyped
    <2> QED
      BY <2>2, <2>3
  <1>8. LockHolds'
    BY <1>7 DEF LockHolds
  <1> QED
    BY <1>6, <1>8 DEF TradeInv

(* Whoever comes holds no number.                                          *)
LEMMA LoginKeeps == ASSUME TradeInv, NEW c \in Char, NEW f \in Fd, Login(c, f) PROVE TradeInv'
  <1>1. ModesTyped /\ ListsTyped /\ ListsName /\ LockHolds
    BY DEF TradeInv
  <1>2. /\ c \notin on /\ on' = on \union {c} /\ fd' = [fd EXCEPT ![c] = f]
        /\ tmode' = [tmode EXCEPT ![c] = "FREE"] /\ conf' = [conf EXCEPT ![c] = FALSE]
        /\ mylist' = [mylist EXCEPT ![c] = None] /\ UNCHANGED <<list, word>>
    BY DEF Login, PartyLogin, TradeLogin
  <1>3. ModesTyped' /\ ListsTyped'
    BY <1>1, <1>2 DEF ModesTyped, ListsTyped, TradeMode
  <1>4. /\ mylist'[c] = None
        /\ \A x \in on : /\ mylist'[x] = mylist[x] /\ fd'[x] = fd[x]
                          /\ tmode'[x] = tmode[x] /\ conf'[x] = conf[x]
    BY <1>1, <1>2 DEF ModesTyped
  <1>5. ListsName'
    BY <1>1, <1>2, <1>4 DEF ListsName, NamedOn
  <1>6. LockHolds'
    BY <1>1, <1>2, <1>4 DEF LockHolds, Partner, NamedOn
  <1> QED
    BY <1>3, <1>5, <1>6 DEF TradeInv

LEMMA LogoutKeeps == ASSUME TradeInv, NEW c \in Char, Logout(c) PROVE TradeInv'
  <1>1. ModesTyped /\ ListsTyped /\ ListsName /\ LockHolds
    BY DEF TradeInv
  <1>2. /\ c \in on /\ on' = on \ {c} /\ fd' = [fd EXCEPT ![c] = None]
        /\ tmode' = [tmode EXCEPT ![c] = "FREE"] /\ conf' = [conf EXCEPT ![c] = FALSE]
        /\ mylist' = [mylist EXCEPT ![c] = None]
        /\ word' = [word EXCEPT ![c] = None] /\ UNCHANGED list
    BY DEF Logout, PartyLogout, TradeLogout
  <1>3. ModesTyped' /\ ListsTyped'
    BY <1>1, <1>2 DEF ModesTyped, ListsTyped, TradeMode
  <1>4. \A x \in on' : /\ x \in on /\ mylist'[x] = mylist[x] /\ fd'[x] = fd[x]
                       /\ tmode'[x] = tmode[x] /\ conf'[x] = conf[x]
                       /\ tmode[x] = "LOCK" => word'[x] = word[x]
    BY <1>1, <1>2 DEF ModesTyped
  <1>5. ListsName'
    BY <1>1, <1>2, <1>4 DEF ListsName, NamedOn
  <1>6. LockHolds'
    BY <1>1, <1>2, <1>4 DEF LockHolds, Partner, NamedOn
  <1> QED
    BY <1>3, <1>5, <1>6 DEF TradeInv

-----------------------------------------------------------------------------
(* Nobody comes or goes by a party or a battle.                            *)
LEMMA PartyingStays == Partying => UNCHANGED <<on, tradeVars>>
  BY DEF Partying, LeaveParty, Kick, JoinParty, MakePair

LEMMA BattleStays == BattleNext => UNCHANGED on
  <1> SUFFICES ASSUME BattleNext PROVE UNCHANGED on
    OBVIOUS
  <1>1. ASSUME NEW c \in Char, Command(c) \/ WatchStop(c) \/ EncountOut(c) PROVE UNCHANGED on
    BY <1>1 DEF Command, WatchStop, EncountOut, partyVars
  <1>2. ASSUME NEW c \in Char, NEW t \in Char, NEW b \in Battle, Duel(c, t, b) \/ Watch(c, t, b)
        PROVE  UNCHANGED on
    BY <1>2 DEF Duel, Watch, partyVars
  <1>3. ASSUME NEW b \in Battle, Begin(b) \/ WatchPre(b) \/ Finish(b) PROVE UNCHANGED on
    BY <1>3 DEF Begin, WatchPre, Finish, partyVars
  <1>4. ASSUME NEW b \in Battle, NEW late, NEW over, NEW end,
               WatchWait(b, over) \/ Poll(b, late) \/ Turn(b, late, over, end)
        PROVE  UNCHANGED on
    BY <1>4 DEF WatchWait, Poll, Turn
  <1>5. ASSUME NEW c \in Char, NEW t \in Char, Rescue(c, t) PROVE UNCHANGED on
    BY <1>5 DEF Rescue, partyVars
  <1>6. ASSUME NEW c \in Char, NEW b \in Battle, Encounter(c, b) PROVE UNCHANGED on
    BY <1>6 DEF Encounter, partyVars
  <1> QED
    BY <1>1, <1>2, <1>3, <1>4, <1>5, <1>6 DEF BattleNext

LEMMA TradeStepInv == TradeInv /\ [PlayNext]_playVars => TradeInv'
  <1> SUFFICES ASSUME TradeInv, [PlayNext]_playVars PROVE TradeInv'
    OBVIOUS
  <1>1. CASE UNCHANGED playVars
    BY <1>1, OthersKeep DEF playVars, partyVars
  <1>2. CASE ComeOrGo
    BY <1>2, LoginKeeps, LogoutKeeps DEF ComeOrGo
  <1>3. CASE Partying
    BY <1>3, PartyingStays, OthersKeep
  <1>4. CASE BattleNext /\ UNCHANGED tradeVars
    BY <1>4, BattleStays, OthersKeep
  <1>5. CASE TradeNext /\ UNCHANGED <<partyVars, battleVars>>
    <2>1. UNCHANGED on
      BY <1>5 DEF partyVars
    <2>2. CASE CheckTradeListUser
      BY <2>1, <2>2, SweptKeeps DEF CheckTradeListUser
    <2>3. ASSUME NEW c \in Char, NEW f \in Fd, CloseTrade(c, f) PROVE TradeInv'
      BY <2>1, <2>3, CloseKeeps
    <2>4. ASSUME NEW c \in Char, NEW t \in Char, Search(c, t) PROVE TradeInv'
      BY <2>1, <2>4, SearchKeeps
    <2>5. ASSUME NEW c \in Char, NEW t \in Char, Show(c, t) PROVE TradeInv'
      BY <2>1, <2>5, ShowKeeps
    <2>6. ASSUME NEW c \in Char, NEW t \in Char, Confirm(c, t) PROVE TradeInv'
      BY <2>1, <2>6, ConfirmKeeps
    <2>7. ASSUME NEW c \in Char, NEW t \in Char, Press(c, t) PROVE TradeInv'
      BY <2>1, <2>7, PressKeeps
    <2> QED
      BY <1>5, <2>2, <2>3, <2>4, <2>5, <2>6, <2>7 DEF TradeNext
  <1> QED
    BY <1>1, <1>2, <1>3, <1>4, <1>5 DEF PlayNext

-----------------------------------------------------------------------------
(* The strengthened invariant: types, lists that name their holders, and   *)
(* confirmations that outlast the pressing (trade.c).                      *)
THEOREM TradeInvAlways == PlaySpec => []TradeInv
  BY TradeInitInv, TradeStepInv, PTL DEF PlaySpec

(* TRADE_ResetTradeList, TRADE_Search, CHAR_login and CHAR_logout: a       *)
(* player whose connection holds the number of a list is named in that     *)
(* list, once, with that connection, whoever else was ever named there.    *)
THEOREM ListsAgreeAlways == PlaySpec => []ListsAgree
  <1>1. TradeInv => ListsAgree
    <2> SUFFICES ASSUME TradeInv, NEW c \in on, mylist[c] # None
                 PROVE  /\ list[mylist[c]].use
                        /\ Cardinality({i \in {1, 2} : list[mylist[c]].who[i] = c}) = 1
                        /\ MySides(mylist[c], c) # {}
      BY DEF ListsAgree
    <2>1. list[mylist[c]].use
      BY DEF TradeInv, ListsName
    <2>2. PICK i \in Sides : NamedOn(mylist[c], i, c)
      BY DEF TradeInv, ListsName
    <2>3. {j \in {1, 2} : list[mylist[c]].who[j] = c} = {i} /\ i \in MySides(mylist[c], c)
      BY <2>2, SidesFacts DEF NamedOn, Sides, MySides
    <2> QED
      BY <2>1, <2>3, FS_Singleton
  <1> QED
    BY <1>1, TradeInvAlways, PTL

(* TRADE_ShowItem: between the pressing of the one and of the other        *)
(* nothing on the table changes.                                           *)
THEOREM SwapAsConfirmedAlways == PlaySpec => []SwapAsConfirmed
  <1>1. TradeInv => SwapAsConfirmed
    <2> SUFFICES ASSUME TradeInv, NEW c \in on, NEW t \in on, tmode[c] = "LOCK",
                        Target(c) = t, Target(t) = c
                 PROVE  word[c] = list[mylist[c]].shown
      BY DEF SwapAsConfirmed
    <2>1. Partner(c, t) /\ Partner(t, c)
      BY TargetIsPartner DEF TradeInv
    <2> QED
      BY <2>1 DEF TradeInv, LockHolds
  <1> QED
    BY <1>1, TradeInvAlways, PTL

-----------------------------------------------------------------------------
(***************************************************************************)
(* The battles.  The functions of battle.c are operators on a field F, the *)
(* battles and the characters' sides of them as they stand, and one        *)
(* handler calls several; so the properties are stated of any field, and   *)
(* each function is shown to keep them.                                    *)
(***************************************************************************)
USE BattleAssumption DEF BattleAssumption

BatRec == [mode : BattleMode, type : BattleType, hurry : BOOLEAN,
           seat : [Seat -> Char \union {None}],
           next : Battle \union {None}, before : Battle \union {None}]
Fields == [bat : [Battle -> BatRec], cmode : [Char -> CharMode],
           cindex : [Char -> Battle \union {None}], down : SUBSET on, watch : SUBSET on]

Watchers == {"WATCHBC", "WATCHPRE", "WATCHWAIT", "WATCHMOVIE"}
Away == {"NONE", "FINAL"}

(* Who has a seat is in, in the battle of its index, and has no other.     *)
SeatAgrees(F, b, i) ==
    LET c == F.bat[b].seat[i]
    IN  c # None => /\ c \in on /\ F.cmode[c] \notin Away /\ F.cindex[c] = b
                    /\ \A j \in Seat : F.bat[b].seat[j] = c => i = j
SeatsAgree(F) == \A b \in Battle, i \in Seat : SeatAgrees(F, b, i)

(* Who is in has a seat in the battle of its index; who is not has no      *)
(* index.                                                                  *)
HasSeat(F, c) == F.cindex[c] # None /\ \E i \in Seat : F.bat[F.cindex[c]].seat[i] = c
PlayerAgrees(F, c) == IF F.cmode[c] \in Away THEN F.cindex[c] = None ELSE c \in on /\ HasSeat(F, c)
PlayersAgree(F) == \A c \in Char : PlayerAgrees(F, c) /\ (c \notin on => F.cmode[c] = "NONE")

(* A battle of watchers is known by its mode as by its type, and has       *)
(* nobody on the side of the enemies.                                      *)
KindAgrees(B) == /\ B.mode = "NONE" => B = Unused
                 /\ B.type = "WATCH" <=> B.mode \in Watchers
                 /\ B.type = "WATCH" => \A i \in Side(1) : B.seat[i] = None
KindsAgree(F) == \A b \in Battle : KindAgrees(F.bat[b])

(* The links go both ways and in no circle.                                *)
LinkAgrees(F, b) ==
    /\ F.bat[b].next # None => /\ F.bat[b].mode # "NONE"
                               /\ F.bat[F.bat[b].next].before = b
                               /\ F.bat[F.bat[b].next].type = "WATCH"
    /\ F.bat[b].before # None => F.bat[b].mode # "NONE" /\ F.bat[F.bat[b].before].next = b
    /\ b \notin Chain(F, b)
Linked(F) == \A b \in Battle : LinkAgrees(F, b)

(* Somebody watches: the battle is behind one that is fought.              *)
Shows(F, b) == \E h \in Battle : F.bat[h].type # "WATCH" /\ b \in Chain(F, h)
Shown(F) == \A b \in Battle, i \in Seat :
    F.bat[b].type = "WATCH" /\ F.bat[b].seat[i] # None => Shows(F, b)

FieldAgrees(F) == SeatsAgree(F) /\ PlayersAgree(F) /\ KindsAgree(F) /\ Linked(F) /\ Shown(F)

BattleInv == Field \in Fields /\ FieldAgrees(Field)

-----------------------------------------------------------------------------
LEMMA SideFacts ==
    /\ Side(0) = 1 .. SideMax /\ Side(1) = SideMax + 1 .. 2 * SideMax
    /\ Seat = Side(0) \union Side(1) /\ Side(0) \intersect Side(1) = {}
    /\ Seat \subseteq Nat /\ \A s \in {0, 1} : Side(s) \subseteq Seat
  BY DEF Side, Seat

(* The least of some numbers is none but the least.                        *)
LEMMA FirstOfLeast == ASSUME NEW I \in SUBSET Nat, NEW i \in I PROVE FirstOf(I) <= i
  <1> DEFINE R == {ss \in Nat \X Nat : ss[1] < ss[2]}
  <1>1. R = OpToRel(<, Nat)
    BY Zenon DEF OpToRel
  <1>2. IsWellFoundedOn(R, Nat)
    BY <1>1, NatLessThanWellFounded, Zenon
  <1>3. PICK m \in I : \A y \in I : ~(<<y, m>> \in R)
    <2> HIDE DEF R
    <2> QED
      BY <1>2, WFMin
  <1>4. ASSUME NEW y \in I PROVE m <= y
    <2>1. m \in Nat /\ y \in Nat
      OBVIOUS
    <2>2. ~(y < m)
      BY <1>3, <2>1
    <2> QED
      BY <2>1, <2>2
  <1> QED
    BY <1>4 DEF FirstOf

(* The chain of b is the least set that nothing leads out of.              *)
LEMMA ChainLeast ==
    ASSUME NEW F, NEW b \in Battle, NEW S \in SUBSET Battle, Onward(F, S \union {b}) \subseteq S
    PROVE  Chain(F, b) \subseteq S
  BY DEF Chain

LEMMA ChainClosed ==
    ASSUME NEW F \in Fields, NEW b \in Battle
    PROVE  /\ Chain(F, b) \subseteq Battle
           /\ \A d \in Chain(F, b) \union {b} :
                 F.bat[d].next # None => F.bat[d].next \in Chain(F, b)
  <1>1. Chain(F, b) \subseteq Battle
    BY DEF Chain
  <1>2. ASSUME NEW d \in Chain(F, b) \union {b}, F.bat[d].next # None
        PROVE  F.bat[d].next \in Chain(F, b)
    <2>1. d \in Battle /\ F.bat[d].next \in Battle
      BY <1>1, <1>2 DEF Fields, BatRec
    <2>2. ASSUME NEW S \in SUBSET Battle, Onward(F, S \union {b}) \subseteq S
          PROVE  F.bat[d].next \in S
      <3>1. d \in S \union {b}
        BY <2>2, ChainLeast
      <3> QED
        BY <1>2, <2>2, <3>1 DEF Onward
    <2> QED
      BY <2>1, <2>2 DEF Chain
  <1> QED
    BY <1>1, <1>2

(* What is on a chain is next to something on it.                          *)
LEMMA ChainComesFrom ==
    ASSUME NEW F \in Fields, NEW h \in Battle, NEW d \in Chain(F, h)
    PROVE  \E e \in Chain(F, h) \union {h} : F.bat[e].next = d
  <1> SUFFICES ASSUME \A e \in Chain(F, h) \union {h} : F.bat[e].next # d PROVE FALSE
    OBVIOUS
  <1> DEFINE S == Chain(F, h) \ {d}
  <1>1. Onward(F, S \union {h}) \subseteq S
    BY ChainClosed DEF Onward
  <1>2. S \in SUBSET Battle
    BY ChainClosed
  <1>3. Chain(F, h) \subseteq S
    <2> HIDE DEF S
    <2> QED
      BY <1>1, <1>2, ChainLeast
  <1> QED
    BY <1>3

(* The chain depends on the links only.                                    *)
LEMMA ChainSame ==
    ASSUME NEW F, NEW G, NEW b \in Battle, \A d \in Battle : G.bat[d].next = F.bat[d].next
    PROVE  Chain(G, b) = Chain(F, b)
  <1>1. \A S \in SUBSET Battle : Onward(G, S \union {b}) = Onward(F, S \union {b})
    BY DEF Onward
  <1> QED
    BY <1>1 DEF Chain

(* Fields whose battles are linked in the same way.                        *)
SameLinks(F, G) ==
    \A d \in Battle : /\ G.bat[d].next = F.bat[d].next /\ G.bat[d].before = F.bat[d].before
                      /\ G.bat[d].type = F.bat[d].type
                      /\ G.bat[d].mode = "NONE" <=> F.bat[d].mode = "NONE"

LEMMA SameLinksKeep ==
    ASSUME NEW F \in Fields, NEW G \in Fields, SameLinks(F, G), Linked(F)
    PROVE  /\ Linked(G)
           /\ \A b \in Battle : Chain(G, b) = Chain(F, b) /\ (Shows(G, b) <=> Shows(F, b))
  <1>1. \A b \in Battle : Chain(G, b) = Chain(F, b)
    BY ChainSame DEF SameLinks
  <1>2. ASSUME NEW b \in Battle PROVE LinkAgrees(G, b)
    <2>1. F.bat[b].next \in Battle \union {None} /\ F.bat[b].before \in Battle \union {None}
      BY DEF Fields, BatRec
    <2>2. LinkAgrees(F, b)
      BY DEF Linked
    <2> QED
      BY <1>1, <2>1, <2>2 DEF LinkAgrees, SameLinks
  <1>3. \A b \in Battle : Shows(G, b) <=> Shows(F, b)
    BY <1>1 DEF Shows, SameLinks
  <1> QED
    BY <1>1, <1>2, <1>3 DEF Linked

(* Modes change, seats and links do not.                                   *)
LEMMA ModesKeep ==
    ASSUME NEW F \in Fields, NEW G \in Fields, FieldAgrees(F), SameLinks(F, G), KindsAgree(G),
           \A d \in Battle : G.bat[d].seat = F.bat[d].seat,
           G.cindex = F.cindex,
           \A c \in Char : /\ G.cmode[c] \in Away <=> F.cmode[c] \in Away
                           /\ F.cmode[c] = "NONE" => G.cmode[c] = "NONE"
    PROVE  FieldAgrees(G)
  <1>1. Linked(G) /\ \A b \in Battle : Shows(G, b) <=> Shows(F, b)
    BY SameLinksKeep DEF FieldAgrees
  <1>2. SeatsAgree(G)
    <2>1. ASSUME NEW b \in Battle, NEW i \in Seat PROVE SeatAgrees(G, b, i)
      <3>1. SeatAgrees(F, b, i) /\ F.bat[b].seat[i] \in Char \union {None}
        BY DEF FieldAgrees, SeatsAgree, Fields, BatRec
      <3> QED
        BY <3>1 DEF SeatAgrees
    <2> QED
      BY <2>1 DEF SeatsAgree
  <1>3. PlayersAgree(G)
    <2> SUFFICES ASSUME NEW c \in Char
                 PROVE  PlayerAgrees(G, c) /\ (c \notin on => G.cmode[c] = "NONE")
      BY DEF PlayersAgree
    <2>1. PlayerAgrees(F, c) /\ (c \notin on => F.cmode[c] = "NONE")
      BY DEF FieldAgrees, PlayersAgree
    <2>2. F.cindex[c] \in Battle \union {None}
      BY DEF Fields
    <2> QED
      BY <2>1, <2>2 DEF PlayerAgrees, HasSeat
  <1>4. Shown(G)
    BY <1>1 DEF FieldAgrees, Shown, SameLinks
  <1> QED
    BY <1>1, <1>2, <1>3, <1>4 DEF FieldAgrees

(* Those in L lose their seats, and that is all.                           *)
LEMMA LeaversKeep ==
    ASSUME NEW F \in Fields, FieldAgrees(F), on \subseteq Char, NEW G \in Fields, NEW L \in SUBSET on,
           \A d \in Battle :
              /\ G.bat[d].mode = F.bat[d].mode /\ G.bat[d].type = F.bat[d].type
              /\ G.bat[d].next = F.bat[d].next /\ G.bat[d].before = F.bat[d].before
              /\ G.bat[d].hurry = F.bat[d].hurry
              /\ \A i \in Seat : G.bat[d].seat[i] = IF F.bat[d].seat[i] \in L THEN None
                                                    ELSE F.bat[d].seat[i],
           \A c \in Char : /\ G.cmode[c] = IF c \in L THEN "FINAL" ELSE F.cmode[c]
                           /\ G.cindex[c] = IF c \in L THEN None ELSE F.cindex[c]
    PROVE  FieldAgrees(G) /\ SameLinks(F, G)
  <1>5. SameLinks(F, G)
    BY DEF SameLinks
  <1>6. Linked(G) /\ \A d \in Battle : Shows(G, d) <=> Shows(F, d)
    BY <1>5, SameLinksKeep DEF FieldAgrees
  <1>7. SeatsAgree(G)
    <2> SUFFICES ASSUME NEW d \in Battle, NEW i \in Seat, G.bat[d].seat[i] # None
                 PROVE  SeatAgrees(G, d, i)
      BY DEF SeatsAgree, SeatAgrees
    <2> DEFINE c == F.bat[d].seat[i]
    <2>1. G.bat[d].seat[i] = c /\ c # None /\ c \notin L
      OBVIOUS
    <2>2. c \in on /\ F.cmode[c] \notin Away /\ F.cindex[c] = d
          /\ \A j \in Seat : F.bat[d].seat[j] = c => i = j
      BY <2>1 DEF FieldAgrees, SeatsAgree, SeatAgrees
    <2> HIDE DEF c
    <2>4. G.cmode[c] = F.cmode[c] /\ G.cindex[c] = d
      BY <2>1, <2>2
    <2>5. \A j \in Seat : G.bat[d].seat[j] = c => i = j
      BY <2>1, <2>2
    <2> QED
      BY <2>1, <2>2, <2>4, <2>5 DEF SeatAgrees
  <1>8. PlayersAgree(G)
    <2> SUFFICES ASSUME NEW c \in Char
                 PROVE  PlayerAgrees(G, c) /\ (c \notin on => G.cmode[c] = "NONE")
      BY DEF PlayersAgree
    <2>1. PlayerAgrees(F, c) /\ (c \notin on => F.cmode[c] = "NONE")
      BY DEF FieldAgrees, PlayersAgree
    <2>2. CASE c \in L
      BY <2>2 DEF PlayerAgrees, Away
    <2>3. CASE c \notin L
      <3>1. G.cmode[c] = F.cmode[c] /\ G.cindex[c] = F.cindex[c]
        BY <2>3
      <3>2. ASSUME F.cmode[c] \notin Away PROVE HasSeat(G, c)
        <4>1. HasSeat(F, c) /\ F.cindex[c] \in Battle
          BY <2>1, <3>2 DEF PlayerAgrees, HasSeat, Fields
        <4>2. PICK i \in Seat : F.bat[F.cindex[c]].seat[i] = c
          BY <4>1 DEF HasSeat
        <4>3. G.bat[F.cindex[c]].seat[i] = c
          BY <2>3, <4>1, <4>2
        <4> QED
          BY <3>1, <4>1, <4>3 DEF HasSeat
      <3> QED
        BY <2>1, <3>1, <3>2 DEF PlayerAgrees
    <2> QED
      BY <2>2, <2>3
  <1>9. KindsAgree(G)
    <2> SUFFICES ASSUME NEW d \in Battle PROVE KindAgrees(G.bat[d])
      BY DEF KindsAgree
    <2>1. KindAgrees(F.bat[d])
      BY DEF FieldAgrees, KindsAgree
    <2>2. \A i \in Seat : F.bat[d].seat[i] = None => G.bat[d].seat[i] = None
      OBVIOUS
    <2>3. G.bat[d].mode = "NONE" => G.bat[d] = Unused
      <3> SUFFICES ASSUME F.bat[d].mode = "NONE" PROVE G.bat[d] = Unused
        OBVIOUS
      <3>1. F.bat[d] = Unused /\ \A i \in Seat : F.bat[d].seat[i] = None
        BY <2>1 DEF KindAgrees, Unused
      <3>2. G.bat[d] \in BatRec
        BY DEF Fields
      <3>3. G.bat[d].seat = [i \in Seat |-> None]
        BY <2>2, <3>1, <3>2 DEF BatRec
      <3> QED
        BY <3>1, <3>2, <3>3 DEF BatRec, Unused
    <2>4. Side(1) \subseteq Seat
      BY SideFacts
    <2> QED
      BY <2>1, <2>2, <2>3, <2>4 DEF KindAgrees
  <1>10. Shown(G)
    BY <1>6 DEF FieldAgrees, Shown
  <1> QED
    BY <1>5, <1>6, <1>7, <1>8, <1>9, <1>10 DEF FieldAgrees

(* BATTLE_Exit: of those it is meant for, whoever has a seat there loses   *)
(* it, and that is all.                                                    *)
Leaves(F, D, b, c) == c \in D /\ \E i \in Seat : F.bat[b].seat[i] = c
Emptied(seat, D) == [i \in Seat |-> IF seat[i] \in D THEN None ELSE seat[i]]

Exited(F, D, b, G) ==
    /\ G \in Fields
    /\ G.bat = [F.bat EXCEPT ![b] = [F.bat[b] EXCEPT !.seat = Emptied(F.bat[b].seat, D)]]
    /\ \A c \in Char : /\ G.cmode[c] = IF Leaves(F, D, b, c) THEN "FINAL" ELSE F.cmode[c]
                       /\ G.cindex[c] = IF Leaves(F, D, b, c) THEN None ELSE F.cindex[c]

LEMMA ExitIs ==
    ASSUME NEW F \in Fields, FieldAgrees(F), NEW D \in SUBSET Char, NEW b \in Battle
    PROVE  Exited(F, D, b, Exit(F, D, b))
  <1> DEFINE seat == F.bat[b].seat
             left == {i \in Seat : /\ seat[i] \in D
                                   /\ \A s \in {0, 1} : \A j \in Side(s) :
                                         i \in Side(s) /\ j < i => seat[j] # seat[i]}
             gone == {seat[i] : i \in left}
             B    == [F.bat[b] EXCEPT !.seat = [i \in Seat |-> IF i \in left THEN None ELSE seat[i]]]
             G    == [bat    |-> [F.bat EXCEPT ![b] = B],
                      cmode  |-> [c \in Char |-> IF c \in gone THEN "FINAL" ELSE F.cmode[c]],
                      cindex |-> [c \in Char |-> IF c \in gone THEN None ELSE F.cindex[c]],
                      down   |-> F.down \ gone, watch |-> F.watch]
  <1>1. seat \in [Seat -> Char \union {None}] /\ F.bat[b] \in BatRec
    BY DEF Fields, BatRec
  <1>2. left = {i \in Seat : seat[i] \in D}
    <2>1. ASSUME NEW i \in Seat, seat[i] \in D, NEW s \in {0, 1}, NEW j \in Side(s), i \in Side(s), j < i
          PROVE  seat[j] # seat[i]
      <3>1. j \in Seat /\ j # i /\ seat[i] # None
        BY <2>1, SideFacts
      <3>2. SeatAgrees(F, b, i)
        BY DEF FieldAgrees, SeatsAgree
      <3> QED
        BY <3>1, <3>2 DEF SeatAgrees
    <2> QED
      BY <2>1
  <1>3. \A c \in Char : c \in gone <=> Leaves(F, D, b, c)
    BY <1>2 DEF Leaves
  <1>4. B = [F.bat[b] EXCEPT !.seat = Emptied(seat, D)] /\ B \in BatRec
    <2>1. [i \in Seat |-> IF i \in left THEN None ELSE seat[i]] = Emptied(seat, D)
      BY <1>2 DEF Emptied
    <2>2. Emptied(seat, D) \in [Seat -> Char \union {None}]
      BY <1>1 DEF Emptied
    <2> QED
      BY <1>1, <2>1, <2>2 DEF BatRec
  <1> HIDE DEF B, gone, left
  <1>5. G \in Fields
    BY <1>4 DEF Fields, CharMode
  <1>6. CASE F.bat[b].mode = "NONE"
    <2>1. Exit(F, D, b) = F
      BY <1>6 DEF Exit
    <2>2. \A i \in Seat : seat[i] = None
      BY <1>6 DEF FieldAgrees, KindsAgree, KindAgrees, Unused
    <2> HIDE DEF seat
    <2>3. Emptied(seat, D) = seat
      BY <1>1, <2>2 DEF Emptied
    <2>5. \A c \in Char : ~Leaves(F, D, b, c)
      BY <2>2 DEF Leaves, seat
    <2>4. [F.bat EXCEPT ![b] = [F.bat[b] EXCEPT !.seat = Emptied(seat, D)]] = F.bat
      BY <2>3 DEF Fields, BatRec, seat
    <2> QED
      BY <2>1, <2>4, <2>5 DEF seat, Exited
  <1>7. CASE F.bat[b].mode # "NONE"
    <2>1. Exit(F, D, b) = G
      BY <1>7 DEF Exit, B, gone, left
    <2> QED
      BY <1>3, <1>4, <1>5, <2>1 DEF Exited
  <1> QED
    BY <1>6, <1>7

LEMMA ExitKeeps ==
    ASSUME NEW F \in Fields, FieldAgrees(F), on \subseteq Char, NEW D \in SUBSET Char, NEW b \in Battle
    PROVE  FieldAgrees(Exit(F, D, b)) /\ SameLinks(F, Exit(F, D, b))
  <1> DEFINE G == Exit(F, D, b)
  <1>0. Exited(F, D, b, G)
    BY ExitIs
  <1> HIDE DEF G
  <1>1. /\ G.bat = [F.bat EXCEPT ![b] = [F.bat[b] EXCEPT !.seat = Emptied(F.bat[b].seat, D)]]
        /\ \A c \in Char : /\ G.cmode[c] = IF Leaves(F, D, b, c) THEN "FINAL" ELSE F.cmode[c]
                           /\ G.cindex[c] = IF Leaves(F, D, b, c) THEN None ELSE F.cindex[c]
        /\ G \in Fields
    BY <1>0 DEF Exited
  <1>2. /\ \A d \in Battle : d # b => G.bat[d] = F.bat[d]
        /\ G.bat[b] = [F.bat[b] EXCEPT !.seat = Emptied(F.bat[b].seat, D)]
    BY <1>1 DEF Fields
  <1>3. \A d \in Battle : /\ G.bat[d].mode = F.bat[d].mode /\ G.bat[d].type = F.bat[d].type
                          /\ G.bat[d].next = F.bat[d].next /\ G.bat[d].before = F.bat[d].before
                          /\ G.bat[d].hurry = F.bat[d].hurry
    BY <1>2 DEF Fields, BatRec
  <1>4. \A d \in Battle, i \in Seat :
           G.bat[d].seat[i] = IF d = b /\ F.bat[d].seat[i] \in D THEN None ELSE F.bat[d].seat[i]
    BY <1>2 DEF Fields, BatRec, Emptied
  <1> DEFINE L == {c \in Char : Leaves(F, D, b, c)}
  <1>5. L \in SUBSET on
    BY DEF Leaves, FieldAgrees, SeatsAgree, SeatAgrees
  <1>6. ASSUME NEW d \in Battle, NEW i \in Seat
        PROVE  G.bat[d].seat[i] = IF F.bat[d].seat[i] \in L THEN None ELSE F.bat[d].seat[i]
    <2> DEFINE c == F.bat[d].seat[i]
    <2>1. c \in Char \union {None}
      BY DEF Fields, BatRec
    <2>2. CASE c = None
      BY <1>4, <2>2
    <2>3. CASE c # None
      <3>1. F.cindex[c] = d
        BY <2>3 DEF FieldAgrees, SeatsAgree, SeatAgrees
      <3>2. \A j \in Seat : F.bat[b].seat[j] = c => b = d
        BY <2>3, <3>1 DEF FieldAgrees, SeatsAgree, SeatAgrees
      <3>3. c \in L <=> d = b /\ c \in D
        BY <2>1, <2>3, <3>2 DEF Leaves
      <3> QED
        BY <1>4, <3>3
    <2> QED
      BY <2>2, <2>3
  <1>7. \A c \in Char : /\ G.cmode[c] = IF c \in L THEN "FINAL" ELSE F.cmode[c]
                        /\ G.cindex[c] = IF c \in L THEN None ELSE F.cindex[c]
    BY <1>1
  <1> HIDE DEF L
  <1>8. \A d \in Battle :
           /\ G.bat[d].mode = F.bat[d].mode /\ G.bat[d].type = F.bat[d].type
           /\ G.bat[d].next = F.bat[d].next /\ G.bat[d].before = F.bat[d].before
           /\ G.bat[d].hurry = F.bat[d].hurry
           /\ \A i \in Seat : G.bat[d].seat[i] = IF F.bat[d].seat[i] \in L THEN None
                                                 ELSE F.bat[d].seat[i]
    <2> HIDE DEF G
    <2> QED
      BY <1>3, <1>6, Zenon
  <1>9. G \in Fields
    BY <1>1
  <1>10. FieldAgrees(G) /\ SameLinks(F, G)
    BY <1>5, <1>7, <1>8, <1>9, LeaversKeep
  <1> QED
    BY <1>10 DEF G

(* In G the character c has come to side s of b, at seat i or before it,   *)
(* and nobody else has moved.                                              *)
EntersWell(F, c, b, s, i, G) ==
    /\ G \in Fields /\ FieldAgrees(G) /\ SameLinks(F, G)
    /\ \A x \in Char : x # c => G.cmode[x] = F.cmode[x]
    /\ \A j \in Seat \ Side(s) : G.bat[b].seat[j] = F.bat[b].seat[j]
    /\ \A j \in Side(s) : j > i => G.bat[b].seat[j] = F.bat[b].seat[j]
    /\ G.bat[b].mode = F.bat[b].mode /\ G.bat[b].type = F.bat[b].type

(* BATTLE_NewEntry, BATTLE_WatchNewEntry, BATTLE_RescueEntry: somebody who *)
(* is in no battle takes the first free seat of a side.                    *)
LEMMA EnterKeeps ==
    ASSUME NEW F \in Fields, FieldAgrees(F), on \subseteq Char,
           NEW c \in on, F.cmode[c] \in Away, NEW b \in Battle, F.bat[b].mode # "NONE",
           NEW s \in {0, 1}, NEW i \in Side(s), F.bat[b].seat[i] = None,
           F.bat[b].type = "WATCH" => s = 0 /\ Shows(F, b),
           NEW m \in CharMode \ Away
    PROVE  EntersWell(F, c, b, s, i, Enter(F, c, b, s, m))
  <1> DEFINE free == {j \in Side(s) : F.bat[b].seat[j] = None}
             k == FirstOf(free)
             B == [F.bat[b] EXCEPT !.seat = [F.bat[b].seat EXCEPT ![k] = c]]
             G == Enter(F, c, b, s, m)
  <1>1. k \in free /\ k <= i /\ k \in Seat
    <2>1. free \in SUBSET Nat /\ i \in free /\ Side(s) \subseteq Seat
      BY SideFacts
    <2> HIDE DEF free
    <2>2. k \in free
      BY <2>1, FirstOfIn
    <2>3. k <= i
      BY <2>1, FirstOfLeast
    <2> QED
      BY <2>1, <2>2, <2>3 DEF free
  <1>2. k \in Side(s) /\ F.bat[b].seat[k] = None
    BY <1>1
  <1>3. /\ G.bat = [F.bat EXCEPT ![b] = B] /\ G.cmode = [F.cmode EXCEPT ![c] = m]
        /\ G.cindex = [F.cindex EXCEPT ![c] = b] /\ G.down = F.down
        /\ G.watch \in {F.watch \union {c}, F.watch \ {c}}
        /\ G = [bat |-> G.bat, cmode |-> G.cmode, cindex |-> G.cindex, down |-> G.down, watch |-> G.watch]
    BY DEF Enter
  <1> HIDE DEF G, k, free
  <1>4. F.bat[b] \in BatRec /\ F.bat[b].seat \in [Seat -> Char \union {None}]
    BY DEF Fields, BatRec
  <1>5. B \in BatRec
    <2>1. [F.bat[b].seat EXCEPT ![k] = c] \in [Seat -> Char \union {None}]
      BY <1>4
    <2> QED
      BY <1>4, <2>1 DEF BatRec
  <1>6. G \in Fields
    <2>1. G.bat \in [Battle -> BatRec] /\ G.cmode \in [Char -> CharMode]
      BY <1>3, <1>5 DEF Fields
    <2>2. G.cindex \in [Char -> Battle \union {None}] /\ G.down \in SUBSET on /\ G.watch \in SUBSET on
      BY <1>3 DEF Fields
    <2> QED
      BY <1>3, <2>1, <2>2 DEF Fields
  <1>7. /\ \A d \in Battle : d # b => G.bat[d] = F.bat[d]
        /\ G.bat[b] = B
    BY <1>3 DEF Fields
  <1>8. \A d \in Battle : /\ G.bat[d].mode = F.bat[d].mode /\ G.bat[d].type = F.bat[d].type
                          /\ G.bat[d].next = F.bat[d].next /\ G.bat[d].before = F.bat[d].before
    BY <1>4, <1>7 DEF BatRec
  <1>9. \A d \in Battle, j \in Seat :
           G.bat[d].seat[j] = IF d = b /\ j = k THEN c ELSE F.bat[d].seat[j]
    BY <1>1, <1>4, <1>7 DEF BatRec
  <1> HIDE DEF B
  <1>10. SameLinks(F, G)
    BY <1>8 DEF SameLinks
  <1>11. Linked(G) /\ \A d \in Battle : Shows(G, d) <=> Shows(F, d)
    BY <1>6, <1>10, SameLinksKeep DEF FieldAgrees
  <1>12. /\ \A x \in Char : x # c => G.cmode[x] = F.cmode[x] /\ G.cindex[x] = F.cindex[x]
         /\ G.cmode[c] = m /\ G.cindex[c] = b
    BY <1>3 DEF Fields
  <1>13. \A d \in Battle, j \in Seat : F.bat[d].seat[j] # c
    BY DEF FieldAgrees, SeatsAgree, SeatAgrees
  <1>14. SeatsAgree(G)
    <2> SUFFICES ASSUME NEW d \in Battle, NEW j \in Seat, G.bat[d].seat[j] # None
                 PROVE  SeatAgrees(G, d, j)
      BY DEF SeatsAgree, SeatAgrees
    <2>1. CASE d = b /\ j = k
      BY <1>9, <1>12, <1>13, <2>1 DEF SeatAgrees
    <2>2. CASE ~(d = b /\ j = k)
      <3>1. G.bat[d].seat[j] = F.bat[d].seat[j] /\ SeatAgrees(F, d, j) /\ F.bat[d].seat[j] # c
        BY <1>9, <1>13, <2>2 DEF FieldAgrees, SeatsAgree
      <3> QED
        BY <1>9, <1>12, <3>1 DEF SeatAgrees
    <2> QED
      BY <2>1, <2>2
  <1>15. PlayersAgree(G)
    <2> SUFFICES ASSUME NEW x \in Char
                 PROVE  PlayerAgrees(G, x) /\ (x \notin on => G.cmode[x] = "NONE")
      BY DEF PlayersAgree
    <2>1. PlayerAgrees(F, x) /\ (x \notin on => F.cmode[x] = "NONE")
      BY DEF FieldAgrees, PlayersAgree
    <2>2. CASE x = c
      BY <1>1, <1>9, <1>12, <2>2 DEF PlayerAgrees, HasSeat
    <2>3. CASE x # c
      <3>1. ASSUME HasSeat(F, x) PROVE HasSeat(G, x)
        <4>1. F.cindex[x] \in Battle
          BY <3>1 DEF HasSeat, Fields
        <4>2. PICK j \in Seat : F.bat[F.cindex[x]].seat[j] = x
          BY <3>1 DEF HasSeat
        <4>3. G.bat[F.cindex[x]].seat[j] = x
          BY <1>2, <1>9, <4>1, <4>2
        <4> QED
          BY <1>12, <2>3, <3>1, <4>3 DEF HasSeat
      <3> QED
        BY <1>12, <2>1, <2>3, <3>1 DEF PlayerAgrees
    <2> QED
      BY <2>2, <2>3
  <1>16. KindsAgree(G)
    <2> SUFFICES ASSUME NEW d \in Battle PROVE KindAgrees(G.bat[d])
      BY DEF KindsAgree
    <2>1. KindAgrees(F.bat[d])
      BY DEF FieldAgrees, KindsAgree
    <2>2. CASE d # b
      BY <1>7, <2>1, <2>2
    <2>3. CASE d = b
      <3>1. \A j \in Side(1) : F.bat[b].type = "WATCH" => j # k /\ j \in Seat
        BY <1>2, SideFacts
      <3> QED
        BY <1>8, <1>9, <2>1, <2>3, <3>1 DEF KindAgrees
    <2> QED
      BY <2>2, <2>3
  <1>17. Shown(G)
    BY <1>8, <1>9, <1>11 DEF FieldAgrees, Shown
  <1>18. /\ \A j \in Seat \ Side(s) : G.bat[b].seat[j] = F.bat[b].seat[j]
         /\ \A j \in Side(s) : j > i => G.bat[b].seat[j] = F.bat[b].seat[j]
    BY <1>1, <1>2, <1>9, SideFacts
  <1> QED
    BY <1>6, <1>8, <1>10, <1>11, <1>12, <1>14, <1>15, <1>16, <1>17, <1>18 DEF EntersWell, FieldAgrees, G
(* Step by step: what holds at 0 and from each number to the next.         *)
LEMMA StepByStep ==
    ASSUME NEW N \in Nat, NEW J \in SUBSET (0 .. N), 0 \in J, \A i \in 1 .. N : i - 1 \in J => i \in J
    PROVE  J = 0 .. N
  <1> SUFFICES ASSUME (0 .. N) \ J # {} PROVE FALSE
    OBVIOUS
  <1> DEFINE K == (0 .. N) \ J
             k == FirstOf(K)
  <1>1. K \in SUBSET Nat /\ K # {}
    OBVIOUS
  <1>2. k \in K /\ \A j \in K : k <= j
    <2> HIDE DEF K
    <2> QED
      BY <1>1, FirstOfIn, FirstOfLeast
  <1> HIDE DEF k
  <1>3. k \in 1 .. N /\ k \notin J
    BY <1>2
  <1>4. k - 1 \in 0 .. N /\ k - 1 \in J
    BY <1>2, <1>3
  <1> QED
    BY <1>3, <1>4

(* A function defined by what it is at 0 and by its step exists.           *)
StepsFrom(x, g, N, f) == f = [i \in 0 .. N |-> IF i = 0 THEN x ELSE g[<<f[i - 1], i>>]]

LEMMA StepsExist ==
    ASSUME NEW X, NEW x \in X, NEW N \in Nat, NEW g \in [X \X (1 .. N) -> X]
    PROVE  \E f \in [0 .. N -> X] : StepsFrom(x, g, N, f)
  <1> DEFINE J == {n \in 0 .. N : \E f \in [0 .. n -> X] : StepsFrom(x, g, n, f)}
  <1>1. 0 \in J
    <2> DEFINE f == [i \in 0 .. 0 |-> x]
    <2>1. f \in [0 .. 0 -> X] /\ StepsFrom(x, g, 0, f)
      BY DEF StepsFrom
    <2> QED
      BY <2>1
  <1>2. ASSUME NEW n \in 1 .. N, n - 1 \in J PROVE n \in J
    <2>1. PICK f \in [0 .. n - 1 -> X] : StepsFrom(x, g, n - 1, f)
      BY <1>2
    <2> DEFINE h == [i \in 0 .. n |-> IF i = n THEN g[<<f[n - 1], n>>] ELSE f[i]]
    <2>2. n - 1 \in 0 .. n - 1 /\ f[n - 1] \in X /\ g[<<f[n - 1], n>>] \in X
      <3>1. n - 1 \in 0 .. n - 1 /\ f[n - 1] \in X
        OBVIOUS
      <3> QED
        BY <3>1
    <2>3. h \in [0 .. n -> X]
      <3> HIDE DEF StepsFrom
      <3>1. \A i \in 0 .. n : i # n => i \in 0 .. n - 1
        OBVIOUS
      <3> QED
        BY <2>2, <3>1
    <2>4. \A i \in 0 .. n : h[i] = IF i = 0 THEN x ELSE g[<<h[i - 1], i>>]
      <3> TAKE i \in 0 .. n
      <3>1. CASE i = n
        <4>1. h[i - 1] = f[n - 1] /\ h[i] = g[<<f[n - 1], n>>] /\ i # 0
          BY <3>1
        <4> QED
          BY <3>1, <4>1
      <3>2. CASE i # n
        <4>1. i \in 0 .. n - 1 /\ h[i] = f[i] /\ (i # 0 => i - 1 \in 0 .. n - 1 /\ i - 1 # n /\ h[i - 1] = f[i - 1])
          BY <3>2
        <4>2. f[i] = IF i = 0 THEN x ELSE g[<<f[i - 1], i>>]
          BY <2>1, <4>1, Zenon DEF StepsFrom
        <4> QED
          BY <4>1, <4>2
      <3> QED
        BY <3>1, <3>2
    <2>5. StepsFrom(x, g, n, h)
      <3>1. h = [i \in 0 .. n |-> h[i]]
        OBVIOUS
      <3> HIDE DEF h
      <3> QED
        BY <2>4, <3>1 DEF StepsFrom
    <2> QED
      <3> HIDE DEF h
      <3> QED
        BY <2>3, <2>5
  <1>3. J = 0 .. N
    <2> J \in SUBSET (0 .. N)
      OBVIOUS
    <2> HIDE DEF J
    <2> QED
      BY <1>1, <1>2, StepByStep
  <1> QED
    BY <1>3
(* CHAR_DischargeParty of several leaves the parties agreeing.             *)
LEMMA DischargeAllKeeps ==
    ASSUME NEW P \in Parties, on \subseteq Char, Agrees(P), NEW F \in Fields, NEW b \in Battle,
           NEW D \in SUBSET on
    PROVE  DischargeAll(P, F, D, b) \in Parties /\ Agrees(DischargeAll(P, F, D, b))
  <1> DEFINE N == 2 * SideMax
             X == {p \in Parties : Agrees(p)}
             seat == F.bat[b].seat
             g == [z \in X \X (1 .. N) |-> DischargeIf(z[1], seat[z[2]], D)]
             Def(f) == f = [i \in 0 .. N |-> IF i = 0 THEN P ELSE DischargeIf(f[i - 1], seat[i], D)]
             out == CHOOSE f : Def(f)
  <1>1. ASSUME NEW p \in X, NEW i \in 1 .. N PROVE DischargeIf(p, seat[i], D) \in X
    <2>1. CASE seat[i] \in D
      BY <2>1, DischargeKeeps DEF DischargeIf
    <2>2. CASE seat[i] \notin D
      BY <2>2 DEF DischargeIf
    <2> QED
      BY <2>1, <2>2
  <1> HIDE DEF X
  <1>2. g \in [X \X (1 .. N) -> X] /\ N \in Nat /\ P \in X
    BY <1>1 DEF X
  <1>3. PICK f \in [0 .. N -> X] : StepsFrom(P, g, N, f)
    <2> HIDE DEF g, N
    <2> QED
      BY <1>2, StepsExist
  <1>4. Def(f)
    <2>1. \A i \in 0 .. N : i # 0 => <<f[i - 1], i>> \in X \X (1 .. N)
      <3> TAKE i \in 0 .. N
      <3> HAVE i # 0
      <3>1. i - 1 \in 0 .. N /\ i \in 1 .. N
        OBVIOUS
      <3> QED
        BY <3>1
    <2>2. \A i \in 0 .. N : i # 0 => g[<<f[i - 1], i>>] = DischargeIf(f[i - 1], seat[i], D)
      BY <2>1
    <2> HIDE DEF g, N, seat
    <2>3. [i \in 0 .. N |-> IF i = 0 THEN P ELSE g[<<f[i - 1], i>>]]
          = [i \in 0 .. N |-> IF i = 0 THEN P ELSE DischargeIf(f[i - 1], seat[i], D)]
      BY <2>2
    <2> QED
      BY <1>3, <2>3 DEF StepsFrom
  <1>5. Def(out)
    <2> HIDE DEF Def
    <2> QED
      BY <1>4
  <1>6. DischargeAll(P, F, D, b) = out[N]
    BY Zenon DEF DischargeAll
  <1>7. out[0] = P /\ \A i \in 1 .. N : out[i] = DischargeIf(out[i - 1], seat[i], D)
    <2> HIDE DEF out, seat
    <2>1. \A i \in 0 .. N : out[i] = IF i = 0 THEN P ELSE DischargeIf(out[i - 1], seat[i], D)
      BY <1>5, Zenon
    <2> QED
      BY <1>2, <2>1
  <1>8. {i \in 0 .. N : out[i] \in X} = 0 .. N
    <2> HIDE DEF out, seat
    <2> DEFINE J == {i \in 0 .. N : out[i] \in X}
    <2>1. J \in SUBSET (0 .. N) /\ 0 \in J
      BY <1>2, <1>7
    <2>2. ASSUME NEW i \in 1 .. N, i - 1 \in J PROVE i \in J
      <3>1. i \in 0 .. N /\ out[i - 1] \in X
        BY <2>2
      <3>2. out[i] \in X
        BY <1>1, <1>7, <3>1
      <3> QED
        BY <3>1, <3>2
    <2> HIDE DEF J, N
    <2>3. J = 0 .. N
      BY <1>2, <2>1, <2>2, StepByStep
    <2> QED
      BY <2>3 DEF J
  <1> QED
    BY <1>2, <1>6, <1>8 DEF X
(* BATTLE_PartyNewEntry as far as place i: b has room for the next on its  *)
(* side, and nobody but c and its members has been moved.                  *)
EnteredUpTo(F, c, b, s, i, G) ==
    /\ G \in Fields /\ FieldAgrees(G) /\ SameLinks(F, G)
    /\ G.bat[b].mode = F.bat[b].mode /\ G.bat[b].type = F.bat[b].type
    /\ \A j \in Seat \ Side(s) : G.bat[b].seat[j] = F.bat[b].seat[j]
    /\ \A j \in Side(s) : j > (IF s = 0 THEN 1 ELSE SideMax + 1) + i => G.bat[b].seat[j] = None
    /\ \A x \in Char : (x # c /\ \A k \in Member : pslot[c][k] # x) => G.cmode[x] = F.cmode[x]

LEMMA EnterTyped ==
    ASSUME NEW F \in Fields, NEW c \in on, on \subseteq Char, NEW b \in Battle, NEW s \in {0, 1}, NEW m \in CharMode
    PROVE  Enter(F, c, b, s, m) \in Fields
  <1> DEFINE k == FirstOf({j \in Side(s) : F.bat[b].seat[j] = None})
             seat == [F.bat[b].seat EXCEPT ![k] = c]
             B == [F.bat[b] EXCEPT !.seat = seat]
             w == IF m = "WATCHINIT" THEN F.watch \union {c} ELSE F.watch \ {c}
  <1>1. seat \in [Seat -> Char \union {None}] /\ F.bat[b] \in BatRec
    <2> HIDE DEF k
    <2> QED
      BY DEF Fields, BatRec
  <1>2. Enter(F, c, b, s, m)
        = [bat |-> [F.bat EXCEPT ![b] = B], cmode |-> [F.cmode EXCEPT ![c] = m],
           cindex |-> [F.cindex EXCEPT ![c] = b], down |-> F.down, watch |-> w]
    BY DEF Enter
  <1> HIDE DEF seat
  <1>3. B \in BatRec
    BY <1>1 DEF BatRec
  <1>4. w \in SUBSET on
    BY DEF Fields
  <1> HIDE DEF B, w
  <1>5. [F.bat EXCEPT ![b] = B] \in [Battle -> BatRec]
    BY <1>3 DEF Fields
  <1>6. [F.cmode EXCEPT ![c] = m] \in [Char -> CharMode] /\ [F.cindex EXCEPT ![c] = b] \in [Char -> Battle \union {None}]
        /\ F.down \in SUBSET on
    BY DEF Fields
  <1> QED
    BY <1>2, <1>4, <1>5, <1>6 DEF Fields

LEMMA EnterNext ==
    ASSUME NEW F \in Fields, on \subseteq Char,
           NEW c \in on, NEW b \in Battle, F.bat[b].mode # "NONE", NEW s \in {0, 1},
           F.bat[b].type = "WATCH" => s = 0 /\ Shows(F, b),
           NEW m \in CharMode \ Away,
           NEW i \in Member, NEW G, EnteredUpTo(F, c, b, s, i - 1, G),
           NEW x, x = pslot[c][i]
    PROVE  EnteredUpTo(F, c, b, s, i, EnterIfFree(G, x, b, s, m))
  <1> DEFINE lo == IF s = 0 THEN 1 ELSE SideMax + 1
             k == lo + i
  <1>1. k \in Side(s) /\ k > lo + (i - 1) /\ i \in Nat /\ lo \in Nat /\ Side(s) \subseteq Nat
    BY SideFacts DEF Member
  <1>2. /\ G \in Fields /\ FieldAgrees(G) /\ SameLinks(F, G)
        /\ G.bat[b].mode = F.bat[b].mode /\ G.bat[b].type = F.bat[b].type
        /\ \A j \in Seat \ Side(s) : G.bat[b].seat[j] = F.bat[b].seat[j]
        /\ \A j \in Side(s) : j > lo + (i - 1) => G.bat[b].seat[j] = None
        /\ \A y \in Char : (y # c /\ \A l \in Member : pslot[c][l] # y) => G.cmode[y] = F.cmode[y]
    BY DEF EnteredUpTo
  <1> HIDE DEF lo
  <1>3. CASE ~(x \in on /\ G.cmode[x] = "NONE")
    <2>1. EnterIfFree(G, x, b, s, m) = G
      BY <1>3 DEF EnterIfFree
    <2>2. \A j \in Side(s) : j > lo + i => G.bat[b].seat[j] = None
      BY <1>1, <1>2
    <2> QED
      BY <1>2, <2>1, <2>2 DEF EnteredUpTo, lo
  <1>4. CASE x \in on /\ G.cmode[x] = "NONE"
    <2> DEFINE H == Enter(G, x, b, s, m)
    <2>1. EnterIfFree(G, x, b, s, m) = H
      BY <1>4 DEF EnterIfFree
    <2>2. G.bat[b].type = "WATCH" => s = 0 /\ Shows(G, b)
      <3>1. \A d \in Battle : G.bat[d].type = F.bat[d].type /\ G.bat[d].next = F.bat[d].next
        BY <1>2 DEF SameLinks
      <3>2. \A h \in Battle : Chain(G, h) = Chain(F, h)
        BY <3>1, ChainSame
      <3> QED
        BY <1>2, <3>1, <3>2 DEF Shows
    <2>3. G.bat[b].seat[k] = None /\ G.cmode[x] \in Away
      BY <1>1, <1>2, <1>4 DEF Away
    <2> HIDE DEF k
    <2>4. /\ H \in Fields /\ FieldAgrees(H) /\ SameLinks(G, H)
          /\ \A y \in Char : y # x => H.cmode[y] = G.cmode[y]
          /\ \A j \in Seat \ Side(s) : H.bat[b].seat[j] = G.bat[b].seat[j]
          /\ \A j \in Side(s) : j > k => H.bat[b].seat[j] = G.bat[b].seat[j]
          /\ H.bat[b].mode = G.bat[b].mode /\ H.bat[b].type = G.bat[b].type
      <3>1. /\ G \in Fields /\ FieldAgrees(G) /\ x \in on /\ G.cmode[x] \in Away
            /\ G.bat[b].mode # "NONE" /\ k \in Side(s) /\ G.bat[b].seat[k] = None
            /\ G.bat[b].type = "WATCH" => s = 0 /\ Shows(G, b)
        BY <1>1, <1>2, <1>4, <2>2, <2>3
      <3> HIDE DEF H
      <3>2. EntersWell(G, x, b, s, k, Enter(G, x, b, s, m))
        BY <3>1, EnterKeeps
      <3> QED
        BY <3>2, Zenon DEF EntersWell, H
    <2> HIDE DEF H
    <2>5. SameLinks(F, H)
      BY <1>2, <2>4 DEF SameLinks
    <2>6. \A j \in Side(s) : j > lo + i => H.bat[b].seat[j] = None
      BY <1>1, <1>2, <2>4 DEF k
    <2> QED
      BY <1>2, <2>1, <2>4, <2>5, <2>6 DEF EnteredUpTo, lo
  <1> QED
    BY <1>3, <1>4
(* BATTLE_PartyNewEntry, BATTLE_WatchPartyNewEntry: c and its party get    *)
(* seats on a side where nobody has one.                                   *)
LEMMA EnterPartyKeeps ==
    ASSUME NEW F \in Fields, FieldAgrees(F), PartyTypes,
           NEW c \in on, F.cmode[c] \in Away, NEW b \in Battle, F.bat[b].mode # "NONE",
           NEW s \in {0, 1}, \A j \in Side(s) : F.bat[b].seat[j] = None,
           F.bat[b].type = "WATCH" => s = 0 /\ Shows(F, b),
           NEW m \in CharMode \ Away
    PROVE  EnteredUpTo(F, c, b, s, PartyMax - 1, EnterParty(F, c, b, s, m))
  <1> DEFINE N == PartyMax - 1
             g == [z \in Fields \X (1 .. N) |-> EnterIfFree(z[1], pslot[c][z[2]], b, s, m)]
             Def(f) == f = [i \in Place |-> IF i = 0 THEN Enter(F, c, b, s, m)
                                            ELSE EnterIfFree(f[i - 1], pslot[c][i], b, s, m)]
             entered == CHOOSE f : Def(f)
             first == Enter(F, c, b, s, m)
  <1>0. on \subseteq Char /\ N \in Nat /\ Place = 0 .. N /\ Member = 1 .. N
    BY DEF PartyTypes, Place, Member
  <1>1. g \in [Fields \X (1 .. N) -> Fields]
    <2>1. ASSUME NEW G \in Fields, NEW i \in 1 .. N PROVE EnterIfFree(G, pslot[c][i], b, s, m) \in Fields
      BY <1>0, EnterTyped DEF EnterIfFree
    <2> QED
      BY <2>1
  <1>2. first \in Fields
    BY <1>0, EnterTyped
  <1>3. PICK f \in [0 .. N -> Fields] : StepsFrom(first, g, N, f)
    <2> HIDE DEF g, N, first
    <2> QED
      BY <1>0, <1>1, <1>2, StepsExist
  <1>4. Def(f)
    <2>1. \A i \in 0 .. N : i # 0 => <<f[i - 1], i>> \in Fields \X (1 .. N)
      <3> TAKE i \in 0 .. N
      <3> HAVE i # 0
      <3>1. i - 1 \in 0 .. N /\ i \in 1 .. N
        OBVIOUS
      <3> QED
        BY <3>1
    <2>2. \A i \in 0 .. N : i # 0 => g[<<f[i - 1], i>>] = EnterIfFree(f[i - 1], pslot[c][i], b, s, m)
      BY <2>1
    <2> HIDE DEF g, N, first
    <2>3. [i \in 0 .. N |-> IF i = 0 THEN first ELSE g[<<f[i - 1], i>>]]
          = [i \in 0 .. N |-> IF i = 0 THEN first ELSE EnterIfFree(f[i - 1], pslot[c][i], b, s, m)]
      BY <2>2
    <2> QED
      BY <1>0, <1>3, <2>3 DEF StepsFrom, first
  <1>5. Def(entered)
    <2> HIDE DEF Def
    <2> QED
      BY <1>4
  <1>6. EnterParty(F, c, b, s, m) = entered[N]
    BY Zenon DEF EnterParty
  <1>7. entered[0] = first
        /\ \A i \in 1 .. N : entered[i] = EnterIfFree(entered[i - 1], pslot[c][i], b, s, m)
    <2> HIDE DEF entered, N
    <2>1. \A i \in 0 .. N : entered[i] = IF i = 0 THEN first ELSE EnterIfFree(entered[i - 1], pslot[c][i], b, s, m)
      BY <1>0, <1>5, Zenon
    <2> HIDE DEF first
    <2> QED
      BY <1>0, <2>1
  <1> HIDE DEF entered
  <1>8. EnteredUpTo(F, c, b, s, 0, entered[0])
    <2> DEFINE i == IF s = 0 THEN 1 ELSE SideMax + 1
    <2>1. i \in Side(s) /\ i \in Nat /\ Side(s) \subseteq Seat
      BY SideFacts
    <2>2. i + 0 = i
      BY <2>1
    <2> HIDE DEF i
    <2>3. /\ first \in Fields /\ FieldAgrees(first) /\ SameLinks(F, first)
          /\ \A x \in Char : x # c => first.cmode[x] = F.cmode[x]
          /\ \A j \in Seat \ Side(s) : first.bat[b].seat[j] = F.bat[b].seat[j]
          /\ \A j \in Side(s) : j > i => first.bat[b].seat[j] = F.bat[b].seat[j]
          /\ first.bat[b].mode = F.bat[b].mode /\ first.bat[b].type = F.bat[b].type
      <3>1. EntersWell(F, c, b, s, i, Enter(F, c, b, s, m))
        BY <1>0, <2>1, EnterKeeps
      <3> QED
        BY <3>1 DEF EntersWell
    <2> HIDE DEF first
    <2> QED
      BY <1>7, <2>1, <2>2, <2>3 DEF EnteredUpTo, i
  <1> HIDE DEF first
  <1>9. {i \in 0 .. N : EnteredUpTo(F, c, b, s, i, entered[i])} = 0 .. N
    <2> DEFINE J == {i \in 0 .. N : EnteredUpTo(F, c, b, s, i, entered[i])}
    <2>1. J \in SUBSET (0 .. N) /\ 0 \in J
      BY <1>0, <1>8
    <2>2. ASSUME NEW i \in 1 .. N, i - 1 \in J PROVE i \in J
      <3>1. EnteredUpTo(F, c, b, s, i - 1, entered[i - 1]) /\ i \in Member
        BY <1>0, <2>2
      <3>2. entered[i] = EnterIfFree(entered[i - 1], pslot[c][i], b, s, m)
        BY <1>7
      <3>3. EnteredUpTo(F, c, b, s, i, entered[i])
        BY <1>0, <3>1, <3>2, EnterNext
      <3> QED
        BY <3>3
    <2> HIDE DEF J, N
    <2>3. J = 0 .. N
      BY <1>0, <2>1, <2>2, StepByStep
    <2> QED
      BY <2>3 DEF J
  <1>10. N \in 0 .. N
    BY <1>0
  <1> HIDE DEF N
  <1> QED
    BY <1>6, <1>9, <1>10 DEF N
(* BATTLE_CreateBattle: a battle nobody is in or links to is taken.        *)
Fresh(type, mode) == [mode |-> mode, type |-> type, hurry |-> FALSE,
                      seat |-> [i \in Seat |-> None], next |-> None, before |-> None]

Created(F, b, type, mode, G) ==
    /\ G \in Fields /\ FieldAgrees(G)
    /\ G.bat = [F.bat EXCEPT ![b] = Fresh(type, mode)] /\ G.cmode = F.cmode /\ G.cindex = F.cindex

LEMMA CreateKeeps ==
    ASSUME NEW F \in Fields, FieldAgrees(F), NEW b \in Battle, F.bat[b].mode = "NONE",
           NEW type \in BattleType, NEW mode \in BattleMode \ {"NONE"},
           type = "WATCH" <=> mode \in Watchers
    PROVE  Created(F, b, type, mode, Create(F, b, type, mode))
  <1> DEFINE B == Fresh(type, mode)
             G == Create(F, b, type, mode)
  <1>1. /\ G.bat = [F.bat EXCEPT ![b] = B] /\ G.cmode = F.cmode /\ G.cindex = F.cindex
        /\ G \in Fields
    <2>1. B \in BatRec
      BY DEF BatRec, Fresh
    <2>2. G = [F EXCEPT !.bat = [F.bat EXCEPT ![b] = B]]
      BY DEF Create, With, Fresh
    <2> HIDE DEF B, G
    <2>3. [F.bat EXCEPT ![b] = B] \in [Battle -> BatRec]
      BY <2>1 DEF Fields
    <2> HIDE DEF BatRec
    <2> QED
      BY <2>2, <2>3 DEF Fields
  <1> HIDE DEF G
  <1>2. G.bat[b] = B /\ \A d \in Battle : d # b => G.bat[d] = F.bat[d]
    BY <1>1 DEF Fields
  <1>3. F.bat[b] = Unused
    BY DEF FieldAgrees, KindsAgree, KindAgrees
  <1>4. /\ B.next = None /\ B.before = None /\ B.mode = mode /\ B.type = type
        /\ \A i \in Seat : B.seat[i] = None
    BY DEF Fresh
  <1>5. /\ F.bat[b].next = None /\ F.bat[b].before = None /\ F.bat[b].type # "WATCH"
        /\ \A i \in Seat : F.bat[b].seat[i] = None
    BY <1>3 DEF Unused
  <1> HIDE DEF B
  <1>6. \A d \in Battle : Chain(G, d) = Chain(F, d)
    <2>1. \A d \in Battle : G.bat[d].next = F.bat[d].next
      BY <1>2, <1>4, <1>5
    <2> QED
      BY <2>1, ChainSame
  <1>7. \A d \in Battle, i \in Seat : G.bat[d].seat[i] = F.bat[d].seat[i]
    BY <1>2, <1>4, <1>5
  <1>8. SeatsAgree(G)
    BY <1>1, <1>7 DEF FieldAgrees, SeatsAgree, SeatAgrees
  <1>9. PlayersAgree(G)
    <2>1. \A c \in Char : HasSeat(F, c) => HasSeat(G, c)
      BY <1>1, <1>7 DEF HasSeat, Fields
    <2> QED
      BY <1>1, <2>1 DEF FieldAgrees, PlayersAgree, PlayerAgrees
  <1>10. KindsAgree(G)
    <2> SUFFICES ASSUME NEW d \in Battle PROVE KindAgrees(G.bat[d])
      BY DEF KindsAgree
    <2>1. CASE d = b
      BY <1>2, <1>4, <2>1, SideFacts DEF KindAgrees
    <2>2. CASE d # b
      BY <1>2, <2>2 DEF FieldAgrees, KindsAgree
    <2> QED
      BY <2>1, <2>2
  <1>11. Linked(G)
    <2> SUFFICES ASSUME NEW d \in Battle PROVE LinkAgrees(G, d)
      BY DEF Linked
    <2>1. LinkAgrees(F, d) /\ F.bat[d].next # b
      BY <1>5 DEF FieldAgrees, Linked, LinkAgrees
    <2>2. F.bat[d].before # b
      <3>1. d # None
        OBVIOUS
      <3> QED
        BY <1>5, <2>1, <3>1 DEF LinkAgrees
    <2>3. F.bat[d].next \in Battle \union {None} /\ F.bat[d].before \in Battle \union {None}
      BY DEF Fields, BatRec
    <2>4. CASE d = b
      BY <1>2, <1>4, <1>6, <2>1, <2>4 DEF LinkAgrees
    <2>5. CASE d # b
      BY <1>2, <1>6, <2>1, <2>2, <2>3, <2>5 DEF LinkAgrees
    <2> QED
      BY <2>4, <2>5
  <1>12. Shown(G)
    <2> SUFFICES ASSUME NEW d \in Battle, NEW i \in Seat, G.bat[d].type = "WATCH", G.bat[d].seat[i] # None
                 PROVE  Shows(G, d)
      BY DEF Shown
    <2>1. d # b /\ Shows(F, d)
      BY <1>2, <1>4, <1>7 DEF FieldAgrees, Shown
    <2>2. PICK h \in Battle : F.bat[h].type # "WATCH" /\ d \in Chain(F, h)
      BY <2>1 DEF Shows
    <2>3. h # b
      <3> SUFFICES ASSUME h = b PROVE FALSE
        OBVIOUS
      <3> DEFINE S == {}
      <3>1. Onward(F, S \union {h}) \subseteq S /\ S \in SUBSET Battle
        BY <1>5 DEF Onward
      <3>2. Chain(F, h) \subseteq S
        <4> HIDE DEF S
        <4> QED
          BY <3>1, ChainLeast
      <3> QED
        BY <2>2, <3>2
    <2> QED
      BY <1>2, <1>6, <2>2, <2>3 DEF Shows
  <1> QED
    BY <1>1, <1>8, <1>9, <1>10, <1>11, <1>12 DEF FieldAgrees, Created, B, G
(* Nothing is before a battle that says so, and so no chain holds it.      *)
LEMMA NotOnChain ==
    ASSUME NEW F \in Fields, Linked(F), NEW b \in Battle, F.bat[b].before = None, NEW h \in Battle
    PROVE  b \notin Chain(F, h)
  <1> SUFFICES ASSUME b \in Chain(F, h) PROVE FALSE
    OBVIOUS
  <1>1. PICK e \in Chain(F, h) \union {h} : F.bat[e].next = b
    BY ChainComesFrom
  <1>2. e \in Battle /\ b # None /\ e # None
    BY ChainClosed
  <1> QED
    BY <1>1, <1>2 DEF Linked, LinkAgrees

(* BATTLE_WatchLink: a new battle b of watchers goes next behind top.      *)
LEMMA LinkKeeps ==
    ASSUME NEW F \in Fields, FieldAgrees(F), NEW top \in Battle, NEW b \in Battle, b # top,
           F.bat[top].mode # "NONE", F.bat[top].type = "WATCH" => Shows(F, top),
           F.bat[b].mode # "NONE", F.bat[b].type = "WATCH",
           F.bat[b].next = None, F.bat[b].before = None
    PROVE  /\ Link(F, top, b) \in Fields /\ FieldAgrees(Link(F, top, b)) /\ Shows(Link(F, top, b), b)
           /\ \A d \in Battle : /\ Link(F, top, b).bat[d].mode = F.bat[d].mode
                                /\ Link(F, top, b).bat[d].type = F.bat[d].type
                                /\ Link(F, top, b).bat[d].seat = F.bat[d].seat
           /\ Link(F, top, b).cmode = F.cmode
  <1> DEFINE n == F.bat[top].next
             G == Link(F, top, b)
             Bat == [d \in Battle |->
                       CASE d = top -> [F.bat[d] EXCEPT !.next = b]
                         [] d = b   -> [F.bat[d] EXCEPT !.before = top, !.next = n]
                         [] d = n /\ d # b /\ d # top -> [F.bat[d] EXCEPT !.before = b]
                         [] OTHER   -> F.bat[d]]
  <1>1. LinkAgrees(F, top) /\ n \in Battle \union {None} /\ n # top /\ n # b /\ \A d \in Battle : d # None
    <2>1. LinkAgrees(F, top) /\ n \in Battle \union {None} /\ \A d \in Battle : d # None
      BY DEF FieldAgrees, Linked, Fields, BatRec
    <2>2. n # None => n \in Chain(F, top)
      BY ChainClosed
    <2>3. n # top
      BY <2>1, <2>2 DEF LinkAgrees
    <2>4. n # b
      BY <2>1 DEF LinkAgrees
    <2> QED
      BY <2>1, <2>3, <2>4
  <1> HIDE DEF n
  <1>2. /\ Bat[top] = [F.bat[top] EXCEPT !.next = b]
        /\ Bat[b] = [F.bat[b] EXCEPT !.before = top, !.next = n]
        /\ n # None => Bat[n] = [F.bat[n] EXCEPT !.before = b]
        /\ \A d \in Battle : d # top /\ d # b /\ d # n => Bat[d] = F.bat[d]
    BY <1>1
  <1>3. Bat \in [Battle -> BatRec]
    <2>1. \A d \in Battle : F.bat[d] \in BatRec
      BY DEF Fields
    <2>2. /\ [F.bat[top] EXCEPT !.next = b] \in BatRec
          /\ [F.bat[b] EXCEPT !.before = top, !.next = n] \in BatRec
          /\ n # None => [F.bat[n] EXCEPT !.before = b] \in BatRec
      BY <1>1, <2>1 DEF BatRec
    <2> HIDE DEF Bat
    <2>4. \A d \in Battle : Bat[d] \in BatRec
      <3> TAKE d \in Battle
      <3>1. CASE d = top
        BY <1>2, <2>2, <3>1
      <3>2. CASE d = b
        BY <1>2, <2>2, <3>2
      <3>3. CASE d = n
        BY <1>1, <1>2, <2>2, <3>3
      <3>4. CASE d # top /\ d # b /\ d # n
        BY <1>2, <2>1, <3>4
      <3> QED
        BY <3>1, <3>2, <3>3, <3>4
    <2> QED
      BY <2>4 DEF Bat
  <1>4. G = [F EXCEPT !.bat = Bat]
    BY Zenon DEF Link, n
  <1> HIDE DEF Bat, G
  <1>5. G \in Fields /\ G.bat = Bat /\ G.cmode = F.cmode /\ G.cindex = F.cindex
    <2> HIDE DEF BatRec
    <2> QED
      BY <1>3, <1>4 DEF Fields
  <1>6. /\ \A d \in Battle : G.bat[d].mode = F.bat[d].mode /\ G.bat[d].type = F.bat[d].type
                             /\ G.bat[d].seat = F.bat[d].seat
        /\ \A d \in Battle : G.bat[d].next = IF d = top THEN b ELSE IF d = b THEN n ELSE F.bat[d].next
        /\ \A d \in Battle : G.bat[d].before = IF d = b THEN top ELSE IF d = n THEN b ELSE F.bat[d].before
    <2>1. \A d \in Battle : F.bat[d] \in BatRec
      BY DEF Fields
    <2> SUFFICES ASSUME NEW d \in Battle
                 PROVE  /\ G.bat[d].mode = F.bat[d].mode /\ G.bat[d].type = F.bat[d].type
                        /\ G.bat[d].seat = F.bat[d].seat
                        /\ G.bat[d].next = IF d = top THEN b ELSE IF d = b THEN n ELSE F.bat[d].next
                        /\ G.bat[d].before = IF d = b THEN top ELSE IF d = n THEN b ELSE F.bat[d].before
      OBVIOUS
    <2>2. CASE d = top
      BY <1>1, <1>2, <1>5, <2>1, <2>2 DEF BatRec
    <2>3. CASE d = b
      BY <1>1, <1>2, <1>5, <2>1, <2>3 DEF BatRec
    <2>4. CASE d = n
      BY <1>1, <1>2, <1>5, <2>1, <2>4 DEF BatRec
    <2>5. CASE d # top /\ d # b /\ d # n
      BY <1>2, <1>5, <2>5
    <2> QED
      BY <2>2, <2>3, <2>4, <2>5
  <1>7. top \notin Chain(F, top) /\ \A h \in Battle : b \notin Chain(F, h)
    BY <1>1, NotOnChain DEF LinkAgrees, FieldAgrees
  <1>8. \A h \in Battle : h # b => Chain(F, h) \subseteq Chain(G, h)
    <2> SUFFICES ASSUME NEW h \in Battle, h # b PROVE Chain(F, h) \subseteq Chain(G, h)
      OBVIOUS
    <2> DEFINE S == Chain(G, h)
    <2>1. S \in SUBSET Battle /\ \A d \in S \union {h} : G.bat[d].next # None => G.bat[d].next \in S
      BY <1>5, ChainClosed
    <2> HIDE DEF S
    <2>2. Onward(F, S \union {h}) \subseteq S
      <3> SUFFICES ASSUME NEW e \in S \union {h}, F.bat[e].next # None PROVE F.bat[e].next \in S
        BY DEF Onward
      <3>1. e \in Battle /\ e # b
        BY <2>1
      <3>2. CASE e = top
        <4>1. b \in S
          BY <1>1, <1>6, <2>1, <3>1, <3>2
        <4>2. F.bat[e].next = n
          BY <3>2 DEF n
        <4> QED
          BY <1>6, <2>1, <3>2, <4>1, <4>2
      <3>3. CASE e # top
        BY <1>6, <2>1, <3>1, <3>3
      <3> QED
        BY <3>2, <3>3
    <2>3. Chain(F, h) \subseteq S
      BY <2>1, <2>2, ChainLeast
    <2> QED
      BY <2>3 DEF S
  <1>9. \A h \in Battle : h \notin Chain(G, h)
    <2> SUFFICES ASSUME NEW h \in Battle PROVE h \notin Chain(G, h)
      OBVIOUS
    <2>1. CASE h = b
      <3> DEFINE S == Chain(F, top)
      <3>1. S \in SUBSET Battle /\ top \notin S /\ b \notin S
            /\ \A d \in S \union {top} : F.bat[d].next # None => F.bat[d].next \in S
        BY <1>7, ChainClosed
      <3> HIDE DEF S
      <3>2. Onward(G, S \union {h}) \subseteq S
        BY <1>6, <2>1, <3>1 DEF Onward, n
      <3>3. Chain(G, h) \subseteq S
        BY <3>1, <3>2, ChainLeast
      <3> QED
        BY <2>1, <3>1, <3>3
    <2>2. CASE h # b
      <3> DEFINE C == Chain(F, h)
                 S == IF top \in C \union {h} THEN C \union {b} ELSE C
      <3>1. C \in SUBSET Battle /\ b \notin C /\ h \notin C
            /\ \A d \in C \union {h} : F.bat[d].next # None => F.bat[d].next \in C
        BY <1>7, ChainClosed DEF FieldAgrees, Linked, LinkAgrees
      <3> HIDE DEF C
      <3>2. S \in SUBSET Battle /\ h \notin S
        BY <2>2, <3>1
      <3>3. Onward(G, S \union {h}) \subseteq S
        <4> SUFFICES ASSUME NEW e \in S \union {h}, G.bat[e].next # None PROVE G.bat[e].next \in S
          BY DEF Onward
        <4>1. CASE e = top
          <5>1. top \in C \union {h}
            BY <4>1, <1>7
          <5> QED
            BY <1>6, <4>1, <5>1
        <4>2. CASE e = b
          <5>1. top \in C \union {h}
            BY <2>2, <3>1, <4>2
          <5> QED
            BY <1>6, <3>1, <4>2, <5>1 DEF n
        <4>3. CASE e # top /\ e # b
          BY <1>6, <3>1, <3>2, <4>3
        <4> QED
          BY <4>1, <4>2, <4>3
      <3> HIDE DEF S
      <3>4. Chain(G, h) \subseteq S
        BY <3>2, <3>3, ChainLeast
      <3> QED
        BY <3>2, <3>4
    <2> QED
      BY <2>1, <2>2
  <1>10. Linked(G)
    <2> SUFFICES ASSUME NEW d \in Battle PROVE LinkAgrees(G, d)
      BY DEF Linked
    <2>1. LinkAgrees(F, d) /\ LinkAgrees(F, b)
          /\ F.bat[d].next \in Battle \union {None} /\ F.bat[d].before \in Battle \union {None}
      BY DEF FieldAgrees, Linked, Fields, BatRec
    <2>2. F.bat[d].next # b /\ F.bat[d].before # b
      BY <1>1, <2>1 DEF LinkAgrees
    <2>3. G.bat[d].next # None =>
             G.bat[d].mode # "NONE" /\ G.bat[G.bat[d].next].before = d /\ G.bat[G.bat[d].next].type = "WATCH"
      <3>1. CASE d = top
        BY <1>6, <3>1
      <3>2. CASE d = b
        BY <1>1, <1>6, <3>2 DEF LinkAgrees, n
      <3>3. CASE d # top /\ d # b
        <4>1. F.bat[d].next # None => F.bat[d].next # n
          BY <1>1, <2>1, <3>3 DEF LinkAgrees, n
        <4> QED
          BY <1>6, <2>1, <2>2, <3>3, <4>1 DEF LinkAgrees
      <3> QED
        BY <3>1, <3>2, <3>3
    <2>4. G.bat[d].before # None => G.bat[d].mode # "NONE" /\ G.bat[G.bat[d].before].next = d
      <3>1. CASE d = b
        BY <1>6, <3>1
      <3>2. CASE d = n
        BY <1>1, <1>6, <2>1, <3>2 DEF LinkAgrees, n
      <3>3. CASE d # b /\ d # n
        <4>1. F.bat[d].before # None => F.bat[d].before # top
          BY <1>1, <2>1, <3>3 DEF LinkAgrees, n
        <4> QED
          BY <1>6, <2>1, <2>2, <3>3, <4>1 DEF LinkAgrees
      <3> QED
        BY <3>1, <3>2, <3>3
    <2> QED
      BY <1>9, <2>3, <2>4 DEF LinkAgrees
  <1>11. \A d \in Battle : Shows(F, d) => Shows(G, d)
    <2> SUFFICES ASSUME NEW d \in Battle, NEW h \in Battle, F.bat[h].type # "WATCH", d \in Chain(F, h)
                 PROVE  Shows(G, d)
      BY DEF Shows
    <2> QED
      BY <1>6, <1>8 DEF Shows
  <1>12. Shows(G, b)
    <2>1. \E h \in Battle : F.bat[h].type # "WATCH" /\ top \in Chain(G, h) \union {h}
      BY <1>6, <1>11 DEF Shows
    <2>2. PICK h \in Battle : F.bat[h].type # "WATCH" /\ top \in Chain(G, h) \union {h}
      BY <2>1
    <2>3. b \in Chain(G, h)
      BY <1>1, <1>5, <1>6, <2>2, ChainClosed
    <2> QED
      BY <1>6, <2>2, <2>3 DEF Shows
  <1>13. SeatsAgree(G) /\ PlayersAgree(G)
    <2>1. SeatsAgree(G)
      BY <1>5, <1>6 DEF FieldAgrees, SeatsAgree, SeatAgrees
    <2>2. \A c \in Char : HasSeat(F, c) => HasSeat(G, c)
      BY <1>5, <1>6 DEF HasSeat, Fields
    <2> QED
      BY <1>5, <2>1, <2>2 DEF FieldAgrees, PlayersAgree, PlayerAgrees
  <1>14. KindsAgree(G)
    <2> SUFFICES ASSUME NEW d \in Battle PROVE KindAgrees(G.bat[d])
      BY DEF KindsAgree
    <2>1. KindAgrees(F.bat[d]) /\ LinkAgrees(F, d)
      BY DEF FieldAgrees, KindsAgree, Linked
    <2>2. CASE d = top \/ d = b \/ d = n
      <3>1. G.bat[d].mode # "NONE"
        BY <1>1, <1>6, <2>1, <2>2 DEF LinkAgrees, n
      <3> QED
        BY <1>6, <2>1, <3>1 DEF KindAgrees
    <2>3. CASE d # top /\ d # b /\ d # n
      BY <1>2, <1>5, <2>1, <2>3
    <2> QED
      BY <2>2, <2>3
  <1>15. Shown(G)
    BY <1>6, <1>11 DEF FieldAgrees, Shown
  <1> QED
    BY <1>5, <1>6, <1>10, <1>12, <1>13, <1>14, <1>15 DEF FieldAgrees, G
(* BATTLE_DeleteBattle, BATTLE_WatchUnLink: an empty battle is taken out   *)
(* of its chain; when it is the one that is shown, nobody watches it.      *)
Empty(F, b) == \A i \in Seat : F.bat[b].seat[i] = None

LEMMA DeleteKeeps ==
    ASSUME NEW F \in Fields, FieldAgrees(F), NEW x \in Battle, Empty(F, x),
           F.bat[x].type = "WATCH" \/ \A d \in Chain(F, x) : Empty(F, d)
    PROVE  LET G == Delete(F, x)
           IN  /\ G \in Fields /\ FieldAgrees(G) /\ Empty(G, x)
               /\ \A d \in Battle : d # x => /\ G.bat[d].type = F.bat[d].type
                                             /\ G.bat[d].seat = F.bat[d].seat
                                             /\ Chain(G, d) \subseteq Chain(F, d)
  <1> DEFINE p == F.bat[x].before
             n == F.bat[x].next
             G == Delete(F, x)
             Bat == [d \in Battle |->
                       CASE d = x -> Unused
                         [] d = p /\ d # x -> [F.bat[d] EXCEPT !.next = n]
                         [] d = n /\ d # x /\ d # p -> [F.bat[d] EXCEPT !.before = p]
                         [] OTHER -> F.bat[d]]
  <1>1. /\ LinkAgrees(F, x) /\ p \in Battle \union {None} /\ n \in Battle \union {None}
        /\ n # x /\ p # x /\ (p # None => p # n) /\ \A d \in Battle : d # None
    <2>1. LinkAgrees(F, x) /\ n \in Battle \union {None} /\ p \in Battle \union {None} /\ \A d \in Battle : d # None
      BY DEF FieldAgrees, Linked, Fields, BatRec
    <2>2. n # None => n \in Chain(F, x)
      BY ChainClosed
    <2>3. n # x
      BY <2>1, <2>2 DEF LinkAgrees
    <2>4. p # x
      BY <2>1, <2>3 DEF LinkAgrees
    <2>5. p # None => p # n
      <3> SUFFICES ASSUME p # None, p = n PROVE FALSE
        OBVIOUS
      <3>1. F.bat[p].next = x /\ p \in Chain(F, x)
        BY <2>1, <2>2 DEF LinkAgrees
      <3>2. x \in Chain(F, x)
        BY <2>1, <3>1, ChainClosed
      <3> QED
        BY <2>1, <3>2 DEF LinkAgrees
    <2> QED
      BY <2>1, <2>3, <2>4, <2>5
  <1> HIDE DEF n, p
  <1>2. /\ Bat[x] = Unused
        /\ p # None => Bat[p] = [F.bat[p] EXCEPT !.next = n]
        /\ n # None => Bat[n] = [F.bat[n] EXCEPT !.before = p]
        /\ \A d \in Battle : d # x /\ d # p /\ d # n => Bat[d] = F.bat[d]
    BY <1>1
  <1>3. Bat \in [Battle -> BatRec]
    <2>1. \A d \in Battle : F.bat[d] \in BatRec
      BY DEF Fields
    <2>2. /\ Unused \in BatRec
          /\ p # None => [F.bat[p] EXCEPT !.next = n] \in BatRec
          /\ n # None => [F.bat[n] EXCEPT !.before = p] \in BatRec
      BY <1>1, <2>1 DEF BatRec, Unused, BattleMode, BattleType
    <2> HIDE DEF Bat
    <2>3. \A d \in Battle : Bat[d] \in BatRec
      <3> TAKE d \in Battle
      <3>1. CASE d = x
        BY <1>2, <2>2, <3>1
      <3>2. CASE d = p
        BY <1>1, <1>2, <2>2, <3>2
      <3>3. CASE d = n
        BY <1>1, <1>2, <2>2, <3>3
      <3>4. CASE d # x /\ d # p /\ d # n
        BY <1>2, <2>1, <3>4
      <3> QED
        BY <3>1, <3>2, <3>3, <3>4
    <2> QED
      BY <2>3 DEF Bat
  <1>4. G = [F EXCEPT !.bat = Bat]
    BY Zenon DEF Delete, n, p
  <1> HIDE DEF Bat, G
  <1>5. G \in Fields /\ G.bat = Bat /\ G.cmode = F.cmode /\ G.cindex = F.cindex
    <2> HIDE DEF BatRec
    <2> QED
      BY <1>3, <1>4 DEF Fields
  <1>6. /\ G.bat[x] = Unused
        /\ \A d \in Battle : d # x => G.bat[d].mode = F.bat[d].mode /\ G.bat[d].type = F.bat[d].type
                                      /\ G.bat[d].seat = F.bat[d].seat
        /\ \A d \in Battle : d # x => G.bat[d].next = IF d = p THEN n ELSE F.bat[d].next
        /\ \A d \in Battle : d # x => G.bat[d].before = IF d = n THEN p ELSE F.bat[d].before
    <2>1. \A d \in Battle : F.bat[d] \in BatRec
      BY DEF Fields
    <2> SUFFICES ASSUME NEW d \in Battle, d # x
                 PROVE  /\ G.bat[d].mode = F.bat[d].mode /\ G.bat[d].type = F.bat[d].type
                        /\ G.bat[d].seat = F.bat[d].seat
                        /\ G.bat[d].next = IF d = p THEN n ELSE F.bat[d].next
                        /\ G.bat[d].before = IF d = n THEN p ELSE F.bat[d].before
      BY <1>2, <1>5
    <2>2. CASE d = p
      BY <1>1, <1>2, <1>5, <2>1, <2>2 DEF BatRec
    <2>3. CASE d = n
      BY <1>1, <1>2, <1>5, <2>1, <2>3 DEF BatRec
    <2>4. CASE d # p /\ d # n
      BY <1>2, <1>5, <2>4
    <2> QED
      BY <2>2, <2>3, <2>4
  <1>7. /\ G.bat[x].next = None /\ G.bat[x].before = None /\ G.bat[x].type # "WATCH" /\ Empty(G, x)
        /\ \A i \in Seat : G.bat[x].seat[i] = None
    BY <1>6 DEF Unused, Empty
  <1>8. \A d, e \in Battle : F.bat[d].next = e <=> F.bat[e].before = d
    BY <1>1 DEF FieldAgrees, Linked, LinkAgrees
  <1>9. \A d \in Battle : Chain(G, d) \subseteq Chain(F, d)
    <2> SUFFICES ASSUME NEW d \in Battle PROVE Chain(G, d) \subseteq Chain(F, d)
      OBVIOUS
    <2> DEFINE S == Chain(F, d)
    <2>1. S \in SUBSET Battle /\ \A e \in S \union {d} : F.bat[e].next # None => F.bat[e].next \in S
      BY ChainClosed
    <2> HIDE DEF S
    <2>2. Onward(G, S \union {d}) \subseteq S
      <3> SUFFICES ASSUME NEW e \in S \union {d}, G.bat[e].next # None PROVE G.bat[e].next \in S
        BY DEF Onward
      <3>1. e \in Battle /\ e # x
        BY <1>7, <2>1
      <3>2. CASE e = p
        <4>1. F.bat[e].next = x /\ G.bat[e].next = n
          BY <1>1, <1>6, <3>1, <3>2 DEF LinkAgrees, p
        <4>2. x \in S
          BY <1>1, <2>1, <4>1
        <4> QED
          BY <2>1, <4>1, <4>2 DEF n
      <3>3. CASE e # p
        BY <1>6, <2>1, <3>1, <3>3
      <3> QED
        BY <3>2, <3>3
    <2>3. Chain(G, d) \subseteq S
      BY <2>1, <2>2, ChainLeast
    <2> QED
      BY <2>3 DEF S
  <1>10. Linked(G)
    <2> SUFFICES ASSUME NEW d \in Battle PROVE LinkAgrees(G, d)
      BY DEF Linked
    <2>1. LinkAgrees(F, d) /\ d \notin Chain(G, d)
          /\ F.bat[d].next \in Battle \union {None} /\ F.bat[d].before \in Battle \union {None}
      BY <1>9 DEF FieldAgrees, Linked, LinkAgrees, Fields, BatRec
    <2>2. CASE d = x
      BY <1>7, <2>1, <2>2 DEF LinkAgrees
    <2>3. CASE d # x
      <3>1. ASSUME G.bat[d].next # None
            PROVE  G.bat[d].mode # "NONE" /\ G.bat[G.bat[d].next].before = d /\ G.bat[G.bat[d].next].type = "WATCH"
        <4>1. CASE d = p
          <5>1. n # None /\ G.bat[d].next = n /\ n # x /\ n \in Battle
            BY <1>1, <1>6, <2>3, <3>1, <4>1
          <5>2. F.bat[d].next = x /\ F.bat[n].type = "WATCH"
            BY <1>1, <4>1, <5>1 DEF LinkAgrees, p, n
          <5> QED
            BY <1>1, <1>6, <2>1, <2>3, <4>1, <5>1, <5>2 DEF LinkAgrees
        <4>2. CASE d # p
          <5> DEFINE e == F.bat[d].next
          <5>1. G.bat[d].next = e /\ e \in Battle /\ F.bat[d].mode # "NONE" /\ F.bat[e].before = d /\ F.bat[e].type = "WATCH"
            BY <1>6, <2>1, <2>3, <3>1, <4>2 DEF LinkAgrees
          <5>2. e # x /\ e # n
            BY <1>8, <2>3, <4>2, <5>1 DEF p, n
          <5> QED
            BY <1>6, <2>3, <5>1, <5>2
        <4> QED
          BY <4>1, <4>2
      <3>2. ASSUME G.bat[d].before # None PROVE G.bat[d].mode # "NONE" /\ G.bat[G.bat[d].before].next = d
        <4>1. CASE d = n
          <5>1. p # None /\ G.bat[d].before = p /\ p # x /\ p \in Battle
            BY <1>1, <1>6, <2>3, <3>2, <4>1
          <5>2. F.bat[d].before = x
            BY <1>8, <4>1 DEF n
          <5> QED
            BY <1>1, <1>6, <2>1, <2>3, <4>1, <5>1, <5>2 DEF LinkAgrees
        <4>2. CASE d # n
          <5> DEFINE e == F.bat[d].before
          <5>1. G.bat[d].before = e /\ e \in Battle /\ F.bat[d].mode # "NONE" /\ F.bat[e].next = d
            BY <1>6, <2>1, <2>3, <3>2, <4>2 DEF LinkAgrees
          <5>2. e # x /\ e # p
            BY <1>1, <1>8, <2>3, <4>2, <5>1 DEF p, n
          <5> QED
            BY <1>6, <2>3, <5>1, <5>2
        <4> QED
          BY <4>1, <4>2
      <3> QED
        BY <2>1, <3>1, <3>2 DEF LinkAgrees
    <2> QED
      BY <2>2, <2>3
  <1>11. ASSUME NEW h \in Battle, h # x PROVE Chain(F, h) \subseteq Chain(G, h) \union {x}
    <2> DEFINE C == Chain(G, h)
               S == {d \in Battle : d \in C \/ (d = x /\ p \in C \union {h})}
    <2>1. C \in SUBSET Battle /\ \A e \in C \union {h} : G.bat[e].next # None => G.bat[e].next \in C
      BY <1>5, ChainClosed
    <2>2. x \notin C
      BY <1>5, <1>7, <1>10, NotOnChain
    <2> HIDE DEF C
    <2>3. Onward(F, S \union {h}) \subseteq S
      <3> SUFFICES ASSUME NEW e \in S \union {h}, F.bat[e].next # None PROVE F.bat[e].next \in S
        BY DEF Onward
      <3>0. e \in Battle /\ F.bat[e].next \in Battle
        BY DEF Fields, BatRec
      <3>1. CASE e = x
        <4>1. p \in C \union {h} /\ p \in Battle /\ G.bat[p].next = n /\ n # None
          BY <1>1, <1>6, <1>11, <2>1, <2>2, <3>1 DEF n
        <4>2. n \in C
          BY <2>1, <4>1
        <4> QED
          BY <2>1, <3>1, <4>2 DEF n
      <3>2. CASE e # x /\ e = p
        <4>1. F.bat[e].next = x /\ e \in C \union {h}
          BY <1>1, <3>2 DEF LinkAgrees, p
        <4> QED
          BY <3>2, <4>1
      <3>3. CASE e # x /\ e # p
        <4>1. G.bat[e].next = F.bat[e].next /\ e \in C \union {h}
          BY <1>6, <3>0, <3>3
        <4> QED
          BY <2>1, <4>1
      <3> QED
        BY <3>1, <3>2, <3>3
    <2>4. S \in SUBSET Battle /\ S \subseteq C \union {x}
      OBVIOUS
    <2> HIDE DEF S
    <2>5. Chain(F, h) \subseteq S
      BY <2>3, <2>4, ChainLeast
    <2> QED
      BY <2>4, <2>5 DEF C
  <1>12. Shown(G)
    <2> SUFFICES ASSUME NEW d \in Battle, NEW i \in Seat, G.bat[d].type = "WATCH", G.bat[d].seat[i] # None
                 PROVE  Shows(G, d)
      BY DEF Shown
    <2>1. d # x /\ F.bat[d].type = "WATCH" /\ F.bat[d].seat[i] # None
      BY <1>6, <1>7
    <2>2. PICK h \in Battle : F.bat[h].type # "WATCH" /\ d \in Chain(F, h)
      BY <2>1 DEF FieldAgrees, Shown, Shows
    <2>3. h # x
      BY <2>1, <2>2 DEF Empty
    <2> QED
      BY <1>6, <1>11, <2>1, <2>2, <2>3 DEF Shows
  <1>13. SeatsAgree(G) /\ PlayersAgree(G)
    <2>1. \A d \in Battle, i \in Seat : G.bat[d].seat[i] = F.bat[d].seat[i]
      BY <1>6, <1>7 DEF Empty
    <2>2. SeatsAgree(G)
      BY <1>5, <2>1 DEF FieldAgrees, SeatsAgree, SeatAgrees
    <2>3. \A c \in Char : HasSeat(F, c) => HasSeat(G, c)
      BY <1>5, <2>1 DEF HasSeat, Fields
    <2> QED
      BY <1>5, <2>2, <2>3 DEF FieldAgrees, PlayersAgree, PlayerAgrees
  <1>14. KindsAgree(G)
    <2> SUFFICES ASSUME NEW d \in Battle PROVE KindAgrees(G.bat[d])
      BY DEF KindsAgree
    <2>1. KindAgrees(F.bat[d]) /\ LinkAgrees(F, d)
      BY DEF FieldAgrees, KindsAgree, Linked
    <2>2. CASE d = x
      BY <1>6, <2>2, SideFacts DEF KindAgrees, Unused, Watchers
    <2>3. CASE d # x /\ (d = p \/ d = n)
      <3>1. G.bat[d].mode # "NONE"
        BY <1>1, <1>6, <1>8, <2>1, <2>3 DEF LinkAgrees, n, p
      <3> QED
        BY <1>6, <2>1, <2>3, <3>1 DEF KindAgrees
    <2>4. CASE d # x /\ d # p /\ d # n
      BY <1>2, <1>5, <2>1, <2>4
    <2> QED
      BY <2>2, <2>3, <2>4
  <1> QED
    BY <1>5, <1>6, <1>7, <1>9, <1>10, <1>12, <1>13, <1>14 DEF FieldAgrees, G
(* BATTLE_Finish, of those who watch: nobody is left behind b.             *)
LEMMA WatchersOutKeeps ==
    ASSUME NEW F \in Fields, FieldAgrees(F), on \subseteq Char, NEW b \in Battle
    PROVE  LET G == WatchersOut(F, b)
           IN  /\ G \in Fields /\ FieldAgrees(G) /\ SameLinks(F, G)
               /\ \A d \in Chain(F, b) : Empty(G, d)
               /\ \A d \in Battle : Empty(F, d) => Empty(G, d)
  <1> DEFINE C == Chain(F, b)
             D == {c \in Char : F.cindex[c] \in C /\ c \in Seated(F, F.cindex[c], Side(0))}
             G == WatchersOut(F, b)
  <1>1. C \subseteq Battle /\ None \notin Battle
    BY ChainClosed
  <1>2. \A d \in C, i \in Side(1) : F.bat[d].seat[i] = None
    <2> SUFFICES ASSUME NEW d \in C PROVE \A i \in Side(1) : F.bat[d].seat[i] = None
      OBVIOUS
    <2>1. PICK e \in C \union {b} : F.bat[e].next = d
      BY ChainComesFrom
    <2>2. LinkAgrees(F, e) /\ e \in Battle /\ d \in Battle /\ d # None
      BY <1>1 DEF FieldAgrees, Linked
    <2>3. F.bat[d].type = "WATCH"
      BY <2>1, <2>2 DEF LinkAgrees
    <2> QED
      BY <2>2, <2>3 DEF FieldAgrees, KindsAgree, KindAgrees
  <1> HIDE DEF C
  <1>3. \A c \in Char : c \in D <=> \E d \in C, i \in Side(0) : F.bat[d].seat[i] = c
    <2> SUFFICES ASSUME NEW c \in Char PROVE c \in D <=> \E d \in C, i \in Side(0) : F.bat[d].seat[i] = c
      OBVIOUS
    <2>1. ASSUME NEW d \in C, NEW i \in Side(0), F.bat[d].seat[i] = c PROVE c \in D
      <3>1. SeatAgrees(F, d, i) /\ c # None
        BY <1>1, SideFacts DEF FieldAgrees, SeatsAgree
      <3>2. F.cindex[c] = d /\ c \in on
        BY <2>1, <3>1 DEF SeatAgrees
      <3> QED
        BY <2>1, <3>2 DEF Seated
    <2>2. ASSUME c \in D PROVE \E d \in C, i \in Side(0) : F.bat[d].seat[i] = c
      BY <2>2 DEF Seated
    <2> QED
      BY <2>1, <2>2
  <1>4. D \in SUBSET on
    BY DEF Seated
  <1>5. /\ G.bat = [d \in Battle |-> IF d \in C
                      THEN [F.bat[d] EXCEPT !.seat = [i \in Seat |-> IF i \in Side(0) THEN None ELSE F.bat[d].seat[i]]]
                      ELSE F.bat[d]]
        /\ G.cmode = [c \in Char |-> IF c \in D THEN "FINAL" ELSE F.cmode[c]]
        /\ G.cindex = [c \in Char |-> IF c \in D THEN None ELSE F.cindex[c]]
        /\ G.down = F.down \ D /\ G.watch = F.watch
        /\ G = [bat |-> G.bat, cmode |-> G.cmode, cindex |-> G.cindex, down |-> G.down, watch |-> G.watch]
    BY DEF WatchersOut, C
  <1> HIDE DEF G, D
  <1>6. G.bat \in [Battle -> BatRec]
    <2>1. ASSUME NEW d \in Battle
          PROVE  [F.bat[d] EXCEPT !.seat = [i \in Seat |-> IF i \in Side(0) THEN None ELSE F.bat[d].seat[i]]] \in BatRec
      <3> DEFINE t == [i \in Seat |-> IF i \in Side(0) THEN None ELSE F.bat[d].seat[i]]
      <3>1. t \in [Seat -> Char \union {None}] /\ F.bat[d] \in BatRec
        BY DEF Fields, BatRec
      <3> HIDE DEF t
      <3>2. [F.bat[d] EXCEPT !.seat = t] \in BatRec
        BY <3>1 DEF BatRec
      <3> QED
        BY <3>2 DEF t
    <2>2. \A d \in Battle : F.bat[d] \in BatRec
      BY DEF Fields
    <2> HIDE DEF BatRec
    <2> QED
      BY <1>5, <2>1, <2>2
  <1>7. G \in Fields
    <2>1. G.cmode \in [Char -> CharMode] /\ G.cindex \in [Char -> Battle \union {None}]
          /\ G.down \in SUBSET on /\ G.watch \in SUBSET on
      BY <1>5 DEF Fields, CharMode
    <2> QED
      BY <1>5, <1>6, <2>1 DEF Fields
  <1>8. \A d \in Battle :
           /\ G.bat[d].mode = F.bat[d].mode /\ G.bat[d].type = F.bat[d].type
           /\ G.bat[d].next = F.bat[d].next /\ G.bat[d].before = F.bat[d].before
           /\ G.bat[d].hurry = F.bat[d].hurry
           /\ \A i \in Seat : G.bat[d].seat[i] = IF d \in C /\ i \in Side(0) THEN None ELSE F.bat[d].seat[i]
    BY <1>5 DEF Fields, BatRec
  <1>9. \A d \in C : Empty(G, d)
    <2> SUFFICES ASSUME NEW d \in C, NEW i \in Seat PROVE G.bat[d].seat[i] = None
      BY DEF Empty
    <2>1. d \in Battle /\ i \in Side(0) \union Side(1)
      BY <1>1, SideFacts
    <2>2. G.bat[d].seat[i] = IF i \in Side(0) THEN None ELSE F.bat[d].seat[i]
      BY <1>8, <2>1
    <2> QED
      BY <1>2, <2>1, <2>2
  <1>10. \A d \in Battle, i \in Seat :
            G.bat[d].seat[i] = IF F.bat[d].seat[i] \in D THEN None ELSE F.bat[d].seat[i]
    <2> SUFFICES ASSUME NEW d \in Battle, NEW i \in Seat
                 PROVE  G.bat[d].seat[i] = IF F.bat[d].seat[i] \in D THEN None ELSE F.bat[d].seat[i]
      OBVIOUS
    <2>1. CASE d \in C
      BY <1>2, <1>3, <1>8, <2>1, SideFacts DEF Fields, BatRec
    <2>2. CASE d \notin C
      <3> DEFINE c == F.bat[d].seat[i]
      <3>1. c \notin D
        <4> SUFFICES ASSUME c \in D PROVE FALSE
          OBVIOUS
        <4>1. c \in Char /\ c # None
          BY <1>4
        <4>2. PICK e \in C, j \in Side(0) : F.bat[e].seat[j] = c
          BY <1>3, <4>1
        <4>3. F.cindex[c] = d /\ F.cindex[c] = e
          BY <1>1, <4>1, <4>2, SideFacts DEF FieldAgrees, SeatsAgree, SeatAgrees
        <4> QED
          BY <2>2, <4>3
      <3> QED
        BY <1>8, <2>2, <3>1
    <2> QED
      BY <2>1, <2>2
  <1>11. \A c \in Char : /\ G.cmode[c] = IF c \in D THEN "FINAL" ELSE F.cmode[c]
                         /\ G.cindex[c] = IF c \in D THEN None ELSE F.cindex[c]
    BY <1>5
  <1>12. FieldAgrees(G) /\ SameLinks(F, G)
    BY <1>4, <1>7, <1>8, <1>10, <1>11, LeaversKeep
  <1> QED
    BY <1>7, <1>9, <1>10, <1>12 DEF Empty, G, C
(* What shows another is a battle of watchers.                             *)
LEMMA ChainWatches ==
    ASSUME NEW F \in Fields, FieldAgrees(F), NEW b \in Battle, NEW d \in Chain(F, b)
    PROVE  d \in Battle /\ F.bat[d].type = "WATCH" /\ F.bat[d].mode \in Watchers
  <1>1. PICK e \in Chain(F, b) \union {b} : F.bat[e].next = d
    BY ChainComesFrom
  <1>2. LinkAgrees(F, e) /\ e \in Battle /\ d \in Battle /\ d # None
    BY ChainClosed DEF FieldAgrees, Linked
  <1> QED
    BY <1>1, <1>2 DEF LinkAgrees, FieldAgrees, KindsAgree, KindAgrees

(* Only the battles' modes and their hurry change, and the lists of those  *)
(* who are down and those who watch.                                       *)
SameSeats(F, G) == SameLinks(F, G) /\ \A d \in Battle : G.bat[d].seat = F.bat[d].seat

LEMMA SamePlayersKeep ==
    ASSUME NEW F \in Fields, NEW G \in Fields, FieldAgrees(F), SameSeats(F, G), KindsAgree(G),
           G.cmode = F.cmode, G.cindex = F.cindex
    PROVE  FieldAgrees(G)
  BY ModesKeep DEF SameSeats

LEMMA BattleModeKeeps ==
    ASSUME NEW F \in Fields, FieldAgrees(F), NEW b \in Battle, F.bat[b].mode # "NONE",
           NEW m \in BattleMode \ {"NONE"}, m \in Watchers <=> F.bat[b].type = "WATCH",
           NEW B \in BatRec, B.mode = m,
           B.type = F.bat[b].type, B.seat = F.bat[b].seat, B.next = F.bat[b].next, B.before = F.bat[b].before
    PROVE  LET G == With(F, b, B)
           IN  /\ G \in Fields /\ FieldAgrees(G) /\ SameSeats(F, G)
               /\ G.bat[b] = B /\ G.cmode = F.cmode /\ G.cindex = F.cindex
  <1> DEFINE G == With(F, b, B)
  <1>1. /\ G \in Fields /\ G.bat = [F.bat EXCEPT ![b] = B] /\ G.cmode = F.cmode /\ G.cindex = F.cindex
    <2> HIDE DEF BatRec
    <2>1. G = [F EXCEPT !.bat = [F.bat EXCEPT ![b] = B]]
      BY DEF With
    <2>2. [F.bat EXCEPT ![b] = B] \in [Battle -> BatRec]
      BY DEF Fields
    <2> QED
      BY <2>1, <2>2 DEF Fields
  <1> HIDE DEF G
  <1>2. G.bat[b] = B /\ \A d \in Battle : d # b => G.bat[d] = F.bat[d]
    BY <1>1 DEF Fields
  <1>3. SameSeats(F, G)
    BY <1>2 DEF SameSeats, SameLinks
  <1>4. KindsAgree(G)
    BY <1>2 DEF FieldAgrees, KindsAgree, KindAgrees
  <1>5. FieldAgrees(G)
    BY <1>1, <1>3, <1>4, SamePlayersKeep
  <1> QED
    BY <1>1, <1>2, <1>3, <1>5 DEF G

(* Those in D, who are in a battle, are in another state of it.            *)
LEMMA CharModeKeeps ==
    ASSUME NEW F \in Fields, FieldAgrees(F), NEW D, \A c \in D : F.cmode[c] \notin Away,
           NEW m \in CharMode \ Away
    PROVE  LET G == ModeOf(F, D, m)
           IN  /\ G \in Fields /\ FieldAgrees(G) /\ SameSeats(F, G) /\ G.bat = F.bat
  <1> DEFINE G == ModeOf(F, D, m)
  <1>1. /\ G \in Fields /\ G.bat = F.bat /\ G.cindex = F.cindex
        /\ \A c \in Char : G.cmode[c] = IF c \in D THEN m ELSE F.cmode[c]
    <2> DEFINE M == [c \in Char |-> IF c \in D THEN m ELSE F.cmode[c]]
    <2>1. G = [F EXCEPT !.cmode = M] /\ M \in [Char -> CharMode]
      BY DEF ModeOf, Fields
    <2> HIDE DEF G, M
    <2>2. G \in Fields /\ G.bat = F.bat /\ G.cindex = F.cindex /\ G.cmode = M
      BY <2>1 DEF Fields
    <2> QED
      BY <2>2 DEF M
  <1> HIDE DEF G
  <1>2. SameSeats(F, G) /\ KindsAgree(G)
    BY <1>1 DEF SameSeats, SameLinks, FieldAgrees, KindsAgree
  <1>3. FieldAgrees(G)
    BY <1>1, <1>2, ModesKeep DEF SameSeats, Away
  <1> QED
    BY <1>1, <1>2, <1>3 DEF G

(* Who has a seat is in the battle.                                        *)
LEMMA SeatedIn ==
    ASSUME NEW F \in Fields, FieldAgrees(F), on \subseteq Char, NEW b \in Battle, NEW I \in SUBSET Seat, NEW c \in Seated(F, b, I)
    PROVE  c \in on /\ F.cmode[c] \notin Away /\ F.cindex[c] = b
  <1>1. PICK i \in Seat : F.bat[b].seat[i] = c
    BY DEF Seated
  <1>2. SeatAgrees(F, b, i)
    BY DEF FieldAgrees, SeatsAgree
  <1>3. c \in on
    BY DEF Seated
  <1>4. c # None
    BY <1>3
  <1> QED
    BY <1>1, <1>2, <1>3, <1>4 DEF SeatAgrees
(* BATTLE_PreCommandSeq                                                    *)
LEMMA PreCommandKeeps ==
    ASSUME NEW F \in Fields, FieldAgrees(F), on \subseteq Char, NEW b \in Battle
    PROVE  LET G == PreCommand(F, b)
           IN  G \in Fields /\ FieldAgrees(G) /\ SameSeats(F, G)
  <1> DEFINE C == Chain(F, b)
             Bat == [d \in Battle |-> IF d \in C THEN [F.bat[d] EXCEPT !.mode = "WATCHPRE"] ELSE F.bat[d]]
             H == [F EXCEPT !.bat = Bat]
             D == Seated(F, b, Seat)
  <1>1. \A d \in C : d \in Battle /\ F.bat[d].type = "WATCH" /\ F.bat[d].mode \in Watchers
    BY ChainWatches
  <1> HIDE DEF C
  <1>2. \A d \in Battle : F.bat[d] \in BatRec /\ [F.bat[d] EXCEPT !.mode = "WATCHPRE"] \in BatRec
    BY DEF Fields, BatRec, BattleMode
  <1>3. Bat \in [Battle -> BatRec]
    <2> HIDE DEF BatRec
    <2> QED
      BY <1>2
  <1>4. \A d \in Battle : /\ Bat[d].type = F.bat[d].type /\ Bat[d].seat = F.bat[d].seat
                          /\ Bat[d].next = F.bat[d].next /\ Bat[d].before = F.bat[d].before
                          /\ Bat[d].mode = IF d \in C THEN "WATCHPRE" ELSE F.bat[d].mode
                          /\ d \notin C => Bat[d] = F.bat[d]
    BY <1>2 DEF BatRec
  <1> HIDE DEF Bat
  <1>5. H \in Fields /\ H.bat = Bat /\ H.cmode = F.cmode /\ H.cindex = F.cindex
    <2> HIDE DEF BatRec
    <2> QED
      BY <1>3 DEF Fields
  <1> HIDE DEF H
  <1>6. SameSeats(F, H)
    BY <1>1, <1>4, <1>5 DEF SameSeats, SameLinks, Watchers
  <1>7. KindsAgree(H)
    <2> SUFFICES ASSUME NEW d \in Battle PROVE KindAgrees(H.bat[d])
      BY DEF KindsAgree
    <2>1. KindAgrees(F.bat[d])
      BY DEF FieldAgrees, KindsAgree
    <2> QED
      BY <1>1, <1>4, <1>5, <2>1 DEF KindAgrees, Watchers
  <1>8. FieldAgrees(H)
    BY <1>5, <1>6, <1>7, SamePlayersKeep
  <1>9. \A c \in Seated(H, b, Seat) : H.cmode[c] \notin Away
    <2> HIDE DEF Seat
    <2> QED
      BY <1>5, <1>8, SeatedIn
  <1>10. Seated(H, b, Seat) = Seated(F, b, Seat)
    BY <1>4, <1>5 DEF Seated
  <1>11. PreCommand(F, b) = ModeOf(H, Seated(F, b, Seat), "C_WAIT")
    BY Zenon DEF PreCommand, H, Bat, C
  <1>12. "C_WAIT" \in CharMode \ Away
    BY DEF CharMode, Away
  <1> DEFINE G == ModeOf(H, Seated(H, b, Seat), "C_WAIT")
  <1>13. G \in Fields /\ FieldAgrees(G) /\ SameSeats(H, G)
    BY <1>5, <1>8, <1>9, <1>12, CharModeKeeps
  <1> HIDE DEF G
  <1>14. SameSeats(F, G)
    BY <1>6, <1>13 DEF SameSeats, SameLinks
  <1> QED
    BY <1>10, <1>11, <1>13, <1>14 DEF G

(* What a handler makes of the field becomes the state; who goes has left  *)
(* its battle before.                                                      *)
LEMMA FieldBecomesKeeps ==
    ASSUME NEW G, G \in Fields, FieldAgrees(G), FieldBecomes(G),
           \A c \in on : c \notin on' => G.cmode[c] = "NONE",
           G.down \subseteq on', G.watch \subseteq on'
    PROVE  BattleInv'
  <1>1. bat' = G.bat /\ cmode' = G.cmode /\ cindex' = G.cindex /\ down' = G.down /\ watch' = G.watch
    BY DEF FieldBecomes
  <1>2. Field' \in Fields'
    BY <1>1 DEF Fields, Field
  <1>3. SeatsAgree(Field)'
    <2>1. \A b \in Battle, i \in Seat : SeatAgrees(G, b, i) /\ G.bat[b].seat[i] \in Char \union {None}
      BY DEF FieldAgrees, SeatsAgree, Fields, BatRec
    <2> QED
      BY <1>1, <2>1 DEF SeatsAgree, SeatAgrees, Field, Away
  <1>4. PlayersAgree(Field)'
    <2>1. \A c \in Char : PlayerAgrees(G, c) /\ (c \notin on => G.cmode[c] = "NONE")
      BY DEF FieldAgrees, PlayersAgree
    <2> QED
      BY <1>1, <2>1 DEF PlayersAgree, PlayerAgrees, HasSeat, Field, Away
  <1>5. KindsAgree(Field)'
    BY <1>1 DEF FieldAgrees, KindsAgree, KindAgrees, Field
  <1>6. \A b \in Battle : Chain(Field, b)' = Chain(G, b)
    BY <1>1 DEF Chain, Onward, Field
  <1>7. Linked(Field)'
    <2>1. \A b \in Battle : LinkAgrees(G, b)
      BY DEF FieldAgrees, Linked
    <2>2. ASSUME NEW b \in Battle PROVE LinkAgrees(Field, b)'
      <3>1. LinkAgrees(G, b) /\ Chain(Field, b)' = Chain(G, b)
        BY <1>6, <2>1
      <3> QED
        BY <1>1, <3>1 DEF LinkAgrees, Field
    <2> QED
      BY <2>2 DEF Linked
  <1>8. Shown(Field)'
    <2>1. ASSUME NEW b \in Battle PROVE Shows(Field, b)' <=> Shows(G, b)
      <3>1. \A h \in Battle : Chain(Field, h)' = Chain(G, h)
        BY <1>6
      <3> QED
        BY <1>1, <3>1 DEF Shows, Field
    <2>2. Shown(G)
      BY DEF FieldAgrees
    <2> QED
      BY <1>1, <2>1, <2>2 DEF Shown, Field
  <1> QED
    BY <1>2, <1>3, <1>4, <1>5, <1>7, <1>8 DEF BattleInv, FieldAgrees
LEMMA FieldStepKeeps ==
    ASSUME NEW G, G \in Fields, FieldAgrees(G), FieldBecomes(G), UNCHANGED on
    PROVE  BattleInv'
  <1>1. G.down \subseteq on' /\ G.watch \subseteq on'
    BY DEF Fields
  <1> QED
    BY <1>1, FieldBecomesKeeps

LEMMA OnIsChar == PartyInv => on \subseteq Char
  BY DEF PartyInv, PartyTypes

-----------------------------------------------------------------------------
(* Into a battle.                                                          *)
LEMMA EncounterKeeps ==
    ASSUME PartyInv, BattleInv, NEW c \in Char, NEW b \in Battle, Encounter(c, b)
    PROVE  BattleInv'
  <1> DEFINE F == Create(Field, b, "P_vs_E", "INIT")
             G == EnterParty(F, c, b, 0, "INIT")
  <1>1. /\ Field \in Fields /\ FieldAgrees(Field) /\ PartyTypes /\ c \in on
        /\ Field.bat[b].mode = "NONE" /\ Field.cmode[c] = "NONE"
        /\ FieldBecomes(G) /\ UNCHANGED on
    BY DEF Encounter, BattleInv, PartyInv, Unwanted, Field, partyVars
  <1>2. Created(Field, b, "P_vs_E", "INIT", F)
    <2>1. "P_vs_E" \in BattleType /\ "INIT" \in BattleMode \ {"NONE"} /\ "INIT" \notin Watchers /\ "P_vs_E" # "WATCH"
      BY DEF BattleType, BattleMode, Watchers
    <2> HIDE DEF F
    <2> QED
      BY <1>1, <2>1, CreateKeeps DEF F
  <1> HIDE DEF F
  <1>3. /\ F \in Fields /\ FieldAgrees(F) /\ F.cmode[c] \in Away
        /\ F.bat[b].mode # "NONE" /\ F.bat[b].type # "WATCH" /\ \A j \in Seat : F.bat[b].seat[j] = None
    BY <1>1, <1>2 DEF Created, Fresh, Fields, Away
  <1>4. "INIT" \in CharMode \ Away /\ 0 \in {0, 1} /\ \A j \in Side(0) : F.bat[b].seat[j] = None
    BY <1>3, SideFacts DEF CharMode, Away
  <1>5. EnteredUpTo(F, c, b, 0, PartyMax - 1, G)
    <2> HIDE DEF G
    <2> QED
      BY <1>1, <1>3, <1>4, EnterPartyKeeps DEF G
  <1>6. G \in Fields /\ FieldAgrees(G)
    BY <1>5 DEF EnteredUpTo
  <1> HIDE DEF G
  <1> QED
    BY <1>1, <1>6, FieldStepKeeps

LEMMA DuelKeeps ==
    ASSUME PartyInv, BattleInv, NEW c \in Char, NEW t \in Char, NEW b \in Battle, Duel(c, t, b)
    PROVE  BattleInv'
  <1> DEFINE e == IF pmode[t] = "CLIENT" THEN pslot[t][0] ELSE t
             F == Create(Field, b, "P_vs_P", "INIT")
             H == EnterParty(F, c, b, 0, "INIT")
             G == EnterParty(H, e, b, 1, "INIT")
  <1>1. /\ Field \in Fields /\ FieldAgrees(Field) /\ PartyTypes /\ c \in on /\ e \in on
        /\ Field.bat[b].mode = "NONE" /\ Field.cmode[c] = "NONE" /\ Field.cmode[e] = "NONE"
        /\ FieldBecomes(G) /\ UNCHANGED on
    BY DEF Duel, BattleInv, PartyInv, Unwanted, Field, partyVars
  <1>2. e # c /\ \A k \in Member : pslot[c][k] # e
    <2>1. /\ pmode[c] # "CLIENT" /\ t \in on \ {c} /\ c \in on /\ e \in on /\ c \in Char
          /\ Parent(c) # None => Parent(c) # Parent(e)
      BY DEF Duel
    <2>2. /\ PartyAgrees /\ c # None /\ \A x \in Char : pmode[x] \in PMode
      BY AgreesIsAgrees DEF PartyInv, PartyTypes
    <2>3. e # c
      <3> SUFFICES ASSUME e = c PROVE FALSE
        OBVIOUS
      <3>1. pmode[t] = "CLIENT" /\ pslot[t][0] = c
        BY <2>1
      <3>2. pmode[c] = "LEADER"
        BY <2>1, <2>2, <3>1 DEF PartyAgrees, MemberAgrees
      <3> QED
        BY <2>1, <2>2, <3>2 DEF Parent
    <2>4. CASE pmode[c] = "LEADER"
      <3> SUFFICES ASSUME NEW k \in Member, pslot[c][k] = e PROVE FALSE
        BY <2>3
      <3>0. e # None /\ LeaderAgrees(c)
        BY <1>1, <2>1, <2>2, <2>4 DEF PartyAgrees, PartyTypes
      <3> HIDE DEF e
      <3>1. pmode[e] = "CLIENT" /\ pslot[e][0] = c
        BY <3>0 DEF LeaderAgrees
      <3> QED
        BY <2>1, <2>2, <2>4, <3>1 DEF Parent
    <2>5. CASE pmode[c] = "NONE"
      <3>1. \A k \in Member : pslot[c][k] = None
        BY <2>1, <2>2, <2>5 DEF PartyAgrees
      <3>2. e # None
        BY <1>1 DEF PartyTypes
      <3> QED
        BY <2>3, <3>1, <3>2
    <2> QED
      BY <2>1, <2>2, <2>4, <2>5 DEF PMode
  <1> HIDE DEF e
  <1>3. Created(Field, b, "P_vs_P", "INIT", F)
    <2>1. "P_vs_P" \in BattleType /\ "INIT" \in BattleMode \ {"NONE"} /\ "INIT" \notin Watchers /\ "P_vs_P" # "WATCH"
      BY DEF BattleType, BattleMode, Watchers
    <2> HIDE DEF F
    <2> QED
      BY <1>1, <2>1, CreateKeeps DEF F
  <1> HIDE DEF F
  <1>4. /\ F \in Fields /\ FieldAgrees(F) /\ F.cmode[c] \in Away /\ F.cmode[e] = "NONE"
        /\ F.bat[b].mode # "NONE" /\ F.bat[b].type # "WATCH" /\ \A j \in Seat : F.bat[b].seat[j] = None
    BY <1>1, <1>3 DEF Created, Fresh, Fields, Away
  <1>5. /\ "INIT" \in CharMode \ Away /\ 0 \in {0, 1} /\ 1 \in {0, 1}
        /\ \A j \in Side(0) : F.bat[b].seat[j] = None
        /\ \A j \in Side(1) : j \in Seat \ Side(0)
    BY <1>4, SideFacts DEF CharMode, Away
  <1>6. EnteredUpTo(F, c, b, 0, PartyMax - 1, H)
    <2> HIDE DEF H
    <2> QED
      BY <1>1, <1>4, <1>5, EnterPartyKeeps DEF H
  <1> HIDE DEF H
  <1>7. /\ H \in Fields /\ FieldAgrees(H) /\ H.cmode[e] \in Away
        /\ H.bat[b].mode # "NONE" /\ H.bat[b].type # "WATCH"
        /\ \A j \in Side(1) : H.bat[b].seat[j] = None
    BY <1>1, <1>2, <1>4, <1>5, <1>6 DEF EnteredUpTo, PartyTypes, Away
  <1>8. EnteredUpTo(H, e, b, 1, PartyMax - 1, G)
    <2> HIDE DEF G
    <2> QED
      BY <1>1, <1>5, <1>7, EnterPartyKeeps DEF G
  <1>9. G \in Fields /\ FieldAgrees(G)
    BY <1>8 DEF EnteredUpTo
  <1> HIDE DEF G
  <1> QED
    BY <1>1, <1>9, FieldStepKeeps
(* A helper gets a seat where there is one.                                *)
LEMMA HelperKeeps ==
    ASSUME NEW F \in Fields, FieldAgrees(F), on \subseteq Char, NEW c \in on, F.cmode[c] \in Away,
           NEW b \in Battle, CanEnter(F, b, 0), F.bat[b].type = "WATCH" => Shows(F, b)
    PROVE  Enter(F, c, b, 0, "RESCUE") \in Fields /\ FieldAgrees(Enter(F, c, b, 0, "RESCUE"))
  <1>1. F.bat[b].mode # "NONE" /\ \E i \in Side(0) : F.bat[b].seat[i] = None
    BY DEF CanEnter
  <1>2. PICK i \in Side(0) : F.bat[b].seat[i] = None
    BY <1>1
  <1>3. "RESCUE" \in CharMode \ Away /\ 0 \in {0, 1}
    BY DEF CharMode, Away
  <1> QED
    BY <1>1, <1>2, <1>3, EnterKeeps DEF EntersWell

LEMMA RescueKeeps ==
    ASSUME PartyInv, BattleInv, NEW c \in Char, NEW t \in Char, Rescue(c, t)
    PROVE  BattleInv'
  <1> DEFINE b == cindex[t]
             G == Enter(Field, c, b, 0, "RESCUE")
  <1>1. /\ Field \in Fields /\ FieldAgrees(Field) /\ on \subseteq Char /\ c \in on
        /\ Field.cmode[c] \in Away /\ b \in Battle /\ CanEnter(Field, b, 0) /\ Field.bat[b].type # "WATCH"
        /\ FieldBecomes(G) /\ UNCHANGED on
    BY OnIsChar DEF Rescue, BattleInv, Field, Fields, Away, partyVars
  <1> HIDE DEF b
  <1>2. G \in Fields /\ FieldAgrees(G)
    BY <1>1, HelperKeeps
  <1> HIDE DEF G
  <1> QED
    BY <1>1, <1>2, FieldStepKeeps

(* A battle somebody is in is in use and, if it is one of watchers, shown. *)
LEMMA InBattle ==
    ASSUME NEW F \in Fields, FieldAgrees(F), on \subseteq Char, NEW t \in on, F.cmode[t] \notin Away
    PROVE  /\ F.cindex[t] \in Battle /\ F.bat[F.cindex[t]].mode # "NONE"
           /\ F.bat[F.cindex[t]].type = "WATCH" => Shows(F, F.cindex[t])
           /\ \E i \in Seat : F.bat[F.cindex[t]].seat[i] = t
  <1>1. PlayerAgrees(F, t) /\ F.cindex[t] \in Battle \union {None}
    BY DEF FieldAgrees, PlayersAgree, Fields
  <1>2. F.cindex[t] \in Battle
    BY <1>1 DEF PlayerAgrees, HasSeat
  <1>3. PICK i \in Seat : F.bat[F.cindex[t]].seat[i] = t
    BY <1>1 DEF PlayerAgrees, HasSeat
  <1>4. t # None
    OBVIOUS
  <1>5. F.bat[F.cindex[t]].mode # "NONE"
    <2> SUFFICES ASSUME F.bat[F.cindex[t]].mode = "NONE" PROVE FALSE
      OBVIOUS
    <2>1. F.bat[F.cindex[t]] = Unused
      BY <1>2 DEF FieldAgrees, KindsAgree, KindAgrees
    <2> QED
      BY <1>3, <1>4, <2>1 DEF Unused
  <1> QED
    BY <1>2, <1>3, <1>4, <1>5 DEF FieldAgrees, Shown

LEMMA WatchKeeps ==
    ASSUME PartyInv, BattleInv, NEW c \in Char, NEW t \in Char, NEW b \in Battle, Watch(c, t, b)
    PROVE  BattleInv'
  <1> DEFINE top == cindex[t]
             F == Create(Field, b, "WATCH", "WATCHBC")
             H == Link(F, top, b)
             G == EnterParty(H, c, b, 0, "WATCHINIT")
  <1>1. /\ Field \in Fields /\ FieldAgrees(Field) /\ PartyTypes /\ on \subseteq Char /\ c \in on /\ t \in on
        /\ Field.bat[b].mode = "NONE" /\ Field.cmode[c] = "NONE" /\ Field.cmode[t] \notin Away
        /\ top = Field.cindex[t] /\ FieldBecomes(G) /\ UNCHANGED on
    BY OnIsChar DEF Watch, BattleInv, PartyInv, Unwanted, Field, Away, partyVars
  <1>2. /\ top \in Battle /\ Field.bat[top].mode # "NONE" /\ \E i \in Seat : Field.bat[top].seat[i] # None
        /\ Field.bat[top].type = "WATCH" => Shows(Field, top)
    BY <1>1, InBattle
  <1> HIDE DEF top
  <1>3. Created(Field, b, "WATCH", "WATCHBC", F)
    <2>1. "WATCH" \in BattleType /\ "WATCHBC" \in BattleMode \ {"NONE"} /\ "WATCHBC" \in Watchers
      BY DEF BattleType, BattleMode, Watchers
    <2> HIDE DEF F
    <2> QED
      BY <1>1, <2>1, CreateKeeps DEF F
  <1> HIDE DEF F
  <1>4. /\ F \in Fields /\ FieldAgrees(F) /\ F.cmode[c] \in Away
        /\ F.bat[b].mode # "NONE" /\ F.bat[b].type = "WATCH" /\ \A j \in Seat : F.bat[b].seat[j] = None
        /\ F.bat[b].next = None /\ F.bat[b].before = None
        /\ b # top /\ F.bat[top] = Field.bat[top]
        /\ \E i \in Seat : F.bat[top].seat[i] # None
    BY <1>1, <1>2, <1>3 DEF Created, Fresh, Fields, Away
  <1>5. /\ F.bat[top].mode # "NONE"
        /\ F.bat[top].type = "WATCH" => Shows(F, top)
    BY <1>2, <1>4 DEF FieldAgrees, Shown
  <1>6. /\ H \in Fields /\ FieldAgrees(H) /\ Shows(H, b) /\ H.bat[b].mode # "NONE" /\ H.bat[b].type = "WATCH"
        /\ \A j \in Side(0) : H.bat[b].seat[j] = None
        /\ H.cmode[c] \in Away
    <2>1. \A j \in Side(0) : F.bat[b].seat[j] = None
      BY <1>4, SideFacts
    <2> QED
      BY <1>2, <1>4, <1>5, <2>1, LinkKeeps
  <1> HIDE DEF H
  <1>7. "WATCHINIT" \in CharMode \ Away /\ 0 \in {0, 1}
    BY DEF CharMode, Away
  <1>8. EnteredUpTo(H, c, b, 0, PartyMax - 1, G)
    <2> HIDE DEF G
    <2> QED
      BY <1>1, <1>6, <1>7, EnterPartyKeeps DEF G
  <1>9. G \in Fields /\ FieldAgrees(G)
    BY <1>8 DEF EnteredUpTo
  <1> HIDE DEF G
  <1> QED
    BY <1>1, <1>9, FieldStepKeeps

-----------------------------------------------------------------------------
(* From the client.                                                        *)
LEMMA CommandKeeps ==
    ASSUME PartyInv, BattleInv, NEW c \in Char, Command(c) PROVE BattleInv'
  <1> DEFINE G == ModeOf(Field, {c}, "C_OK")
  <1>1. /\ Field \in Fields /\ FieldAgrees(Field) /\ Field.cmode[c] \notin Away /\ UNCHANGED on
    <2>1. PlayerAgrees(Field, c) /\ Field.cindex[c] # None
      BY DEF Command, BattleInv, FieldAgrees, PlayersAgree, Field
    <2> QED
      BY <2>1 DEF Command, BattleInv, PlayerAgrees, partyVars
  <1>2. "C_OK" \in CharMode \ Away
    BY DEF CharMode, Away
  <1>3. G \in Fields /\ FieldAgrees(G)
    BY <1>1, <1>2, CharModeKeeps
  <1>4. FieldBecomes(G)
    BY <1>1 DEF FieldBecomes, ModeOf, Field, Command, Fields
  <1> HIDE DEF G
  <1> QED
    BY <1>1, <1>3, <1>4, FieldStepKeeps

LEMMA WatchStopKeeps ==
    ASSUME PartyInv, BattleInv, NEW c \in Char, WatchStop(c) PROVE PartyInv' /\ BattleInv'
  <1> DEFINE b == cindex[c]
             D == {c}
             G == Exit(Field, D, b)
  <1>1. /\ Field \in Fields /\ FieldAgrees(Field) /\ on \subseteq Char /\ b \in Battle /\ D \in SUBSET Char
        /\ FieldBecomes(G) /\ UNCHANGED on /\ c \in on /\ PartyBecomes(Discharge(PartyNow, c))
    BY OnIsChar DEF WatchStop, BattleInv, Field, Fields
  <1> HIDE DEF b, D
  <1>2. G \in Fields /\ FieldAgrees(G)
    <2> HIDE DEF G
    <2> QED
      BY <1>1, ExitIs, ExitKeeps DEF Exited, G
  <1> HIDE DEF G
  <1>3. BattleInv'
    BY <1>1, <1>2, FieldStepKeeps
  <1>4. PartyInv'
    BY <1>1, NowTyped, DischargeKeeps, BecomesKeeps DEF PartyInv
  <1> QED
    BY <1>3, <1>4
LEMMA EncountOutKeeps ==
    ASSUME PartyInv, BattleInv, NEW c \in Char, EncountOut(c) PROVE BattleInv'
  <1> DEFINE F == Out(c)
             l == pslot[c][0]
             G == Enter(F, c, cindex[l], 0, "RESCUE")
  <1>1. /\ Field \in Fields /\ FieldAgrees(Field) /\ on \subseteq Char /\ PartyTypes
        /\ c \in on /\ cmode[c] = "FINAL" /\ UNCHANGED on /\ PartyAgrees
    BY OnIsChar, AgreesIsAgrees DEF EncountOut, BattleInv, PartyInv, partyVars
  <1>2. cindex[c] = None
    BY <1>1 DEF FieldAgrees, PlayersAgree, PlayerAgrees, Field, Away
  <1>3. /\ F \in Fields /\ F.bat = bat /\ F.cindex = cindex
        /\ \A x \in Char : F.cmode[x] = IF x = c THEN "NONE" ELSE cmode[x]
    <2> DEFINE M == [cmode EXCEPT ![c] = "NONE"]
               I == [cindex EXCEPT ![c] = None]
               W == watch \ {c}
    <2>1. F = [Field EXCEPT !.cmode = M, !.cindex = I, !.watch = W]
      BY DEF Out
    <2>2. M \in [Char -> CharMode] /\ I = cindex /\ W \in SUBSET on
          /\ \A x \in Char : M[x] = IF x = c THEN "NONE" ELSE cmode[x]
      BY <1>1, <1>2 DEF Fields, Field, CharMode
    <2> HIDE DEF M, I, W, F, BatRec
    <2> QED
      BY <1>1, <2>1, <2>2 DEF Fields, Field
  <1> HIDE DEF F
  <1>4. FieldAgrees(F)
    <2>1. SameSeats(Field, F) /\ KindsAgree(F)
      BY <1>1, <1>3 DEF SameSeats, SameLinks, FieldAgrees, KindsAgree, Field
    <2>2. \A x \in Char : /\ F.cmode[x] \in Away <=> Field.cmode[x] \in Away
                          /\ Field.cmode[x] = "NONE" => F.cmode[x] = "NONE"
      BY <1>1, <1>3 DEF Field, Away
    <2>3. F.cindex = Field.cindex
      BY <1>3 DEF Field
    <2> QED
      BY <1>1, <1>3, <2>1, <2>2, <2>3, ModesKeep DEF SameSeats
  <1>5. CASE FieldBecomes(F)
    BY <1>1, <1>3, <1>4, <1>5, FieldStepKeeps
  <1>6. CASE /\ pmode[c] = "CLIENT" /\ cmode[l] \notin {"NONE", "FINAL"}
             /\ CanEnter(Field, cindex[l], 0) /\ FieldBecomes(G)
    <2>1. l \in on
      BY <1>1, <1>6 DEF PartyAgrees, MemberAgrees
    <2> HIDE DEF l
    <2>2. Field.cindex[l] \in Battle /\ (Field.bat[cindex[l]].type = "WATCH" => Shows(Field, cindex[l]))
      <3>1. Field.cmode[l] \notin Away /\ Field.cindex[l] = cindex[l]
        BY <1>6 DEF Field, Away
      <3> QED
        BY <1>1, <2>1, <3>1, InBattle
    <2>3. cindex[l] \in Battle /\ CanEnter(F, cindex[l], 0) /\ F.cmode[c] \in Away
      BY <1>1, <1>3, <1>6, <2>2 DEF CanEnter, Field, Away
    <2>4. F.bat[cindex[l]].type = "WATCH" => Shows(F, cindex[l])
      <3>1. SameLinks(Field, F)
        BY <1>3 DEF SameLinks, Field
      <3> QED
        BY <1>1, <1>3, <2>2, <2>3, <3>1, SameLinksKeep DEF SameLinks, FieldAgrees
    <2>5. G \in Fields /\ FieldAgrees(G)
      BY <1>1, <1>3, <1>4, <2>3, <2>4, HelperKeeps
    <2> HIDE DEF G
    <2> QED
      BY <1>1, <1>6, <2>5, FieldStepKeeps
  <1> QED
    BY <1>5, <1>6 DEF EncountOut, F

-----------------------------------------------------------------------------
(* BATTLE_Loop.                                                            *)
LEMMA BeginKeeps == ASSUME PartyInv, BattleInv, NEW b \in Battle, Begin(b) PROVE BattleInv'
  <1> DEFINE B == [bat[b] EXCEPT !.mode = "BATTLE"]
             F == With(Field, b, B)
             G == PreCommand(F, b)
  <1>1. /\ Field \in Fields /\ FieldAgrees(Field) /\ on \subseteq Char /\ UNCHANGED on
        /\ Field.bat[b].mode = "INIT" /\ Field.bat[b] = bat[b] /\ FieldBecomes(G)
    BY OnIsChar DEF Begin, BattleInv, Field, partyVars
  <1>2. /\ Field.bat[b].type # "WATCH" /\ "BATTLE" \in BattleMode \ {"NONE"} /\ "BATTLE" \notin Watchers
    BY <1>1 DEF FieldAgrees, KindsAgree, KindAgrees, BattleMode, Watchers
  <1>3. /\ B \in BatRec /\ B.mode = "BATTLE" /\ B.type = Field.bat[b].type /\ B.seat = Field.bat[b].seat
        /\ B.next = Field.bat[b].next /\ B.before = Field.bat[b].before
    <2>1. bat[b] \in BatRec
      BY <1>1 DEF Fields, Field
    <2> QED
      BY <1>1, <2>1 DEF BatRec, BattleMode
  <1> HIDE DEF B
  <1>4. F \in Fields /\ FieldAgrees(F)
    BY <1>1, <1>2, <1>3, BattleModeKeeps
  <1> HIDE DEF F
  <1>5. G \in Fields /\ FieldAgrees(G)
    BY <1>1, <1>4, PreCommandKeeps
  <1> HIDE DEF G
  <1> QED
    BY <1>1, <1>5, FieldStepKeeps

(* BATTLE_CommandWait                                                      *)
LEMMA PolledKeeps ==
    ASSUME Field \in Fields, FieldAgrees(Field), on \subseteq Char, NEW b \in Battle, bat[b].mode = "BATTLE",
           NEW late \in BOOLEAN, NEW over \in BOOLEAN
    PROVE  LET P == Polled(b, late, over)
           IN  P \in Fields /\ FieldAgrees(P) /\ SameLinks(Field, P)
  <1> DEFINE D == Strays(b) \union PutOut(b, late, over)
             F == Exit(Field, D, b)
             C == Chain(Field, b)
             P == Polled(b, late, over)
             Bat == [d \in Battle |->
                       CASE d = b -> [F.bat[d] EXCEPT !.hurry = F.bat[d].hurry \/ Given(b)]
                         [] d \in C \ {b} /\ F.bat[d].mode = "WATCHBC" -> [F.bat[d] EXCEPT !.mode = "WATCHPRE"]
                         [] OTHER -> F.bat[d]]
  <1>1. D \in SUBSET Char
    BY DEF Strays, PutOut, Waiting, Seated
  <1>2. P = [F EXCEPT !.bat = Bat]
    BY Zenon DEF Polled
  <1> HIDE DEF D, C, P
  <1>3. F \in Fields /\ FieldAgrees(F) /\ SameLinks(Field, F)
    <2> HIDE DEF F
    <2> QED
      BY <1>1, ExitIs, ExitKeeps DEF Exited, F
  <1> HIDE DEF F
  <1>4. \A d \in Battle :
           /\ F.bat[d] \in BatRec
           /\ [F.bat[d] EXCEPT !.hurry = F.bat[d].hurry \/ Given(b)] \in BatRec
           /\ [F.bat[d] EXCEPT !.mode = "WATCHPRE"] \in BatRec
    <2>1. \A d \in Battle : F.bat[d] \in BatRec
      BY <1>3 DEF Fields
    <2> TAKE d \in Battle
    <2> DEFINE B == F.bat[d]
               hurry == B.hurry \/ Given(b)
    <2>2. B \in BatRec /\ hurry \in BOOLEAN
      BY <2>1
    <2> HIDE DEF B, hurry
    <2>3. [B EXCEPT !.hurry = hurry] \in BatRec
      BY <2>2 DEF BatRec
    <2>4. [B EXCEPT !.mode = "WATCHPRE"] \in BatRec
      BY <2>2 DEF BatRec, BattleMode
    <2> QED
      BY <2>2, <2>3, <2>4 DEF B, hurry
  <1>5. \A d \in Battle :
           \/ Bat[d] = F.bat[d]
           \/ d = b /\ Bat[d] = [F.bat[d] EXCEPT !.hurry = F.bat[d].hurry \/ Given(b)]
           \/ d # b /\ F.bat[d].mode = "WATCHBC" /\ Bat[d] = [F.bat[d] EXCEPT !.mode = "WATCHPRE"]
    OBVIOUS
  <1> HIDE DEF Bat
  <1>6. \A d \in Battle : Bat[d] \in BatRec
    <2> HIDE DEF BatRec
    <2> QED
      BY <1>4, <1>5
  <1>7. /\ P \in Fields /\ P.bat = Bat /\ P.cmode = F.cmode /\ P.cindex = F.cindex
    <2> HIDE DEF BatRec
    <2>1. Bat \in [Battle -> BatRec]
      BY <1>6 DEF Bat
    <2> QED
      BY <1>2, <1>3, <2>1 DEF Fields
  <1>8. \A d \in Battle :
           /\ Bat[d].type = F.bat[d].type /\ Bat[d].seat = F.bat[d].seat
           /\ Bat[d].next = F.bat[d].next /\ Bat[d].before = F.bat[d].before
           /\ \/ Bat[d].mode = F.bat[d].mode
              \/ F.bat[d].mode = "WATCHBC" /\ Bat[d].mode = "WATCHPRE"
           /\ F.bat[d].mode = "NONE" => d = b \/ Bat[d] = F.bat[d]
    <2> TAKE d \in Battle
    <2>1. F.bat[d] \in BatRec
      BY <1>4
    <2>2. CASE Bat[d] = F.bat[d]
      BY <2>2
    <2>3. CASE d = b /\ Bat[d] = [F.bat[d] EXCEPT !.hurry = F.bat[d].hurry \/ Given(b)]
      <3> DEFINE h == F.bat[d].hurry \/ Given(b)
      <3>1. Bat[d] = [F.bat[d] EXCEPT !.hurry = h]
        BY <2>3
      <3> HIDE DEF h
      <3> QED
        BY <2>1, <2>3, <3>1 DEF BatRec
    <2>4. CASE d # b /\ F.bat[d].mode = "WATCHBC" /\ Bat[d] = [F.bat[d] EXCEPT !.mode = "WATCHPRE"]
      BY <2>1, <2>4 DEF BatRec
    <2> QED
      BY <1>5, <2>2, <2>3, <2>4
  <1>9. SameSeats(F, P)
    BY <1>7, <1>8 DEF SameSeats, SameLinks
  <1>10. KindsAgree(P)
    <2> SUFFICES ASSUME NEW d \in Battle PROVE KindAgrees(P.bat[d])
      BY DEF KindsAgree
    <2>1. KindAgrees(F.bat[d])
      BY <1>3 DEF FieldAgrees, KindsAgree
    <2>2. F.bat[b].mode # "NONE"
      BY <1>3 DEF SameLinks, Field
    <2> QED
      BY <1>7, <1>8, <2>1, <2>2 DEF KindAgrees, Watchers
  <1>11. FieldAgrees(P)
    BY <1>3, <1>7, <1>9, <1>10, SamePlayersKeep
  <1>12. SameLinks(Field, P)
    BY <1>3, <1>9 DEF SameSeats, SameLinks
  <1> QED
    BY <1>7, <1>11, <1>12 DEF P
(* Those who are put out of a battle are put out of their parties.         *)
LEMMA PutOutOfParties ==
    ASSUME PartyInv, Field \in Fields, NEW b \in Battle, NEW D \in SUBSET on,
           PartyBecomes(DischargeAll(PartyNow, Field, D, b)), UNCHANGED on
    PROVE  PartyInv'
  <1>1. PartyNow \in Parties /\ Agrees(PartyNow) /\ on \subseteq Char
    BY NowTyped DEF PartyInv
  <1> DEFINE Q == DischargeAll(PartyNow, Field, D, b)
  <1>2. Q \in Parties /\ Agrees(Q)
    BY <1>1, DischargeAllKeeps
  <1> HIDE DEF Q
  <1>3. PartyBecomes(Q)
    BY DEF Q
  <1> QED
    BY <1>1, <1>2, <1>3, BecomesKeeps

LEMMA PutOutIn == ASSUME NEW b \in Battle, NEW late, NEW over PROVE PutOut(b, late, over) \in SUBSET on
  BY DEF PutOut, Waiting, Seated

LEMMA PollKeeps ==
    ASSUME PartyInv, BattleInv, NEW b \in Battle, NEW late \in BOOLEAN, Poll(b, late)
    PROVE  PartyInv' /\ BattleInv'
  <1> DEFINE P == Polled(b, late, FALSE)
  <1>1. /\ Field \in Fields /\ FieldAgrees(Field) /\ on \subseteq Char /\ UNCHANGED on
        /\ bat[b].mode = "BATTLE" /\ FieldBecomes(P)
        /\ PartyBecomes(DischargeAll(PartyNow, Field, PutOut(b, late, FALSE), b))
    BY OnIsChar DEF Poll, BattleInv, Fighting
  <1>2. P \in Fields /\ FieldAgrees(P)
    <2> HIDE DEF P
    <2> QED
      BY <1>1, PolledKeeps DEF P
  <1> HIDE DEF P
  <1>3. BattleInv'
    BY <1>1, <1>2, FieldStepKeeps
  <1>4. PartyInv'
    BY <1>1, PutOutIn, PutOutOfParties
  <1> QED
    BY <1>3, <1>4

(* BATTLE_Battling: some leave, some fall or rise.                         *)
LEMMA FoughtKeeps ==
    ASSUME NEW P \in Fields, FieldAgrees(P), on \subseteq Char, NEW b \in Battle,
           NEW gone \in SUBSET on, NEW turned \in SUBSET on
    PROVE  LET F == Fought(P, b, gone, turned)
           IN  F \in Fields /\ FieldAgrees(F) /\ SameLinks(P, F)
  <1> DEFINE G == Exit(P, gone, b)
             d == (G.down \ turned) \union (turned \ G.down)
             F == Fought(P, b, gone, turned)
  <1>1. G \in Fields /\ FieldAgrees(G) /\ SameLinks(P, G)
    <2>1. gone \in SUBSET Char
      OBVIOUS
    <2> HIDE DEF G
    <2> QED
      BY <2>1, ExitIs, ExitKeeps DEF Exited, G
  <1>2. F = [G EXCEPT !.down = d]
    BY DEF Fought
  <1> HIDE DEF G, F
  <1>3. d \in SUBSET on
    BY <1>1 DEF Fields
  <1> HIDE DEF d
  <1>4. F \in Fields /\ F.bat = G.bat /\ F.cmode = G.cmode /\ F.cindex = G.cindex
    <2> HIDE DEF BatRec
    <2> QED
      BY <1>1, <1>2, <1>3 DEF Fields
  <1>5. SameSeats(G, F) /\ KindsAgree(F)
    BY <1>1, <1>4 DEF SameSeats, SameLinks, FieldAgrees, KindsAgree
  <1>6. FieldAgrees(F)
    BY <1>1, <1>4, <1>5, SamePlayersKeep
  <1>7. SameLinks(P, F)
    BY <1>1, <1>5 DEF SameSeats, SameLinks
  <1> QED
    BY <1>4, <1>6, <1>7 DEF F

LEMMA TurnKeeps ==
    ASSUME PartyInv, BattleInv, NEW b \in Battle,
           NEW late \in BOOLEAN, NEW over \in BOOLEAN, NEW end \in BOOLEAN, Turn(b, late, over, end)
    PROVE  PartyInv' /\ BattleInv'
  <1> DEFINE P == Polled(b, late, over)
  <1>1. /\ Field \in Fields /\ FieldAgrees(Field) /\ on \subseteq Char /\ UNCHANGED on
        /\ bat[b].mode = "BATTLE" /\ Field.bat[b] = bat[b]
    BY OnIsChar DEF Turn, BattleInv, Fighting, Field
  <1>2. P \in Fields /\ FieldAgrees(P) /\ SameLinks(Field, P)
    <2> HIDE DEF P
    <2> QED
      BY <1>1, PolledKeeps DEF P
  <1>3. PICK gone, turned \in SUBSET Fighters(P, b) :
           LET F == Fought(P, b, gone, turned)
           IN  /\ PartyBecomes(DischargeAll(PartyNow, Field, PutOut(b, late, over) \union gone, b))
               /\ \E S \in ToClear(F, b) :
                     LET G == PreCommand(Cleared(F, b, S), b)
                     IN  FieldBecomes(With(G, b, [G.bat[b] EXCEPT !.hurry = FALSE,
                                                                  !.mode = IF end THEN "FINISH" ELSE "BATTLE"]))
    BY DEF Turn
  <1> HIDE DEF P
  <1>4. gone \in SUBSET on /\ turned \in SUBSET on
    BY DEF Fighters, Seated
  <1>5. PartyInv'
    <2>1. PutOut(b, late, over) \union gone \in SUBSET on
      BY <1>4, PutOutIn
    <2> QED
      BY <1>1, <1>3, <2>1, PutOutOfParties
  <1> DEFINE F == Fought(P, b, gone, turned)
  <1>6. F \in Fields /\ FieldAgrees(F) /\ SameLinks(P, F)
    <2> HIDE DEF F
    <2> QED
      BY <1>1, <1>2, <1>4, FoughtKeeps DEF F
  <1>7. PICK S \in ToClear(F, b) :
           LET G == PreCommand(Cleared(F, b, S), b)
           IN  FieldBecomes(With(G, b, [G.bat[b] EXCEPT !.hurry = FALSE,
                                                        !.mode = IF end THEN "FINISH" ELSE "BATTLE"]))
    BY <1>3
  <1> HIDE DEF F
  <1> DEFINE D == UNION {Fallen(F, b, s) : s \in S}
             E == Exit(F, D, b)
             G == PreCommand(E, b)
             m == IF end THEN "FINISH" ELSE "BATTLE"
             B == [G.bat[b] EXCEPT !.hurry = FALSE, !.mode = m]
             H == With(G, b, B)
  <1>8. D \in SUBSET Char
    BY <1>1 DEF Fallen, Seated
  <1>9. E = Cleared(F, b, S)
    BY DEF Cleared
  <1> HIDE DEF D
  <1>10. E \in Fields /\ FieldAgrees(E) /\ SameLinks(F, E)
    <2> HIDE DEF E
    <2> QED
      BY <1>1, <1>6, <1>8, ExitIs, ExitKeeps DEF Exited, E
  <1>11. FieldBecomes(H)
    BY <1>7, <1>9, Zenon
  <1> HIDE DEF E
  <1>12. G \in Fields /\ FieldAgrees(G) /\ SameSeats(E, G)
    <2> HIDE DEF G
    <2> QED
      BY <1>1, <1>10, PreCommandKeeps DEF G
  <1> HIDE DEF G
  <1>13. G.bat[b].mode # "NONE" /\ G.bat[b].type # "WATCH"
    <2>1. Field.bat[b].type # "WATCH" /\ Field.bat[b].mode # "NONE"
      BY <1>1 DEF FieldAgrees, KindsAgree, KindAgrees, Watchers
    <2> QED
      BY <1>2, <1>6, <1>10, <1>12, <2>1 DEF SameSeats, SameLinks
  <1>14. m \in BattleMode \ {"NONE"} /\ m \notin Watchers
    BY DEF BattleMode, Watchers
  <1> HIDE DEF m
  <1>15. /\ B \in BatRec /\ B.mode = m /\ B.type = G.bat[b].type /\ B.seat = G.bat[b].seat
         /\ B.next = G.bat[b].next /\ B.before = G.bat[b].before
    <2>1. G.bat[b] \in BatRec
      BY <1>12 DEF Fields
    <2> QED
      BY <1>14, <2>1 DEF BatRec
  <1> HIDE DEF B
  <1>16. H \in Fields /\ FieldAgrees(H)
    <2> HIDE DEF H
    <2> QED
      BY <1>12, <1>13, <1>14, <1>15, BattleModeKeeps DEF H
  <1> HIDE DEF H
  <1>17. BattleInv'
    BY <1>1, <1>11, <1>16, FieldStepKeeps
  <1> QED
    BY <1>5, <1>17
LEMMA WatchPreKeeps == ASSUME PartyInv, BattleInv, NEW b \in Battle, WatchPre(b) PROVE BattleInv'
  <1> DEFINE B == [bat[b] EXCEPT !.mode = "WATCHWAIT"]
             F == With(Field, b, B)
             D == {c \in Seated(F, b, Side(0)) : cmode[c] # "WATCHINIT"}
             G == ModeOf(F, D, "C_WAIT")
  <1>1. /\ Field \in Fields /\ FieldAgrees(Field) /\ on \subseteq Char /\ UNCHANGED on
        /\ Field.bat[b].mode = "WATCHPRE" /\ Field.bat[b] = bat[b] /\ FieldBecomes(G)
    BY OnIsChar DEF WatchPre, BattleInv, Field, partyVars
  <1>2. /\ Field.bat[b].type = "WATCH" /\ "WATCHWAIT" \in BattleMode \ {"NONE"} /\ "WATCHWAIT" \in Watchers
    BY <1>1 DEF FieldAgrees, KindsAgree, KindAgrees, BattleMode, Watchers
  <1>3. /\ B \in BatRec /\ B.mode = "WATCHWAIT" /\ B.type = Field.bat[b].type /\ B.seat = Field.bat[b].seat
        /\ B.next = Field.bat[b].next /\ B.before = Field.bat[b].before
    <2>1. bat[b] \in BatRec
      BY <1>1 DEF Fields, Field
    <2> QED
      BY <1>1, <2>1 DEF BatRec, BattleMode
  <1> HIDE DEF B
  <1>4. F \in Fields /\ FieldAgrees(F)
    BY <1>1, <1>2, <1>3, BattleModeKeeps
  <1> HIDE DEF F
  <1>5. \A c \in D : F.cmode[c] \notin Away
    BY <1>1, <1>4, SeatedIn, SideFacts
  <1> HIDE DEF D
  <1>6. "C_WAIT" \in CharMode \ Away
    BY DEF CharMode, Away
  <1>7. G \in Fields /\ FieldAgrees(G)
    BY <1>4, <1>5, <1>6, CharModeKeeps
  <1> HIDE DEF G
  <1> QED
    BY <1>1, <1>7, FieldStepKeeps

LEMMA WatchWaitKeeps ==
    ASSUME PartyInv, BattleInv, NEW b \in Battle, NEW over \in BOOLEAN, WatchWait(b, over)
    PROVE  PartyInv' /\ BattleInv'
  <1> DEFINE D == PutOut(b, FALSE, over)
             F == Exit(Field, D, b)
             B == [F.bat[b] EXCEPT !.mode = "WATCHMOVIE"]
             G == With(F, b, B)
  <1>1. /\ Field \in Fields /\ FieldAgrees(Field) /\ on \subseteq Char /\ UNCHANGED on
        /\ Field.bat[b].mode = "WATCHWAIT" /\ Field.bat[b] = bat[b] /\ FieldBecomes(G)
        /\ PartyBecomes(DischargeAll(PartyNow, Field, D, b))
    BY OnIsChar DEF WatchWait, BattleInv, Field
  <1>2. D \in SUBSET on /\ D \in SUBSET Char
    <2>1. D \in SUBSET on
      BY PutOutIn
    <2> HIDE DEF D
    <2> QED
      BY <1>1, <2>1
  <1> HIDE DEF D
  <1>3. PartyInv'
    BY <1>1, <1>2, PutOutOfParties
  <1>4. F \in Fields /\ FieldAgrees(F) /\ SameLinks(Field, F)
    <2> HIDE DEF F
    <2> QED
      BY <1>1, <1>2, ExitIs, ExitKeeps DEF Exited, F
  <1> HIDE DEF F
  <1>5. /\ F.bat[b].mode # "NONE" /\ F.bat[b].type = "WATCH"
        /\ "WATCHMOVIE" \in BattleMode \ {"NONE"} /\ "WATCHMOVIE" \in Watchers
    BY <1>1, <1>4 DEF SameLinks, FieldAgrees, KindsAgree, KindAgrees, BattleMode, Watchers
  <1>6. /\ B \in BatRec /\ B.mode = "WATCHMOVIE" /\ B.type = F.bat[b].type /\ B.seat = F.bat[b].seat
        /\ B.next = F.bat[b].next /\ B.before = F.bat[b].before
    <2>1. F.bat[b] \in BatRec
      BY <1>4 DEF Fields
    <2> QED
      BY <2>1 DEF BatRec, BattleMode
  <1> HIDE DEF B
  <1>7. G \in Fields /\ FieldAgrees(G)
    BY <1>4, <1>5, <1>6, BattleModeKeeps
  <1> HIDE DEF G
  <1>8. BattleInv'
    BY <1>1, <1>7, FieldStepKeeps
  <1> QED
    BY <1>3, <1>8

(* BATTLE_Finish                                                           *)
LEMMA FinishKeeps == ASSUME PartyInv, BattleInv, NEW b \in Battle, Finish(b) PROVE BattleInv'
  <1> DEFINE D == Seated(Field, b, Seat)
             F == Exit(Field, D, b)
             G == WatchersOut(F, b)
             n == F.bat[b].next
  <1>1. /\ Field \in Fields /\ FieldAgrees(Field) /\ on \subseteq Char /\ UNCHANGED on
        /\ FieldBecomes(IF bat[b].type = "WATCH" THEN Delete(F, b)
                        ELSE IF n = None THEN Delete(F, b) ELSE Delete(Delete(G, n), b))
    BY OnIsChar DEF Finish, BattleInv, partyVars
  <1>2. D \in SUBSET Char /\ \A i \in Seat : Field.bat[b].seat[i] # None => Field.bat[b].seat[i] \in D
    <2>1. \A i \in Seat : Field.bat[b].seat[i] # None => Field.bat[b].seat[i] \in on
      BY <1>1 DEF FieldAgrees, SeatsAgree, SeatAgrees
    <2> QED
      BY <1>1, <2>1 DEF Seated
  <1> HIDE DEF D
  <1>3. F \in Fields /\ FieldAgrees(F) /\ SameLinks(Field, F) /\ Empty(F, b)
    <2>1. Exited(Field, D, b, F) /\ FieldAgrees(F) /\ SameLinks(Field, F)
      <3> HIDE DEF F
      <3> QED
        BY <1>1, <1>2, ExitIs, ExitKeeps DEF F
    <2> HIDE DEF F
    <2>2. F.bat[b].seat = Emptied(Field.bat[b].seat, D)
      BY <1>1, <2>1 DEF Exited, Fields, BatRec
    <2>3. Empty(F, b)
      BY <1>2, <2>2 DEF Empty, Emptied
    <2> QED
      BY <2>1, <2>3 DEF Exited
  <1> HIDE DEF F
  <1>4. F.bat[b].type = bat[b].type
    BY <1>3 DEF SameLinks, Field
  <1>5. CASE bat[b].type = "WATCH" \/ n = None
    <2>1. F.bat[b].type = "WATCH" \/ \A d \in Chain(F, b) : Empty(F, d)
      <3> SUFFICES ASSUME n = None PROVE \A d \in Chain(F, b) : Empty(F, d)
        BY <1>4, <1>5
      <3> DEFINE S == {}
      <3>1. Onward(F, S \union {b}) \subseteq S /\ S \in SUBSET Battle
        BY DEF Onward
      <3>2. Chain(F, b) \subseteq S
        <4> HIDE DEF S
        <4> QED
          BY <3>1, ChainLeast
      <3> QED
        BY <3>2
    <2> DEFINE H == Delete(F, b)
    <2>2. H \in Fields /\ FieldAgrees(H)
      BY <1>3, <2>1, DeleteKeeps
    <2>3. FieldBecomes(H)
      BY <1>1, <1>5, Zenon
    <2> HIDE DEF H
    <2> QED
      BY <1>1, <2>2, <2>3, FieldStepKeeps
  <1>6. CASE bat[b].type # "WATCH" /\ n # None
    <2>1. /\ G \in Fields /\ FieldAgrees(G) /\ SameLinks(F, G)
          /\ \A d \in Chain(F, b) : Empty(G, d)
          /\ \A d \in Battle : Empty(F, d) => Empty(G, d)
      BY <1>1, <1>3, WatchersOutKeeps
    <2> HIDE DEF G
    <2>2. /\ n \in Chain(F, b) /\ n \in Battle /\ n # b
          /\ F.bat[n].type = "WATCH" /\ b \notin Chain(F, b)
      <3>1. n \in Chain(F, b) /\ b \notin Chain(F, b)
        BY <1>3, <1>6, ChainClosed DEF FieldAgrees, Linked, LinkAgrees
      <3> QED
        BY <1>3, <3>1, ChainWatches
    <2> HIDE DEF n
    <2>3. Empty(G, n) /\ G.bat[n].type = "WATCH" /\ Empty(G, b) /\ Chain(G, b) = Chain(F, b)
      BY <1>3, <2>1, <2>2, SameLinksKeep DEF SameLinks, FieldAgrees
    <2> DEFINE I == Delete(G, n)
    <2>4. /\ I \in Fields /\ FieldAgrees(I) /\ Empty(I, n)
          /\ \A d \in Battle : d # n => /\ I.bat[d].type = G.bat[d].type /\ I.bat[d].seat = G.bat[d].seat
                                        /\ Chain(I, d) \subseteq Chain(G, d)
      BY <2>1, <2>2, <2>3, DeleteKeeps
    <2> HIDE DEF I
    <2>5. Empty(I, b) /\ \A d \in Chain(I, b) : Empty(I, d)
      <3>1. Empty(I, b)
        BY <2>2, <2>3, <2>4 DEF Empty
      <3>2. ASSUME NEW d \in Chain(I, b) PROVE Empty(I, d)
        <4>1. d \in Chain(F, b) /\ d \in Battle
          BY <1>3, <2>2, <2>3, <2>4, ChainClosed
        <4>2. Empty(G, d)
          BY <2>1, <4>1
        <4>3. CASE d = n
          BY <2>4, <4>3
        <4>4. CASE d # n
          BY <2>4, <4>1, <4>2, <4>4 DEF Empty
        <4> QED
          BY <4>3, <4>4
      <3> QED
        BY <3>1, <3>2
    <2> DEFINE H == Delete(I, b)
    <2>6. H \in Fields /\ FieldAgrees(H)
      BY <2>4, <2>5, DeleteKeeps
    <2>7. FieldBecomes(H)
      BY <1>1, <1>6, Zenon DEF I
    <2> HIDE DEF H
    <2> QED
      BY <1>1, <2>6, <2>7, FieldStepKeeps
  <1> QED
    BY <1>5, <1>6

-----------------------------------------------------------------------------
(* Coming and going.                                                       *)
LEMMA BattleLoginKeeps ==
    ASSUME PartyInv, BattleInv, NEW c \in Char, PartyLogin(c), BattleLogin(c) PROVE BattleInv'
  <1>1. /\ Field \in Fields /\ FieldAgrees(Field) /\ c \notin on /\ on' = on \union {c}
    BY DEF BattleInv, PartyLogin
  <1>2. cmode[c] = "NONE" /\ cindex[c] = None
    BY <1>1 DEF FieldAgrees, PlayersAgree, PlayerAgrees, Away, Field
  <1>3. FieldBecomes(Field)
    BY <1>1, <1>2 DEF BattleLogin, FieldBecomes, Field, Fields
  <1>4. Field.down \subseteq on' /\ Field.watch \subseteq on' /\ \A x \in on : x \in on'
    BY <1>1 DEF Fields
  <1> QED
    BY <1>1, <1>3, <1>4, FieldBecomesKeeps

LEMMA BattleLogoutKeeps ==
    ASSUME PartyInv, BattleInv, NEW c \in Char, PartyLogout(c), BattleLogout(c) PROVE BattleInv'
  <1> DEFINE D == {c}
             b == cindex[c]
             F == IF b = None THEN Field ELSE Exit(Field, D, b)
             M == [F.cmode EXCEPT ![c] = "NONE"]
             I == [F.cindex EXCEPT ![c] = None]
             G == [bat |-> F.bat, cmode |-> M, cindex |-> I, down |-> F.down \ {c}, watch |-> F.watch \ {c}]
  <1>1. /\ Field \in Fields /\ FieldAgrees(Field) /\ on \subseteq Char /\ c \in on /\ on' = on \ {c}
        /\ b \in Battle \union {None} /\ D \in SUBSET Char
    BY OnIsChar DEF BattleInv, PartyLogout, Field, Fields
  <1>2. FieldBecomes(G)
    BY Zenon DEF BattleLogout, FieldBecomes
  <1> HIDE DEF b
  <1>3. F \in Fields /\ FieldAgrees(F) /\ F.cindex[c] = None
    <2>1. CASE b = None
      BY <1>1, <2>1 DEF Field, b
    <2>2. CASE b # None
      <3> DEFINE E == Exit(Field, D, b)
      <3>1. Exited(Field, D, b, E) /\ FieldAgrees(E)
        <4> HIDE DEF E, D
        <4> QED
          BY <1>1, <2>2, ExitIs, ExitKeeps DEF E
      <3>2. F = E
        BY <2>2
      <3> HIDE DEF E, F
      <3>3. E.cindex[c] = None
        <4>1. PlayerAgrees(Field, c) /\ Field.cindex[c] = b
          BY <1>1 DEF FieldAgrees, PlayersAgree, Field, b
        <4>2. \E i \in Seat : Field.bat[b].seat[i] = c
          BY <2>2, <4>1 DEF PlayerAgrees, HasSeat
        <4> QED
          BY <3>1, <4>2 DEF Exited, Leaves
      <3> QED
        BY <3>1, <3>2, <3>3 DEF Exited
    <2> QED
      BY <2>1, <2>2
  <1> HIDE DEF F
  <1>4. F.cmode[c] \in Away
    BY <1>3 DEF FieldAgrees, PlayersAgree, PlayerAgrees, HasSeat
  <1>5. /\ G \in Fields /\ G.bat = F.bat /\ G.cindex = F.cindex
        /\ \A x \in Char : G.cmode[x] = IF x = c THEN "NONE" ELSE F.cmode[x]
    <2>1. M \in [Char -> CharMode] /\ I = F.cindex
      BY <1>3 DEF Fields, CharMode
    <2>2. \A x \in Char : M[x] = IF x = c THEN "NONE" ELSE F.cmode[x]
      BY <1>3 DEF Fields
    <2> HIDE DEF M, I
    <2> QED
      BY <1>3, <2>1, <2>2 DEF Fields
  <1>6. G.down \subseteq on' /\ G.watch \subseteq on'
    BY <1>1, <1>3 DEF Fields
  <1> HIDE DEF G
  <1>7. FieldAgrees(G)
    <2>1. SameSeats(F, G) /\ KindsAgree(G)
      BY <1>3, <1>5 DEF SameSeats, SameLinks, FieldAgrees, KindsAgree
    <2>2. \A x \in Char : /\ G.cmode[x] \in Away <=> F.cmode[x] \in Away
                          /\ F.cmode[x] = "NONE" => G.cmode[x] = "NONE"
      BY <1>4, <1>5 DEF Away
    <2> QED
      BY <1>3, <1>5, <2>1, <2>2, ModesKeep DEF SameSeats
  <1>8. \A x \in on : x \notin on' => G.cmode[x] = "NONE"
    BY <1>1, <1>5
  <1> QED
    BY <1>2, <1>5, <1>6, <1>7, <1>8, FieldBecomesKeeps

-----------------------------------------------------------------------------
LEMMA BattleInitInv == PlayInit => BattleInv
  <1> SUFFICES ASSUME PlayInit PROVE BattleInv
    OBVIOUS
  <1>1. BattleStart /\ on = {}
    BY DEF PlayInit, PartyInit
  <1>2. Unused \in BatRec
    BY DEF Unused, BatRec, BattleMode, BattleType
  <1>3. Field \in Fields
    <2> HIDE DEF BatRec, Unused
    <2> QED
      BY <1>1, <1>2 DEF BattleStart, Field, Fields, CharMode
  <1>4. \A b \in Battle : Field.bat[b] = Unused
    BY <1>1 DEF BattleStart, Field
  <1>5. \A b \in Battle : /\ Field.bat[b].next = None /\ Field.bat[b].before = None
                          /\ Field.bat[b].type # "WATCH" /\ Field.bat[b].mode \notin Watchers
                          /\ \A i \in Seat : Field.bat[b].seat[i] = None
    BY <1>4 DEF Unused, Watchers
  <1>6. \A b \in Battle : Chain(Field, b) = {}
    <2> TAKE b \in Battle
    <2> SUFFICES ASSUME NEW d \in Chain(Field, b) PROVE FALSE
      OBVIOUS
    <2>1. PICK e \in Chain(Field, b) \union {b} : Field.bat[e].next = d
      BY <1>3, ChainComesFrom
    <2> QED
      BY <1>3, <1>5, <2>1, ChainClosed
  <1>7. SeatsAgree(Field) /\ Shown(Field)
    BY <1>5 DEF SeatsAgree, SeatAgrees, Shown
  <1>8. PlayersAgree(Field)
    BY <1>1 DEF BattleStart, PlayersAgree, PlayerAgrees, Field, Away
  <1>9. KindsAgree(Field)
    BY <1>4, <1>5 DEF KindsAgree, KindAgrees
  <1>10. Linked(Field)
    BY <1>5, <1>6 DEF Linked, LinkAgrees
  <1> QED
    BY <1>3, <1>7, <1>8, <1>9, <1>10 DEF BattleInv, FieldAgrees

LEMMA BattlesStay == BattleInv /\ UNCHANGED <<on, battleVars>> => BattleInv'
  <1> SUFFICES ASSUME BattleInv, UNCHANGED <<on, battleVars>> PROVE BattleInv'
    OBVIOUS
  <1>1. Field \in Fields /\ FieldAgrees(Field) /\ FieldBecomes(Field) /\ UNCHANGED on
    BY DEF BattleInv, FieldBecomes, Field, battleVars
  <1> QED
    BY <1>1, FieldStepKeeps

LEMMA PartiesStay == PartyInv /\ UNCHANGED partyVars => PartyInv'
  BY DEF partyVars, PartyInv, PartyTypes, Agrees, MemberIn, LeaderIn, FollowerIn, PartyNow

LEMMA BattleNextKeeps == PartyInv /\ BattleInv /\ BattleNext => PartyInv' /\ BattleInv'
  <1> SUFFICES ASSUME PartyInv, BattleInv, BattleNext PROVE PartyInv' /\ BattleInv'
    OBVIOUS
  <1>1. ASSUME NEW c \in Char, Command(c) PROVE PartyInv' /\ BattleInv'
    BY <1>1, CommandKeeps, PartiesStay DEF Command, partyVars
  <1>2. ASSUME NEW c \in Char, WatchStop(c) PROVE PartyInv' /\ BattleInv'
    BY <1>2, WatchStopKeeps
  <1>3. ASSUME NEW c \in Char, EncountOut(c) PROVE PartyInv' /\ BattleInv'
    BY <1>3, EncountOutKeeps, PartiesStay DEF EncountOut
  <1>4. ASSUME NEW c \in Char, NEW b \in Battle, Encounter(c, b) PROVE PartyInv' /\ BattleInv'
    BY <1>4, EncounterKeeps, PartiesStay DEF Encounter
  <1>5. ASSUME NEW c \in Char, NEW t \in Char, Rescue(c, t) PROVE PartyInv' /\ BattleInv'
    BY <1>5, RescueKeeps, PartiesStay DEF Rescue
  <1>6. ASSUME NEW c \in Char, NEW t \in Char, NEW b \in Battle, Duel(c, t, b) PROVE PartyInv' /\ BattleInv'
    BY <1>6, DuelKeeps, PartiesStay DEF Duel
  <1>7. ASSUME NEW c \in Char, NEW t \in Char, NEW b \in Battle, Watch(c, t, b) PROVE PartyInv' /\ BattleInv'
    BY <1>7, WatchKeeps, PartiesStay DEF Watch
  <1>8. ASSUME NEW b \in Battle, Begin(b) PROVE PartyInv' /\ BattleInv'
    BY <1>8, BeginKeeps, PartiesStay DEF Begin
  <1>9. ASSUME NEW b \in Battle, WatchPre(b) PROVE PartyInv' /\ BattleInv'
    BY <1>9, WatchPreKeeps, PartiesStay DEF WatchPre
  <1>10. ASSUME NEW b \in Battle, Finish(b) PROVE PartyInv' /\ BattleInv'
    BY <1>10, FinishKeeps, PartiesStay DEF Finish
  <1>11. ASSUME NEW b \in Battle, NEW over \in BOOLEAN, WatchWait(b, over) PROVE PartyInv' /\ BattleInv'
    BY <1>11, WatchWaitKeeps
  <1>12. ASSUME NEW b \in Battle, NEW late \in BOOLEAN, Poll(b, late) PROVE PartyInv' /\ BattleInv'
    BY <1>12, PollKeeps
  <1>13. ASSUME NEW b \in Battle, NEW late \in BOOLEAN, NEW over \in BOOLEAN, NEW end \in BOOLEAN,
                Turn(b, late, over, end)
         PROVE  PartyInv' /\ BattleInv'
    BY <1>13, TurnKeeps
  <1> HIDE DEF PartyInv, BattleInv
  <1> QED
    BY <1>1, <1>2, <1>3, <1>4, <1>5, <1>6, <1>7, <1>8, <1>9, <1>10, <1>11, <1>12, <1>13 DEF BattleNext

LEMMA PlayStepInv == PartyInv /\ BattleInv /\ [PlayNext]_playVars => PartyInv' /\ BattleInv'
  <1> SUFFICES ASSUME PartyInv, BattleInv, [PlayNext]_playVars PROVE PartyInv' /\ BattleInv'
    OBVIOUS
  <1>1. CASE UNCHANGED playVars
    BY <1>1, PartiesStay, BattlesStay DEF playVars, partyVars
  <1>2. CASE ComeOrGo
    <2>1. ASSUME NEW c \in Char, Logout(c) PROVE PartyInv' /\ BattleInv'
      BY <2>1, PartyLogoutKeeps, BattleLogoutKeeps DEF Logout
    <2>2. ASSUME NEW c \in Char, NEW f \in Fd, Login(c, f) PROVE PartyInv' /\ BattleInv'
      BY <2>2, PartyLoginKeeps, BattleLoginKeeps DEF Login
    <2> QED
      BY <1>2, <2>1, <2>2 DEF ComeOrGo
  <1>3. CASE Partying
    <2>1. BattleInv'
      BY <1>3, PartyingStays, BattlesStay DEF Partying
    <2>2. PartyInv'
      BY <1>3, LeavePartyKeeps, KickKeeps, JoinPartyKeeps, MakePairKeeps DEF Partying
    <2> QED
      BY <2>1, <2>2
  <1>4. CASE BattleNext /\ UNCHANGED tradeVars
    BY <1>4, BattleNextKeeps
  <1>5. CASE TradeNext /\ UNCHANGED <<partyVars, battleVars>>
    BY <1>5, PartiesStay, BattlesStay DEF partyVars
  <1> QED
    BY <1>1, <1>2, <1>3, <1>4, <1>5 DEF PlayNext

-----------------------------------------------------------------------------
(* The strengthened invariant of players who come and go, make parties and *)
(* fight: parties and battles agree, each with itself and both with who is *)
(* in the game (char_party.c, battle.c, CHAR_login, CHAR_logout).          *)
THEOREM PlayInvAlways == PlaySpec => [](PartyInv /\ BattleInv)
  <1>1. PlayInit => PartyInv /\ BattleInv
    BY PartyInitInv, BattleInitInv DEF PlayInit
  <1> QED
    BY <1>1, PlayStepInv, PTL DEF PlaySpec

(* Every index, mode, seat, link and list stays in its range, whatever the *)
(* players do; who is down or watches is in the game, and a battle not in  *)
(* use is empty and linked to none (BattleArray, the characters' work      *)
(* area, the trade lists).                                                 *)
THEOREM PlayTypesAlways == PlaySpec => []PlayTypes
  <1>1. PartyInv /\ BattleInv /\ TradeInv => PlayTypes
    <2> SUFFICES ASSUME PartyInv, BattleInv, TradeInv PROVE PlayTypes
      OBVIOUS
    <2>1. PartyTypes
      BY DEF PartyInv
    <2>2. BattleTypes
      <3>1. Field \in Fields /\ KindsAgree(Field)
        BY DEF BattleInv, FieldAgrees
      <3>2. ASSUME NEW b \in Battle
            PROVE  bat[b] \in BatRec /\ KindAgrees(bat[b])
        BY <3>1 DEF Fields, KindsAgree, Field
      <3>3. ASSUME NEW b \in Battle
            PROVE  /\ bat[b].mode \in BattleMode /\ bat[b].type \in BattleType
                   /\ bat[b].hurry \in BOOLEAN
                   /\ bat[b].seat \in [Seat -> Char \union {None}]
                   /\ {bat[b].next, bat[b].before} \subseteq Battle \union {None}
                   /\ bat[b].mode = "NONE" => bat[b] = Unused
        BY <3>2 DEF BatRec, KindAgrees
      <3>4. /\ cmode \in [Char -> CharMode]
            /\ cindex \in [Char -> Battle \union {None}]
            /\ down \subseteq on /\ watch \subseteq on
        BY <3>1 DEF Fields, Field
      <3> QED
        BY <3>3, <3>4 DEF BattleTypes
    <2>3. TradeTypes
      BY DEF TradeInv, ModesTyped, ListsTyped, TradeTypes, ListType, Sides
    <2> QED
      BY <2>1, <2>2, <2>3 DEF PlayTypes
  <1> QED
    BY <1>1, PlayInvAlways, TradeInvAlways, PTL

(* Leaders and members tell the same story through battles as well, where  *)
(* whoever is put out, or gives up watching, leaves its party, and a       *)
(* player who logs out leaves both (CHAR_DischargeParty as battle.c calls  *)
(* it).                                                                    *)
THEOREM PlayPartyAgreesAlways == PlaySpec => []PartyAgrees
  <1>1. PartyInv /\ BattleInv => PartyAgrees
    BY AgreesIsAgrees DEF PartyInv
  <1> QED
    BY <1>1, PlayInvAlways, PTL

(* BATTLE_NewEntry, BATTLE_Exit, BATTLE_Finish, BattleEncountOut and       *)
(* CHAR_logout: who is in a battle has one seat, in the battle of its      *)
(* index, and nobody else has one.                                         *)
THEOREM BattleAgreesAlways == PlaySpec => []BattleAgrees
  <1>1. PartyInv /\ BattleInv => BattleAgrees
    <2> SUFFICES ASSUME PartyInv, BattleInv PROVE BattleAgrees
      OBVIOUS
    <2>1. on \subseteq Char /\ FieldAgrees(Field) /\ Field \in Fields
      BY OnIsChar DEF BattleInv
    <2>2. ASSUME NEW b \in Battle, NEW i \in Seat
          PROVE  LET c == bat[b].seat[i]
                 IN  c # None => /\ c \in on /\ cmode[c] \notin {"NONE", "FINAL"}
                                 /\ cindex[c] = b
                                 /\ \A j \in Seat : bat[b].seat[j] = c => i = j
      <3>1. SeatAgrees(Field, b, i)
        BY <2>1 DEF FieldAgrees, SeatsAgree
      <3> QED
        BY <3>1 DEF SeatAgrees, Field, Away
    <2>3. ASSUME NEW c \in on, cmode[c] \notin {"NONE", "FINAL"}
          PROVE  cindex[c] # None /\ c \in Seated(Field, cindex[c], Seat)
      <3>1. HasSeat(Field, c)
        BY <2>1, <2>3 DEF FieldAgrees, PlayersAgree, PlayerAgrees, Field, Away
      <3> QED
        BY <3>1 DEF HasSeat, Field, Seated
    <2> QED
      BY <2>2, <2>3 DEF BattleAgrees
  <1> QED
    BY <1>1, PlayInvAlways, PTL

(* BATTLE_WatchLink, BATTLE_WatchUnLink, BATTLE_DeleteBattle and           *)
(* BATTLE_Finish: the links of the watchers' battles go both ways and in   *)
(* no circle, and nobody is left watching a battle that is over.           *)
THEOREM LinksAgreeAlways == PlaySpec => []LinksAgree
  <1>1. PartyInv /\ BattleInv => LinksAgree
    <2> SUFFICES ASSUME PartyInv, BattleInv, NEW b \in Battle
                 PROVE  /\ bat[b].next # None => /\ bat[bat[b].next].before = b
                                                 /\ bat[bat[b].next].type = "WATCH"
                                                 /\ bat[b].mode # "NONE"
                        /\ bat[b].before # None => bat[bat[b].before].next = b /\ bat[b].mode # "NONE"
                        /\ b \notin Chain(Field, b)
                        /\ (bat[b].type = "WATCH" /\ Seated(Field, b, Seat) # {}) => bat[b].before # None
      BY DEF LinksAgree
    <2>1. on \subseteq Char /\ FieldAgrees(Field) /\ Field \in Fields /\ Field.bat = bat
      BY OnIsChar DEF BattleInv, Field
    <2>2. LinkAgrees(Field, b) /\ Linked(Field)
      BY <2>1 DEF FieldAgrees, Linked
    <2>3. ASSUME bat[b].type = "WATCH", NEW c \in Seated(Field, b, Seat) PROVE bat[b].before # None
      <3>1. PICK i \in Seat : bat[b].seat[i] = c
        BY <2>1 DEF Seated
      <3>2. c # None
        BY <2>1 DEF Seated
      <3>3. Shows(Field, b)
        BY <2>1, <2>3, <3>1, <3>2 DEF FieldAgrees, Shown
      <3> QED
        BY <2>1, <2>2, <3>3, NotOnChain DEF Shows
    <2> QED
      BY <2>1, <2>2, <2>3 DEF LinkAgrees
  <1> QED
    BY <1>1, PlayInvAlways, PTL
=============================================================================
