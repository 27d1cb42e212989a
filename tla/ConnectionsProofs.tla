------------------------- MODULE ConnectionsProofs -------------------------
(***************************************************************************)
(* Proofs about the connections of the account server: their buffers       *)
(* (TcpStruct) and the table of the game servers behind them (GameServers),*)
(* for every number of buffers, connections, cells and names.              *)
(*                                                                         *)
(* First the buffers.  The lists that start at the buffers ri and wi of    *)
(* the connections partition the buffers in use (Pool), consuming from one *)
(* and appending to one do to its text what they say and nothing to the    *)
(* others (ConsumeKeeps, AppendKeeps), and with mbuse exact the bound check*)
(* of appendMemBufList is right (AppendIs).  On these rests ConnectionsInv,*)
(* which every step keeps.  The table comes last.                          *)
(***************************************************************************)
EXTENDS TcpStruct, GameServers, FiniteSetTheorems, WellFoundedInduction, TLAPS

(* What the proofs use of the constants throughout.                        *)
LEMMA Sizes == MbSize \in Nat \ {0} /\ BufSize \in Nat \ {0} /\ MaxCon \in Nat \ {0}
  BY TcpStructAssumption DEF TcpStructAssumption

USE Sizes

-----------------------------------------------------------------------------
(* Numbers and functions defined step by step                              *)

(* Some numbers have a least one.                                          *)
LEMMA LeastNumber ==
    ASSUME NEW I \in SUBSET Nat, I # {}
    PROVE  \E m \in I : \A y \in I : m <= y
  <1> DEFINE R == {ss \in Nat \X Nat : ss[1] < ss[2]}
  <1>1. R = OpToRel(<, Nat)
    BY Zenon DEF OpToRel
  <1>2. IsWellFoundedOn(R, Nat)
    BY <1>1, NatLessThanWellFounded, Zenon
  <1>3. PICK m \in I : \A y \in I : ~(<<y, m>> \in R)
    <2> HIDE DEF R
    <2> QED
      BY <1>2, WFMin
  <1>4. ASSUME NEW y \in I PROVE m <= y
    <2>1. m \in Nat /\ y \in Nat
      OBVIOUS
    <2>2. ~(y < m)
      BY <1>3, <2>1
    <2> QED
      BY <2>1, <2>2
  <1> QED
    BY <1>4

(* What holds at 1 and from each number to the next holds up to N.         *)
LEMMA OneByOne ==
    ASSUME NEW N \in Nat, NEW J \in SUBSET (1 .. N), N > 0 => 1 \in J,
           \A i \in 1 .. N : i > 1 /\ i - 1 \in J => i \in J
    PROVE  J = 1 .. N
  <1> SUFFICES ASSUME (1 .. N) \ J # {} PROVE FALSE
    OBVIOUS
  <1> DEFINE K == (1 .. N) \ J
  <1>1. K \in SUBSET Nat /\ K # {}
    OBVIOUS
  <1>2. PICK k \in K : \A j \in K : k <= j
    <2> HIDE DEF K
    <2> QED
      BY <1>1, LeastNumber
  <1>3. k \in 1 .. N /\ k \notin J /\ k # 1
    BY <1>2
  <1>4. k - 1 \in 1 .. N /\ k - 1 \in J
    BY <1>2, <1>3
  <1> QED
    BY <1>3, <1>4

(* A function defined by what it is at 1 and by its step exists.           *)
StepsFrom(x, g, N, f) == f = [i \in 1 .. N |-> IF i = 1 THEN x ELSE g[<<f[i - 1], i>>]]

LEMMA StepsExist ==
    ASSUME NEW X, NEW x \in X, NEW N \in Nat, NEW g \in [X \X (1 .. N) -> X]
    PROVE  \E f \in [1 .. N -> X] : StepsFrom(x, g, N, f)
  <1> DEFINE J == {n \in 1 .. N : \E f \in [1 .. n -> X] : StepsFrom(x, g, n, f)}
  <1>1. \E f \in [1 .. 1 -> X] : StepsFrom(x, g, 1, f)
    <2> DEFINE f == [i \in 1 .. 1 |-> x]
    <2>1. f \in [1 .. 1 -> X] /\ StepsFrom(x, g, 1, f)
      BY DEF StepsFrom
    <2> QED
      BY <2>1
  <1>2. ASSUME NEW n \in 1 .. N, n > 1, n - 1 \in J PROVE n \in J
    <2>1. PICK f \in [1 .. n - 1 -> X] : StepsFrom(x, g, n - 1, f)
      BY <1>2
    <2> DEFINE h == [i \in 1 .. n |-> IF i = n THEN g[<<f[n - 1], n>>] ELSE f[i]]
    <2>2. n - 1 \in 1 .. n - 1 /\ f[n - 1] \in X /\ g[<<f[n - 1], n>>] \in X
      <3>1. n - 1 \in 1 .. n - 1 /\ f[n - 1] \in X
        BY <1>2
      <3> QED
        BY <3>1
    <2>3. h \in [1 .. n -> X]
      <3> HIDE DEF StepsFrom
      <3>1. \A i \in 1 .. n : i # n => i \in 1 .. n - 1
        OBVIOUS
      <3> QED
        BY <2>2, <3>1
    <2>4. \A i \in 1 .. n : h[i] = IF i = 1 THEN x ELSE g[<<h[i - 1], i>>]
      <3> TAKE i \in 1 .. n
      <3>1. CASE i = n
        <4>1. h[i - 1] = f[n - 1] /\ h[i] = g[<<f[n - 1], n>>] /\ i # 1
          BY <1>2, <3>1
        <4> QED
          BY <3>1, <4>1
      <3>2. CASE i # n
        <4>1. i \in 1 .. n - 1 /\ h[i] = f[i] /\ (i # 1 => i - 1 \in 1 .. n - 1 /\ i - 1 # n /\ h[i - 1] = f[i - 1])
          BY <3>2
        <4>2. f[i] = IF i = 1 THEN x ELSE g[<<f[i - 1], i>>]
          BY <2>1, <4>1, Zenon DEF StepsFrom
        <4> QED
          BY <4>1, <4>2
      <3> QED
        BY <3>1, <3>2
    <2>5. StepsFrom(x, g, n, h)
      <3>1. h = [i \in 1 .. n |-> h[i]]
        OBVIOUS
      <3> HIDE DEF h
      <3> QED
        BY <2>4, <3>1 DEF StepsFrom
    <2> QED
      <3> HIDE DEF h
      <3> QED
        BY <2>3, <2>5
  <1>3. CASE N > 0
    <2>1. J \in SUBSET (1 .. N) /\ 1 \in J
      BY <1>1, <1>3
    <2> HIDE DEF J
    <2>2. J = 1 .. N
      BY <1>2, <2>1, OneByOne
    <2> QED
      BY <1>3, <2>2 DEF J
  <1>4. CASE N = 0
    <2> DEFINE f == [i \in 1 .. 0 |-> x]
    <2>1. f \in [1 .. 0 -> X] /\ StepsFrom(x, g, 0, f)
      BY DEF StepsFrom
    <2> QED
      BY <1>4, <2>1
  <1> QED
    BY <1>3, <1>4

(* Counting in a circle.                                                   *)
LEMMA ModRange == ASSUME NEW x \in Nat, NEW M \in Nat \ {0} PROVE x % M \in 0 .. M - 1
  OBVIOUS

LEMMA ModIs ==
    ASSUME NEW x \in Nat, NEW M \in Nat \ {0}, NEW q \in Int, NEW r \in 0 .. M - 1, x = M * q + r
    PROVE  x % M = r
  OBVIOUS

LEMMA ModSucc ==
    ASSUME NEW x \in Nat, NEW M \in Nat \ {0}
    PROVE  (x + 1) % M = IF x % M = M - 1 THEN 0 ELSE (x % M) + 1
  <1>1. PICK q \in Int, r \in 0 .. M - 1 : x = M * q + r /\ x % M = r
    <2>1. x = M * (x \div M) + (x % M) /\ x \div M \in Int /\ x % M \in 0 .. M - 1
      OBVIOUS
    <2> QED
      BY <2>1
  <1>2. CASE r = M - 1
    <2>1. x + 1 = M * (q + 1) + 0 /\ q + 1 \in Int /\ 0 \in 0 .. M - 1 /\ x + 1 \in Nat
      BY <1>1, <1>2
    <2>2. (x + 1) % M = 0
      BY <2>1, ModIs
    <2> QED
      BY <1>1, <1>2, <2>2
  <1>3. CASE r # M - 1
    <2>1. x + 1 = M * q + (r + 1) /\ r + 1 \in 0 .. M - 1 /\ x + 1 \in Nat
      BY <1>1, <1>3
    <2>2. (x + 1) % M = r + 1
      BY <2>1, ModIs
    <2> QED
      BY <1>1, <1>3, <2>2
  <1> QED
    BY <1>2, <1>3

-----------------------------------------------------------------------------
(* The list that starts at a buffer                                        *)

BufRec == [use : BOOLEAN, buf : Seq(Cell), next : Buf \union {None}]
Mem == [Buf -> BufRec]

(* From top along next, in a pool m; and the list one finds.               *)
Follows(m, top, f) ==
    f = [k \in 1 .. MbSize |->
           IF k = 1 THEN top
           ELSE LET b == f[k - 1] IN IF b \in Buf THEN m[b].next ELSE None]

ListIn(m, top) ==
    LET at == CHOOSE f : Follows(m, top, f)
    IN  [k \in 1 .. Cardinality({j \in 1 .. MbSize : at[j] \in Buf}) |-> at[k]]

(* ListFrom is ListIn for the pool as it is.                               *)
LEMMA ListFromIs == \A top : ListFrom(top) = ListIn(mb, top)
  BY DEF ListFrom, ListIn, Follows

LEMMA NoneIsNoBuf == None \notin Buf /\ EMBFULL \notin Buf /\ None # EMBFULL /\ Buf \subseteq Int
                     /\ None \in Int /\ EMBFULL \in Int
  BY DEF None, EMBFULL, Buf

LEMMA CountTo == ASSUME NEW n \in Nat PROVE IsFiniteSet(1 .. n) /\ Cardinality(1 .. n) = n
  <1>1. 1 \in Int /\ n \in Int
    OBVIOUS
  <1>2. IsFiniteSet(1 .. n) /\ Cardinality(1 .. n) = IF 1 > n THEN 0 ELSE n - 1 + 1
    BY <1>1, FS_Interval, Zenon
  <1> QED
    BY <1>2

LEMMA BufFinite == IsFiniteSet(Buf) /\ Cardinality(Buf) = MbSize
  <1>1. 0 \in Int /\ MbSize - 1 \in Int
    OBVIOUS
  <1>2. /\ IsFiniteSet(0 .. MbSize - 1)
        /\ Cardinality(0 .. MbSize - 1) = IF 0 > MbSize - 1 THEN 0 ELSE MbSize - 1 - 0 + 1
    BY <1>1, FS_Interval, Zenon
  <1> QED
    BY <1>2 DEF Buf

(* Going along next from any buffer number ends.                           *)
LEMMA WalkExists ==
    ASSUME NEW m \in Mem, NEW top \in Int
    PROVE  \E f \in [1 .. MbSize -> Int] : Follows(m, top, f)
  <1> DEFINE g == [z \in Int \X (1 .. MbSize) |-> IF z[1] \in Buf THEN m[z[1]].next ELSE None]
  <1>1. g \in [Int \X (1 .. MbSize) -> Int]
    <2>1. \A z \in Int \X (1 .. MbSize) : (IF z[1] \in Buf THEN m[z[1]].next ELSE None) \in Int
      BY NoneIsNoBuf DEF Mem, BufRec
    <2> QED
      BY <2>1
  <1>2. PICK f \in [1 .. MbSize -> Int] : StepsFrom(top, g, MbSize, f)
    <2> HIDE DEF g
    <2> QED
      BY <1>1, StepsExist
  <1>3. \A k \in 1 .. MbSize : k # 1 => g[<<f[k - 1], k>>] = IF f[k - 1] \in Buf THEN m[f[k - 1]].next ELSE None
    <2> TAKE k \in 1 .. MbSize
    <2> HAVE k # 1
    <2>1. k - 1 \in 1 .. MbSize
      OBVIOUS
    <2>2. <<f[k - 1], k>> \in Int \X (1 .. MbSize)
      BY <2>1
    <2> QED
      BY <2>2
  <1> HIDE DEF g
  <1>4. \A k \in 1 .. MbSize :
           (IF k = 1 THEN top ELSE g[<<f[k - 1], k>>])
           = IF k = 1 THEN top ELSE LET b == f[k - 1] IN IF b \in Buf THEN m[b].next ELSE None
    BY <1>3
  <1>5. [k \in 1 .. MbSize |-> IF k = 1 THEN top ELSE g[<<f[k - 1], k>>]]
        = [k \in 1 .. MbSize |->
             IF k = 1 THEN top ELSE LET b == f[k - 1] IN IF b \in Buf THEN m[b].next ELSE None]
    BY <1>4
  <1>6. Follows(m, top, f)
    BY <1>2, <1>5 DEF StepsFrom, Follows
  <1> QED
    BY <1>6

(* A list as it is written down: linked in this order, and no buffer twice.*)
IsChain(m, h, l) ==
    /\ l \in Seq(Buf) /\ Len(l) >= 1 /\ l[1] = h
    /\ \A k \in 1 .. Len(l) : m[l[k]].next = IF k < Len(l) THEN l[k + 1] ELSE None
    /\ \A i, j \in 1 .. Len(l) : l[i] = l[j] => i = j

(* No list is longer than there are buffers.                               *)
LEMMA ChainIsShort ==
    ASSUME NEW l \in Seq(Buf), \A i, j \in 1 .. Len(l) : l[i] = l[j] => i = j
    PROVE  Len(l) \in 0 .. MbSize
  <1> DEFINE D == 1 .. Len(l)
  <1>1. IsFiniteSet(D) /\ Cardinality(D) = Len(l)
    <2>1. Len(l) \in Nat
      OBVIOUS
    <2> QED
      BY <2>1, CountTo
  <1>2. l \in Injection(D, Buf)
    BY DEF Injection, IsInjective
  <1>3. Cardinality(D) <= Cardinality(Buf)
    BY <1>1, <1>2, BufFinite, FS_Injection
  <1> QED
    BY <1>1, <1>3, BufFinite

(* Sets that correspond one to one have as many elements.                  *)
LEMMA SameSize ==
    ASSUME NEW S, NEW T, IsFiniteSet(S), NEW f \in [S -> T],
           \A x, y \in S : f[x] = f[y] => x = y, \A z \in T : \E x \in S : f[x] = z
    PROVE  IsFiniteSet(T) /\ Cardinality(T) = Cardinality(S)
  <1>1. f \in Surjection(S, T)
    BY DEF Surjection
  <1>2. f \in Injection(S, T)
    BY DEF Injection, IsInjective
  <1>3. ExistsBijection(S, T)
    BY <1>1, <1>2 DEF ExistsBijection, Bijection
  <1> QED
    BY <1>3, FS_Bijection

(* A chain is what one finds.                                              *)
LEMMA ChainIsList ==
    ASSUME NEW m \in Mem, NEW h \in Buf, NEW l, IsChain(m, h, l)
    PROVE  ListIn(m, h) = l
  <1> DEFINE at == CHOOSE f : Follows(m, h, f)
             N == Len(l)
  <1>0. l \in Seq(Buf) /\ N \in 1 .. MbSize /\ l[1] = h
    <2>1. /\ l \in Seq(Buf) /\ Len(l) >= 1 /\ l[1] = h
          /\ \A i, j \in 1 .. Len(l) : l[i] = l[j] => i = j
      BY DEF IsChain
    <2>2. Len(l) \in 0 .. MbSize
      BY <2>1, ChainIsShort
    <2> QED
      BY <2>1, <2>2
  <1>1. \A k \in 1 .. N : l[k] \in Buf /\ m[l[k]].next = IF k < N THEN l[k + 1] ELSE None
    BY DEF IsChain
  <1>2. \E f : Follows(m, h, f)
    BY WalkExists, NoneIsNoBuf
  <1>3. Follows(m, h, at)
    BY <1>2
  <1>4. ListIn(m, h) = [k \in 1 .. Cardinality({j \in 1 .. MbSize : at[j] \in Buf}) |-> at[k]]
    BY Zenon DEF ListIn
  <1> HIDE DEF at
  <1>5. \A k \in 1 .. MbSize :
           at[k] = IF k = 1 THEN h
                   ELSE LET b == at[k - 1] IN IF b \in Buf THEN m[b].next ELSE None
    BY <1>3, Zenon DEF Follows
  <1>6. \A k \in 1 .. N : at[k] = l[k]
    <2> DEFINE J == {k \in 1 .. N : at[k] = l[k]}
    <2>1. J \in SUBSET (1 .. N) /\ 1 \in J
      BY <1>0, <1>5
    <2>2. ASSUME NEW k \in 1 .. N, k > 1, k - 1 \in J PROVE k \in J
      <3>1. k \in 1 .. MbSize /\ k - 1 \in 1 .. N /\ at[k - 1] = l[k - 1] /\ k - 1 < N /\ (k - 1) + 1 = k
        BY <1>0, <2>2
      <3>2. at[k] = m[l[k - 1]].next
        <4>1. l[k - 1] \in Buf /\ at[k - 1] \in Buf /\ k # 1
          BY <1>1, <2>2, <3>1
        <4> QED
          BY <1>5, <3>1, <4>1
      <3>3. at[k] = l[k]
        BY <1>1, <3>1, <3>2
      <3> QED
        BY <3>3
    <2> HIDE DEF J
    <2>3. N \in Nat
      BY <1>0
    <2>4. J = 1 .. N
      BY <2>1, <2>2, <2>3, OneByOne
    <2> QED
      BY <2>4 DEF J
  <1>7. \A k \in 1 .. MbSize : k > N => at[k] = None
    <2> DEFINE J == {k \in 1 .. MbSize : k > N => at[k] = None}
    <2>1. J \in SUBSET (1 .. MbSize) /\ 1 \in J
      BY <1>0
    <2>2. ASSUME NEW k \in 1 .. MbSize, k > 1, k - 1 \in J PROVE k \in J
      <3>1. CASE k > N + 1
        <4>1. at[k - 1] = None /\ k # 1
          BY <1>0, <2>2, <3>1
        <4>2. at[k] = None
          BY <1>5, <4>1, NoneIsNoBuf
        <4> QED
          BY <4>2
      <3>2. CASE k = N + 1
        <4>1. k # 1 /\ k - 1 = N /\ N \in 1 .. N /\ at[N] = l[N] /\ l[N] \in Buf /\ m[l[N]].next = None
          BY <1>0, <1>1, <1>6, <3>2
        <4>2. at[k] = None
          BY <1>5, <4>1
        <4> QED
          BY <4>2
      <3>3. CASE k <= N
        BY <3>3, <1>0
      <3> QED
        BY <1>0, <3>1, <3>2, <3>3
    <2> HIDE DEF J
    <2>4. J = 1 .. MbSize
      BY <2>1, <2>2, OneByOne
    <2> QED
      BY <2>4 DEF J
  <1>8. {j \in 1 .. MbSize : at[j] \in Buf} = 1 .. N
    <2>1. \A j \in 1 .. MbSize : at[j] \in Buf <=> j <= N
      <3> TAKE j \in 1 .. MbSize
      <3>1. CASE j <= N
        <4>1. j \in 1 .. N
          BY <1>0, <3>1
        <4> QED
          BY <1>1, <1>6, <3>1, <4>1
      <3>2. CASE j > N
        <4>1. at[j] = None
          BY <1>7, <3>2
        <4> QED
          BY <1>0, <3>2, <4>1, NoneIsNoBuf
      <3> QED
        BY <1>0, <3>1, <3>2
    <2> QED
      BY <1>0, <2>1
  <1>9. Cardinality(1 .. N) = N
    BY <1>0, CountTo
  <1>10. ListIn(m, h) = [k \in 1 .. N |-> l[k]]
    BY <1>4, <1>6, <1>8, <1>9
  <1> QED
    BY <1>0, <1>10

(* The lists that start at the buffers H share none, and have all that are *)
(* in use; only the first of a list may be empty.                          *)
Lists(m, H, L) ==
    /\ \A h \in H : IsChain(m, h, L[h])
    /\ \A h \in H : \A i \in 2 .. Len(L[h]) : m[L[h][i]].buf # <<>>
    /\ \A h, g \in H : h # g => \A i \in 1 .. Len(L[h]), j \in 1 .. Len(L[g]) : L[h][i] # L[g][j]
    /\ \A b \in Buf : m[b].use <=> \E h \in H : \E i \in 1 .. Len(L[h]) : L[h][i] = b
    /\ \A b \in Buf : ~m[b].use => m[b] = FreeBuf

ListsIn(m, H) == [h \in H |-> ListIn(m, h)]
Pool(m, H) == Lists(m, H, ListsIn(m, H))

(* Lists that are known one by one are those one finds.                    *)
LEMMA PoolFrom ==
    ASSUME NEW m \in Mem, NEW H \in SUBSET Buf, NEW L, Lists(m, H, L)
    PROVE  Pool(m, H) /\ \A h \in H : ListIn(m, h) = L[h]
  <1>1. \A h \in H : ListIn(m, h) = L[h]
    BY ChainIsList DEF Lists
  <1>2. \A h \in H : ListsIn(m, H)[h] = L[h]
    BY <1>1 DEF ListsIn
  <1> DEFINE K == ListsIn(m, H)
  <1> HIDE DEF K
  <1>3. \A h \in H : K[h] = L[h]
    BY <1>2 DEF K
  <1>4. Lists(m, H, K)
    <2>1. \A h \in H : IsChain(m, h, K[h])
      BY <1>3 DEF Lists
    <2>2. \A h \in H : \A i \in 2 .. Len(K[h]) : m[K[h][i]].buf # <<>>
      BY <1>3 DEF Lists
    <2>3. \A h, g \in H : h # g => \A i \in 1 .. Len(K[h]), j \in 1 .. Len(K[g]) : K[h][i] # K[g][j]
      BY <1>3 DEF Lists
    <2>4. \A b \in Buf : m[b].use <=> \E h \in H : \E i \in 1 .. Len(K[h]) : K[h][i] = b
      <3>1. \A b \in Buf : m[b].use <=> \E h \in H : \E i \in 1 .. Len(L[h]) : L[h][i] = b
        BY DEF Lists
      <3>2. ASSUME NEW b \in Buf
            PROVE  (\E h \in H : \E i \in 1 .. Len(L[h]) : L[h][i] = b)
                   <=> \E h \in H : \E i \in 1 .. Len(K[h]) : K[h][i] = b
        BY <1>3
      <3> QED
        BY <3>1, <3>2
    <2>5. \A b \in Buf : ~m[b].use => m[b] = FreeBuf
      BY DEF Lists
    <2> QED
      BY <2>1, <2>2, <2>3, <2>4, <2>5 DEF Lists
  <1> QED
    BY <1>1, <1>4 DEF Pool, K

-----------------------------------------------------------------------------
(* Sequences joined into one: off[k] elements come from the first k.       *)

Offsets(s, off) ==
    /\ off \in [0 .. Len(s) -> Nat] /\ off[0] = 0
    /\ \A k \in 1 .. Len(s) : off[k] = off[k - 1] + Len(s[k])

Joined(s, off, T) ==
    /\ Offsets(s, off)
    /\ Len(T) = off[Len(s)]
    /\ \A k \in 1 .. Len(s) : \A i \in 1 .. Len(s[k]) : T[off[k - 1] + i] = s[k][i]

(* Later pieces begin later.                                               *)
LEMMA OffsetsGrow ==
    ASSUME NEW s \in Seq(Seq(Cell)), NEW off, Offsets(s, off), NEW j \in 0 .. Len(s)
    PROVE  \A k \in 0 .. Len(s) : j <= k => off[j] <= off[k]
  <1> DEFINE N == Len(s)
             J == {k \in 1 .. N : j <= k => off[j] <= off[k]}
  <1>0. /\ N \in Nat /\ off \in [0 .. N -> Nat]
        /\ \A k \in 1 .. N : off[k] = off[k - 1] + Len(s[k]) /\ Len(s[k]) \in Nat
    BY DEF Offsets
  <1>1. J \in SUBSET (1 .. N)
    OBVIOUS
  <1>2. N > 0 => 1 \in J
    <2> SUFFICES ASSUME N > 0 PROVE 1 \in J
      OBVIOUS
    <2>1. 1 \in 1 .. N /\ off[1] = off[1 - 1] + Len(s[1]) /\ Len(s[1]) \in Nat /\ 1 - 1 = 0 /\ off[0] \in Nat
      BY <1>0
    <2>2. j <= 1 => j = 0 \/ j = 1
      OBVIOUS
    <2> QED
      BY <1>0, <2>1, <2>2
  <1>3. ASSUME NEW k \in 1 .. N, k > 1, k - 1 \in J PROVE k \in J
    <2>0. k - 1 \in 0 .. N /\ k \in 0 .. N
      BY <1>0, <1>3
    <2>1. off[k - 1] \in Nat /\ off[k] = off[k - 1] + Len(s[k]) /\ Len(s[k]) \in Nat
      BY <1>0, <2>0
    <2>2. j <= k - 1 => off[j] <= off[k - 1]
      BY <1>3
    <2>3. off[j] \in Nat
      BY <1>0
    <2>4. CASE j <= k - 1
      BY <2>1, <2>2, <2>3, <2>4
    <2>5. CASE j = k
      BY <2>3, <2>5
    <2>6. CASE j > k
      BY <2>6
    <2> QED
      BY <2>0, <2>4, <2>5, <2>6
  <1> HIDE DEF J
  <1>4. J = 1 .. N
    BY <1>0, <1>1, <1>2, <1>3, OneByOne
  <1>5. \A k \in 1 .. N : j <= k => off[j] <= off[k]
    BY <1>4 DEF J
  <1>6. off[0] \in Nat
    BY <1>0
  <1> QED
    BY <1>5, <1>6

(* There is one way to count, and one result.                              *)
Begins(t, s) == Len(t) <= Len(s) /\ \A k \in 1 .. Len(t) : t[k] = s[k]

LEMMA OffsetsAgree ==
    ASSUME NEW s \in Seq(Seq(Cell)), NEW t \in Seq(Seq(Cell)), Begins(t, s),
           NEW off, Offsets(s, off), NEW offt, Offsets(t, offt)
    PROVE  \A k \in 0 .. Len(t) : offt[k] = off[k]
  <1> DEFINE N == Len(t)
             J == {k \in 1 .. N : offt[k] = off[k]}
  <1>0. /\ N \in Nat /\ off[0] = 0 /\ offt[0] = 0
        /\ \A k \in 1 .. N : off[k] = off[k - 1] + Len(s[k]) /\ offt[k] = offt[k - 1] + Len(s[k])
    <2>1. N \in Nat /\ 1 .. N \subseteq 1 .. Len(s) /\ \A k \in 1 .. N : t[k] = s[k]
      BY DEF Begins
    <2>2. off[0] = 0 /\ \A k \in 1 .. Len(s) : off[k] = off[k - 1] + Len(s[k])
      BY DEF Offsets
    <2>3. offt[0] = 0 /\ \A k \in 1 .. N : offt[k] = offt[k - 1] + Len(t[k])
      BY DEF Offsets
    <2> QED
      BY <2>1, <2>2, <2>3
  <1>1. J \in SUBSET (1 .. N)
    OBVIOUS
  <1>2. N > 0 => 1 \in J
    <2>1. 1 - 1 = 0
      OBVIOUS
    <2> QED
      BY <1>0, <2>1
  <1>3. ASSUME NEW k \in 1 .. N, k > 1, k - 1 \in J PROVE k \in J
    BY <1>0, <1>3
  <1> HIDE DEF J
  <1>4. J = 1 .. N
    BY <1>0, <1>1, <1>2, <1>3, OneByOne
  <1>5. \A k \in 1 .. N : offt[k] = off[k]
    BY <1>4 DEF J
  <1> QED
    BY <1>0, <1>5

InPart(s, off, x) == \E k \in 1 .. Len(s) : \E i \in 1 .. Len(s[k]) : x = off[k - 1] + i

(* Every element comes from some piece.                                    *)
LEMMA WhichPart ==
    ASSUME NEW s \in Seq(Seq(Cell)), NEW off, Offsets(s, off), NEW x \in Nat, 1 <= x, x <= off[Len(s)]
    PROVE  InPart(s, off, x)
  <1> DEFINE N == Len(s)
             K == {k \in 0 .. N : x <= off[k]}
  <1>0. /\ N \in Nat /\ off \in [0 .. N -> Nat] /\ off[0] = 0
        /\ \A k \in 1 .. N : off[k] = off[k - 1] + Len(s[k]) /\ Len(s[k]) \in Nat
    BY DEF Offsets
  <1>1. K \in SUBSET Nat /\ N \in K
    BY <1>0
  <1>2. PICK k \in K : \A j \in K : k <= j
    <2> HIDE DEF K
    <2> QED
      BY <1>1, LeastNumber
  <1>3. k \in 0 .. N /\ x <= off[k]
    BY <1>2
  <1>4. k # 0
    BY <1>0, <1>3
  <1>5. k \in 1 .. N /\ k - 1 \in 0 .. N /\ k - 1 \notin K
    BY <1>2, <1>3, <1>4
  <1>6. off[k - 1] \in Nat /\ ~(x <= off[k - 1])
    BY <1>0, <1>5
  <1>7. x - off[k - 1] \in 1 .. Len(s[k]) /\ x = off[k - 1] + (x - off[k - 1])
    BY <1>0, <1>3, <1>5, <1>6
  <1> QED
    BY <1>5, <1>7 DEF InPart

(* Joined in two ways, the same pieces give the same sequence.             *)
LEMMA JoinedOnce ==
    ASSUME NEW s \in Seq(Seq(Cell)), NEW off, NEW T \in Seq(Cell), Joined(s, off, T),
           NEW off2, NEW T2 \in Seq(Cell), Joined(s, off2, T2)
    PROVE  T = T2
  <1>0. Offsets(s, off) /\ Offsets(s, off2) /\ Len(s) \in Nat
    BY DEF Joined
  <1>1. \A k \in 0 .. Len(s) : off2[k] = off[k]
    <2>1. Begins(s, s)
      BY DEF Begins
    <2> QED
      BY <1>0, <2>1, OffsetsAgree
  <1>2. Len(T) = off[Len(s)] /\ Len(T2) = Len(T)
    BY <1>0, <1>1 DEF Joined
  <1>3. ASSUME NEW x \in 1 .. Len(T) PROVE T[x] = T2[x]
    <2>0. x \in Nat /\ 1 <= x /\ x <= off[Len(s)]
      BY <1>2
    <2>01. InPart(s, off, x)
      BY <1>0, <2>0, WhichPart
    <2>1. PICK k \in 1 .. Len(s) : \E i \in 1 .. Len(s[k]) : x = off[k - 1] + i
      BY <2>01 DEF InPart
    <2>2. PICK i \in 1 .. Len(s[k]) : x = off[k - 1] + i
      BY <2>1
    <2>3. T[off[k - 1] + i] = s[k][i] /\ T2[off2[k - 1] + i] = s[k][i]
      BY DEF Joined
    <2>4. off2[k - 1] = off[k - 1]
      BY <1>0, <1>1
    <2> QED
      BY <2>2, <2>3, <2>4
  <1>4. /\ T = [x \in 1 .. Len(T) |-> T[x]] /\ T2 = [x \in 1 .. Len(T2) |-> T2[x]]
    OBVIOUS
  <1>5. [x \in 1 .. Len(T) |-> T[x]] = [x \in 1 .. Len(T) |-> T2[x]]
    BY <1>3
  <1> QED
    BY <1>2, <1>4, <1>5, Zenon

(* Sequences: the same, joined, extended, cut.                             *)
LEMMA SameSeq ==
    ASSUME NEW S, NEW s \in Seq(S), NEW t \in Seq(S), Len(s) = Len(t),
           \A i \in 1 .. Len(s) : s[i] = t[i]
    PROVE  s = t
  <1>1. s = [i \in 1 .. Len(s) |-> s[i]] /\ t = [i \in 1 .. Len(t) |-> t[i]]
    OBVIOUS
  <1>2. [i \in 1 .. Len(s) |-> s[i]] = [i \in 1 .. Len(s) |-> t[i]]
    OBVIOUS
  <1> QED
    BY <1>1, <1>2, Zenon

LEMMA ConcatFacts ==
    ASSUME NEW S, NEW s \in Seq(S), NEW t \in Seq(S)
    PROVE  /\ s \o t \in Seq(S) /\ Len(s \o t) = Len(s) + Len(t)
           /\ \A i \in 1 .. Len(s) : (s \o t)[i] = s[i]
           /\ \A i \in 1 .. Len(t) : (s \o t)[Len(s) + i] = t[i]
  OBVIOUS

LEMMA ConcatCells ==
    ASSUME NEW s \in Seq(Cell), NEW t \in Seq(Cell)
    PROVE  /\ Len(s \o t) = Len(s) + Len(t)
           /\ \A i \in 1 .. Len(s) : (s \o t)[i] = s[i]
           /\ \A i \in 1 .. Len(t) : (s \o t)[Len(s) + i] = t[i]
  OBVIOUS

LEMMA AppendFacts ==
    ASSUME NEW S, NEW s \in Seq(S), NEW e \in S
    PROVE  /\ Append(s, e) \in Seq(S) /\ Len(Append(s, e)) = Len(s) + 1
           /\ \A i \in 1 .. Len(s) : Append(s, e)[i] = s[i]
           /\ Append(s, e)[Len(s) + 1] = e
  OBVIOUS

LEMMA SubSeqFacts ==
    ASSUME NEW S, NEW s \in Seq(S), NEW a \in 1 .. Len(s) + 1, NEW b \in 0 .. Len(s), a <= b + 1
    PROVE  /\ SubSeq(s, a, b) \in Seq(S) /\ Len(SubSeq(s, a, b)) = b - a + 1
           /\ \A i \in 1 .. b - a + 1 : SubSeq(s, a, b)[i] = s[a + i - 1]
  OBVIOUS

IsJoined(s, T) == T \in Seq(Cell) /\ \E off : Joined(s, off, T)

(* One piece more is joined behind the others.                             *)
LEMMA JoinedAppend ==
    ASSUME NEW s \in Seq(Seq(Cell)), NEW T, IsJoined(s, T), NEW d \in Seq(Cell)
    PROVE  IsJoined(Append(s, d), T \o d)
  <1>1. PICK off : Joined(s, off, T)
    BY DEF IsJoined
  <1> DEFINE N == Len(s)
             u == Append(s, d)
             off2 == [k \in 0 .. N + 1 |-> IF k <= N THEN off[k] ELSE off[N] + Len(d)]
  <1>0. N \in Nat /\ N = Len(s)
    OBVIOUS
  <1>2. /\ N \in Nat /\ T \in Seq(Cell) /\ Len(d) \in Nat
        /\ off \in [0 .. N -> Nat] /\ off[0] = 0 /\ Len(T) = off[N]
        /\ \A k \in 1 .. N : off[k] = off[k - 1] + Len(s[k])
        /\ \A k \in 1 .. N : \A i \in 1 .. Len(s[k]) : T[off[k - 1] + i] = s[k][i]
    BY <1>1 DEF Joined, Offsets, IsJoined
  <1>3. u \in Seq(Seq(Cell)) /\ Len(u) = N + 1 /\ u[N + 1] = d /\ \A k \in 1 .. N : u[k] = s[k]
    OBVIOUS
  <1>4. off2 \in [0 .. N + 1 -> Nat] /\ off2[0] = 0 /\ off2[N + 1] = off[N] + Len(d)
        /\ \A k \in 0 .. N : off2[k] = off[k]
    BY <1>2
  <1> HIDE DEF u, off2, N
  <1>5. ASSUME NEW k \in 1 .. N + 1 PROVE off2[k] = off2[k - 1] + Len(u[k])
    <2>1. CASE k = N + 1
      <3>1. k - 1 = N /\ N \in 0 .. N
        BY <1>2, <2>1
      <3> QED
        BY <1>3, <1>4, <2>1, <3>1
    <2>2. CASE k # N + 1
      <3>1. k \in 1 .. N /\ k - 1 \in 0 .. N /\ k \in 0 .. N
        BY <1>0, <2>2
      <3> QED
        BY <1>2, <1>3, <1>4, <3>1
    <2> QED
      BY <2>1, <2>2
  <1>6. Len(T \o d) = off2[N + 1]
    <2>0. T \in Seq(Cell) /\ d \in Seq(Cell)
      BY <1>2
    <2>1. Len(T \o d) = Len(T) + Len(d)
      BY <2>0
    <2>2. Len(T) = off[N] /\ off2[N + 1] = off[N] + Len(d)
      BY <1>2, <1>4
    <2> QED
      BY <2>1, <2>2
  <1>7. ASSUME NEW k \in 1 .. N + 1, NEW i \in 1 .. Len(u[k])
        PROVE  (T \o d)[off2[k - 1] + i] = u[k][i]
    <2>1. CASE k = N + 1
      <3>1. off2[k - 1] = Len(T) /\ i \in 1 .. Len(d) /\ u[k] = d
        BY <1>2, <1>3, <1>4, <1>7, <2>1
      <3> QED
        BY <1>2, <3>1
    <2>2. CASE k # N + 1
      <3>1. k \in 1 .. N /\ k - 1 \in 0 .. N /\ k \in 0 .. N
        BY <1>0, <2>2
      <3>2. off2[k - 1] = off[k - 1] /\ u[k] = s[k] /\ off[k] = off[k - 1] + Len(s[k]) /\ off[k - 1] \in Nat
        BY <1>2, <1>3, <1>4, <3>1
      <3>3. Offsets(s, off) /\ N \in 0 .. Len(s)
        BY <1>0, <1>1 DEF Joined
      <3>4. off[k] <= off[N]
        <4>1. k \in 0 .. Len(s) /\ N \in 0 .. Len(s) /\ k <= N
          BY <1>0, <3>1
        <4> QED
          BY <3>3, <4>1, OffsetsGrow
      <3>5. off[k - 1] + i \in 1 .. Len(T)
        <4>1. off[k - 1] \in Nat /\ i \in 1 .. Len(s[k]) /\ Len(s[k]) \in Nat /\ Len(T) = off[N] /\ off[N] \in Nat
          BY <1>2, <1>7, <3>1, <3>2
        <4>2. off[k - 1] + Len(s[k]) <= Len(T)
          BY <3>2, <3>4, <4>1
        <4>3. \A a, n, m \in Nat : \A x \in 1 .. n : a + n <= m => a + x \in 1 .. m
          OBVIOUS
        <4>4. Len(T) \in Nat
          BY <4>1
        <4> QED
          BY <4>1, <4>2, <4>3, <4>4
      <3>6. (T \o d)[off[k - 1] + i] = T[off[k - 1] + i]
        BY <1>2, <3>5
      <3>7. T[off[k - 1] + i] = s[k][i]
        BY <1>2, <1>7, <3>1, <3>2
      <3> QED
        BY <3>2, <3>6, <3>7
    <2> QED
      BY <2>1, <2>2
  <1>8. T \o d \in Seq(Cell)
    BY <1>2
  <1>9. Joined(u, off2, T \o d)
    BY <1>3, <1>4, <1>5, <1>6, <1>7 DEF Joined, Offsets
  <1> QED
    BY <1>8, <1>9 DEF IsJoined, u

(* FlattenSeq joins.                                                       *)
LEMMA FlattenJoins == \A s \in Seq(Seq(Cell)) : IsJoined(s, FlattenSeq(s))
  <1> SUFFICES ASSUME NEW s \in Seq(Seq(Cell)) PROVE IsJoined(s, FlattenSeq(s))
    OBVIOUS
  <1> DEFINE N == Len(s)
  <1>0. N \in Nat /\ s = [k \in 1 .. N |-> s[k]] /\ \A k \in 1 .. N : s[k] \in Seq(Cell)
    OBVIOUS
  <1>1. CASE N = 0
    <2> DEFINE off == [k \in 0 .. 0 |-> 0]
    <2>1. FlattenSeq(s) = s /\ s = <<>>
      BY <1>1 DEF FlattenSeq
    <2>2. off \in [0 .. 0 -> Nat] /\ off[0] = 0
      OBVIOUS
    <2> HIDE DEF off
    <2>3. Joined(s, off, s)
      BY <1>1, <2>1, <2>2 DEF Joined, Offsets
    <2>4. s \in Seq(Cell)
      BY <2>1
    <2> QED
      BY <2>1, <2>3, <2>4 DEF IsJoined
  <1>2. CASE N > 0
    <2> DEFINE g == [z \in Seq(Cell) \X (1 .. N) |-> z[1] \o s[z[2]]]
               Def(f) == f = [i \in 1 .. N |-> IF i = 1 THEN s[i] ELSE f[i - 1] \o s[i]]
               flat == CHOOSE f : Def(f)
    <2>1. 1 \in 1 .. N /\ s[1] \in Seq(Cell)
      BY <1>0, <1>2
    <2>2. g \in [Seq(Cell) \X (1 .. N) -> Seq(Cell)]
      <3>1. \A z \in Seq(Cell) \X (1 .. N) : z[1] \o s[z[2]] \in Seq(Cell)
        BY <1>0
      <3> QED
        BY <3>1
    <2>3. PICK f \in [1 .. N -> Seq(Cell)] : StepsFrom(s[1], g, N, f)
      <3> HIDE DEF g, N
      <3> QED
        BY <1>0, <2>1, <2>2, StepsExist
    <2>4. \A i \in 1 .. N : i # 1 => g[<<f[i - 1], i>>] = f[i - 1] \o s[i]
      <3> TAKE i \in 1 .. N
      <3> HAVE i # 1
      <3>1. i - 1 \in 1 .. N
        BY <1>0
      <3>2. <<f[i - 1], i>> \in Seq(Cell) \X (1 .. N)
        BY <3>1
      <3> QED
        BY <3>2
    <2>5. Def(f)
      <3> HIDE DEF g, N
      <3>1. [i \in 1 .. N |-> IF i = 1 THEN s[1] ELSE g[<<f[i - 1], i>>]]
            = [i \in 1 .. N |-> IF i = 1 THEN s[i] ELSE f[i - 1] \o s[i]]
        BY <2>4
      <3> QED
        BY <2>3, <3>1 DEF StepsFrom
    <2>6. Def(flat)
      <3> HIDE DEF Def
      <3> QED
        BY <2>5
    <2>7. FlattenSeq(s) = flat[N]
      <3>1. Len(s) # 0
        BY <1>2
      <3> QED
        BY <3>1, Zenon DEF FlattenSeq
    <2> HIDE DEF flat
    <2>8. \A i \in 1 .. N : flat[i] = IF i = 1 THEN s[i] ELSE flat[i - 1] \o s[i]
      BY <2>6, Zenon
    <2> DEFINE J == {k \in 1 .. N : IsJoined(SubSeq(s, 1, k), flat[k])}
    <2>9. 1 \in J
      <3> DEFINE t == SubSeq(s, 1, 1)
                 off == [k \in 0 .. 1 |-> IF k = 0 THEN 0 ELSE Len(s[1])]
      <3>1. t \in Seq(Seq(Cell)) /\ Len(t) = 1 /\ t[1] = s[1]
        BY <2>1
      <3>2. off \in [0 .. 1 -> Nat] /\ off[0] = 0 /\ off[1] = Len(s[1])
        BY <2>1
      <3> HIDE DEF t, off
      <3>3. \A k \in 1 .. Len(t) : k = 1 /\ k - 1 = 0
        BY <3>1
      <3>4. Joined(t, off, s[1])
        <4>1. Offsets(t, off)
          BY <3>1, <3>2, <3>3 DEF Offsets
        <4>2. \A k \in 1 .. Len(t) : \A i \in 1 .. Len(t[k]) : s[1][off[k - 1] + i] = t[k][i]
          BY <2>1, <3>1, <3>2, <3>3
        <4> QED
          BY <3>1, <3>2, <4>1, <4>2 DEF Joined
      <3> QED
        BY <2>1, <2>8, <3>4 DEF IsJoined, t
    <2>10. ASSUME NEW k \in 1 .. N, k > 1, k - 1 \in J PROVE k \in J
      <3>0. k - 1 \in 1 .. N /\ k # 1
        BY <1>0, <2>10
      <3>1. /\ IsJoined(SubSeq(s, 1, k - 1), flat[k - 1])
            /\ flat[k] = flat[k - 1] \o s[k] /\ s[k] \in Seq(Cell)
        BY <1>0, <2>8, <2>10, <3>0
      <3>2. SubSeq(s, 1, k - 1) \in Seq(Seq(Cell)) /\ Append(SubSeq(s, 1, k - 1), s[k]) = SubSeq(s, 1, k)
        <4> DEFINE t == SubSeq(s, 1, k - 1)
                   u == SubSeq(s, 1, k)
        <4>1. /\ t \in Seq(Seq(Cell)) /\ Len(t) = k - 1 /\ u \in Seq(Seq(Cell)) /\ Len(u) = k
              /\ \A i \in 1 .. k - 1 : t[i] = s[i]
              /\ \A i \in 1 .. k : u[i] = s[i]
          BY <3>0
        <4> HIDE DEF t, u
        <4>2. /\ Append(t, s[k]) \in Seq(Seq(Cell)) /\ Len(Append(t, s[k])) = k
              /\ \A i \in 1 .. k : Append(t, s[k])[i] = u[i]
          <5>1. /\ Append(t, s[k]) \in Seq(Seq(Cell)) /\ Len(Append(t, s[k])) = Len(t) + 1
                /\ \A i \in 1 .. Len(t) : Append(t, s[k])[i] = t[i]
                /\ Append(t, s[k])[Len(t) + 1] = s[k]
            BY <3>1, <4>1, AppendFacts
          <5>2. \A i \in 1 .. k : i \in 1 .. k - 1 \/ i = k
            BY <3>0
          <5> QED
            <6>1. Len(Append(t, s[k])) = k /\ Len(t) + 1 = k
              BY <3>0, <4>1, <5>1
            <6>2. ASSUME NEW i \in 1 .. k PROVE Append(t, s[k])[i] = u[i]
              BY <3>0, <4>1, <5>1, <5>2, <6>1
            <6> QED
              BY <5>1, <6>1, <6>2
        <4>3. Append(t, s[k]) = u
          BY <4>1, <4>2, SameSeq
        <4> QED
          BY <4>1, <4>3 DEF t, u
      <3>3. IsJoined(SubSeq(s, 1, k), flat[k])
        BY <3>1, <3>2, JoinedAppend
      <3> QED
        BY <3>3
    <2>11. J \in SUBSET (1 .. N)
      OBVIOUS
    <2> HIDE DEF J
    <2>12. J = 1 .. N
      BY <1>0, <2>9, <2>10, <2>11, OneByOne
    <2>13. N \in 1 .. N /\ SubSeq(s, 1, N) = s
      BY <1>0, <1>2
    <2>14. IsJoined(SubSeq(s, 1, N), flat[N])
      BY <2>12, <2>13 DEF J
    <2> QED
      BY <2>7, <2>13, <2>14
  <1> QED
    BY <1>0, <1>1, <1>2

-----------------------------------------------------------------------------
(* What becomes of the lists of a pool when one of them changes, when one  *)
(* is begun and when one is freed.                                         *)

SameOn(m, m2, l) == \A j \in 1 .. Len(l) : m2[l[j]] = m[l[j]]
OnList(b, l) == \E j \in 1 .. Len(l) : l[j] = b
TailFull(m, l) == \A i \in 2 .. Len(l) : m[l[i]].buf # <<>>
Apart(k, l) == \A i \in 1 .. Len(k), j \in 1 .. Len(l) : k[i] # l[j]

(* Lists, said with the names above.                                       *)
LEMMA ListsAre ==
    ASSUME NEW m, NEW H, NEW L
    PROVE  Lists(m, H, L) <=>
             /\ \A h \in H : IsChain(m, h, L[h]) /\ TailFull(m, L[h])
             /\ \A h, g \in H : h # g => Apart(L[h], L[g])
             /\ \A b \in Buf : m[b].use <=> \E h \in H : OnList(b, L[h])
             /\ \A b \in Buf : ~m[b].use => m[b] = FreeBuf
  BY Zenon DEF Lists, TailFull, Apart, OnList

(* A list none of whose buffers changes stays.                             *)
LEMMA ChainStays ==
    ASSUME NEW m, NEW m2, NEW h, NEW l, IsChain(m, h, l), SameOn(m, m2, l)
    PROVE  /\ IsChain(m2, h, l)
           /\ TailFull(m, l) => TailFull(m2, l)
  <1>1. Len(l) \in Nat
    BY DEF IsChain
  <1>2. \A k \in 1 .. Len(l) : m2[l[k]] = m[l[k]]
    BY DEF SameOn
  <1>3. IsChain(m2, h, l)
    BY <1>2 DEF IsChain
  <1>4. 2 .. Len(l) \subseteq 1 .. Len(l)
    BY <1>1
  <1>5. ASSUME TailFull(m, l) PROVE TailFull(m2, l)
    BY <1>2, <1>4, <1>5 DEF TailFull
  <1> QED
    BY <1>3, <1>5

(* The list of h becomes l2, on which are buffers of h and free ones.      *)
Becomes(m, m2, l, l2) ==
    /\ \A b \in Buf : OnList(b, l2) => OnList(b, l) \/ ~m[b].use
    /\ \A b \in Buf : ~OnList(b, l) /\ ~OnList(b, l2) => m2[b] = m[b]
    /\ \A b \in Buf : OnList(b, l2) => m2[b].use
    /\ \A b \in Buf : OnList(b, l) /\ ~OnList(b, l2) => m2[b] = FreeBuf

(* The other lists stay.                                                   *)
LEMMA OneListChanges ==
    ASSUME NEW m, NEW m2, NEW H \in SUBSET Buf, NEW L, Lists(m, H, L), NEW h \in H, NEW l2,
           IsChain(m2, h, l2), TailFull(m2, l2), Becomes(m, m2, L[h], l2)
    PROVE  /\ Lists(m2, H, [g \in H |-> IF g = h THEN l2 ELSE L[g]])
           /\ \A g \in H : g # h => SameOn(m, m2, L[g])
  <1> DEFINE K == [g \in H |-> IF g = h THEN l2 ELSE L[g]]
  <1>1. \A g \in H : K[g] = IF g = h THEN l2 ELSE L[g]
    OBVIOUS
  <1> HIDE DEF K
  <1>2. /\ \A g \in H : IsChain(m, g, L[g]) /\ TailFull(m, L[g])
        /\ \A f, g \in H : f # g => Apart(L[f], L[g])
        /\ \A b \in Buf : m[b].use <=> \E g \in H : OnList(b, L[g])
        /\ \A b \in Buf : ~m[b].use => m[b] = FreeBuf
    BY ListsAre
  <1>3. /\ \A g \in H : \A j \in 1 .. Len(L[g]) : L[g][j] \in Buf
        /\ \A j \in 1 .. Len(l2) : l2[j] \in Buf
    BY <1>2 DEF IsChain
  <1>4. ASSUME NEW g \in H, g # h, NEW b \in Buf, OnList(b, L[g]) PROVE ~OnList(b, L[h]) /\ ~OnList(b, l2)
    <2>1. m[b].use
      BY <1>2, <1>4
    <2>2. ~OnList(b, L[h])
      BY <1>2, <1>4 DEF OnList, Apart
    <2> QED
      BY <2>1, <2>2 DEF Becomes
  <1>5. ASSUME NEW g \in H, g # h PROVE SameOn(m, m2, L[g])
    <2> SUFFICES ASSUME NEW j \in 1 .. Len(L[g]) PROVE m2[L[g][j]] = m[L[g][j]]
      BY DEF SameOn
    <2>1. L[g][j] \in Buf /\ OnList(L[g][j], L[g])
      BY <1>3 DEF OnList
    <2> QED
      BY <1>4, <1>5, <2>1 DEF Becomes
  <1>6. ASSUME NEW g \in H PROVE IsChain(m2, g, K[g]) /\ TailFull(m2, K[g])
    BY <1>1, <1>2, <1>5, ChainStays
  <1>7. ASSUME NEW f \in H, NEW g \in H, f # g PROVE Apart(K[f], K[g])
    <2>1. CASE f # h /\ g # h
      BY <1>1, <1>2, <1>7, <2>1
    <2>2. CASE f = h
      <3>1. K[f] = l2 /\ K[g] = L[g] /\ g # h
        BY <1>1, <1>7, <2>2
      <3>2. ASSUME NEW i \in 1 .. Len(l2), NEW j \in 1 .. Len(L[g]) PROVE l2[i] # L[g][j]
        <4>1. L[g][j] \in Buf /\ OnList(L[g][j], L[g])
          BY <1>3 DEF OnList
        <4>2. ~OnList(L[g][j], l2)
          BY <1>4, <3>1, <4>1
        <4> QED
          BY <4>2 DEF OnList
      <3> QED
        BY <3>1, <3>2 DEF Apart
    <2>3. CASE g = h
      <3>1. K[g] = l2 /\ K[f] = L[f] /\ f # h
        BY <1>1, <1>7, <2>3
      <3>2. ASSUME NEW i \in 1 .. Len(L[f]), NEW j \in 1 .. Len(l2) PROVE L[f][i] # l2[j]
        <4>1. L[f][i] \in Buf /\ OnList(L[f][i], L[f])
          BY <1>3 DEF OnList
        <4>2. ~OnList(L[f][i], l2)
          BY <1>4, <3>1, <4>1
        <4> QED
          BY <4>2 DEF OnList
      <3> QED
        BY <3>1, <3>2 DEF Apart
    <2> QED
      BY <2>1, <2>2, <2>3
  <1>8. ASSUME NEW b \in Buf PROVE m2[b].use <=> \E g \in H : OnList(b, K[g])
    <2>1. CASE OnList(b, l2)
      BY <1>1, <2>1 DEF Becomes
    <2>2. CASE OnList(b, L[h]) /\ ~OnList(b, l2)
      <3>1. m2[b] = FreeBuf /\ ~FreeBuf.use
        BY <2>2 DEF Becomes, FreeBuf
      <3>2. \A g \in H : ~OnList(b, K[g])
        BY <1>1, <1>4, <2>2
      <3> QED
        BY <3>1, <3>2
    <2>3. CASE ~OnList(b, L[h]) /\ ~OnList(b, l2)
      <3>1. m2[b] = m[b]
        BY <2>3 DEF Becomes
      <3>2. ASSUME NEW g \in H PROVE OnList(b, K[g]) <=> OnList(b, L[g])
        BY <1>1, <2>3
      <3> QED
        BY <1>2, <3>1, <3>2
    <2> QED
      BY <2>1, <2>2, <2>3
  <1>9. ASSUME NEW b \in Buf, ~m2[b].use PROVE m2[b] = FreeBuf
    <2>1. ~OnList(b, l2)
      BY <1>9 DEF Becomes
    <2>2. CASE OnList(b, L[h])
      BY <2>1, <2>2 DEF Becomes
    <2>3. CASE ~OnList(b, L[h])
      <3>1. m2[b] = m[b]
        BY <2>1, <2>3 DEF Becomes
      <3> QED
        BY <1>2, <1>9, <3>1
    <2> QED
      BY <2>2, <2>3
  <1>10. Lists(m2, H, K)
    BY <1>6, <1>7, <1>8, <1>9, ListsAre
  <1> QED
    BY <1>5, <1>10 DEF K

(* A list begins at a buffer that was free.                                *)
NewHead == [use |-> TRUE, buf |-> <<>>, next |-> None]

LEMMA NewHeadIs == [FreeBuf EXCEPT !.use = TRUE] = NewHead
  <1> DEFINE a == FreeBuf
             b == [a EXCEPT !.use = TRUE]
             R == [use : BOOLEAN, buf : {<<>>}, next : {None}]
  <1>1. a.use = FALSE /\ a.buf = <<>> /\ a.next = None /\ a \in R
    BY DEF FreeBuf
  <1> HIDE DEF a
  <1>2. b.use = TRUE /\ b.buf = <<>> /\ b.next = None /\ b \in R
    BY <1>1
  <1> HIDE DEF b
  <1>3. b = NewHead
    BY <1>2 DEF NewHead
  <1> QED
    BY <1>3 DEF a, b

WithList(L, H, h, K) == K[h] = <<h>> /\ \A g \in H : K[g] = L[g]

(* The other lists stay, and the new one shares nothing with them.         *)
LEMMA ListBegins ==
    ASSUME NEW m \in Mem, NEW m2, NEW H \in SUBSET Buf, NEW L, Lists(m, H, L), NEW h \in Buf, ~m[h].use,
           m2 = [m EXCEPT ![h] = NewHead],
           NEW K, WithList(L, H, h, K)
    PROVE  /\ h \notin H
           /\ Lists(m2, H \union {h}, K)
           /\ \A g \in H : SameOn(m, m2, L[g])
           /\ m2[h] = NewHead
  <1> DEFINE G == H \union {h}
  <1>0. NewHead.use /\ NewHead.next = None /\ NewHead.buf = <<>> /\ NewHead \in BufRec
    <2>1. <<>> \in Seq(Cell)
      OBVIOUS
    <2> QED
      BY <2>1 DEF BufRec, NewHead
  <1> HIDE DEF NewHead
  <1>1. \A b \in Buf : m2[b] = IF b = h THEN NewHead ELSE m[b]
    BY DEF Mem
  <1>2. /\ \A g \in H : IsChain(m, g, L[g]) /\ TailFull(m, L[g])
        /\ \A f, g \in H : f # g => Apart(L[f], L[g])
        /\ \A b \in Buf : m[b].use <=> \E g \in H : OnList(b, L[g])
        /\ \A b \in Buf : ~m[b].use => m[b] = FreeBuf
    BY ListsAre
  <1>3. ASSUME NEW g \in H
        PROVE  /\ \A j \in 1 .. Len(L[g]) : L[g][j] \in Buf /\ OnList(L[g][j], L[g]) /\ L[g][j] # h
               /\ OnList(g, L[g]) /\ g # h
    <2>0. \A j \in 1 .. Len(L[g]) : L[g][j] \in Buf
      BY <1>2 DEF IsChain
    <2>1. \A j \in 1 .. Len(L[g]) : L[g][j] \in Buf /\ OnList(L[g][j], L[g])
      BY <2>0 DEF OnList
    <2>2. ~OnList(h, L[g])
      BY <1>2
    <2>3. OnList(g, L[g])
      <3>1. Len(L[g]) \in Nat /\ Len(L[g]) >= 1 /\ L[g][1] = g
        BY <1>2 DEF IsChain
      <3>2. 1 \in 1 .. Len(L[g])
        BY <3>1
      <3> QED
        BY <3>1, <3>2 DEF OnList
    <2> QED
      BY <2>1, <2>2, <2>3
  <1>4. h \notin H
    BY <1>3
  <1>5. /\ K[h] = <<h>> /\ \A g \in H : K[g] = L[g]
        /\ G \in SUBSET Buf
    BY <1>4 DEF WithList
  <1>6. ASSUME NEW g \in H PROVE SameOn(m, m2, L[g])
    BY <1>1, <1>3 DEF SameOn
  <1>7. IsChain(m2, h, <<h>>) /\ TailFull(m2, <<h>>) /\ \A b \in Buf : OnList(b, <<h>>) <=> b = h
    <2>1. <<h>> \in Seq(Buf) /\ Len(<<h>>) = 1 /\ <<h>>[1] = h
      OBVIOUS
    <2>2. IsChain(m2, h, <<h>>)
      BY <1>0, <1>1, <2>1 DEF IsChain
    <2>3. TailFull(m2, <<h>>)
      BY <2>1 DEF TailFull
    <2>4. \A b \in Buf : OnList(b, <<h>>) <=> b = h
      BY <2>1 DEF OnList
    <2> QED
      BY <2>2, <2>3, <2>4
  <1>8. ASSUME NEW g \in G PROVE IsChain(m2, g, K[g]) /\ TailFull(m2, K[g])
    BY <1>2, <1>5, <1>6, <1>7, ChainStays
  <1>9. ASSUME NEW f \in G, NEW g \in G, f # g PROVE Apart(K[f], K[g])
    <2>1. CASE f \in H /\ g \in H
      BY <1>2, <1>5, <1>9, <2>1
    <2>2. CASE f = h
      <3>1. g \in H /\ K[f] = <<h>> /\ K[g] = L[g]
        BY <1>5, <1>9, <2>2
      <3> QED
        BY <1>3, <3>1 DEF Apart
    <2>3. CASE g = h
      <3>1. f \in H /\ K[g] = <<h>> /\ K[f] = L[f]
        BY <1>5, <1>9, <2>3
      <3> QED
        BY <1>3, <3>1 DEF Apart
    <2> QED
      BY <2>1, <2>2, <2>3
  <1>10. ASSUME NEW b \in Buf PROVE m2[b].use <=> \E g \in G : OnList(b, K[g])
    <2>1. CASE b = h
      BY <1>0, <1>1, <1>5, <1>7, <2>1
    <2>2. CASE b # h
      <3>1. ASSUME NEW g \in G PROVE OnList(b, K[g]) <=> g \in H /\ OnList(b, L[g])
        BY <1>4, <1>5, <1>7, <2>2
      <3> QED
        BY <1>1, <1>2, <2>2, <3>1
    <2> QED
      BY <2>1, <2>2
  <1>11. ASSUME NEW b \in Buf, ~m2[b].use PROVE m2[b] = FreeBuf
    BY <1>0, <1>1, <1>2, <1>11
  <1>12. Lists(m2, G, K)
    BY <1>8, <1>9, <1>10, <1>11, ListsAre
  <1>13. m2[h] = NewHead
    BY <1>1
  <1> QED
    BY <1>4, <1>6, <1>12, <1>13

(* The buffers of a list become free.                                      *)
Freed(m, l) == [b \in Buf |-> IF OnList(b, l) THEN FreeBuf ELSE m[b]]

(* The other lists stay, and what was on this one is free.                 *)
LEMMA ListEnds ==
    ASSUME NEW m \in Mem, NEW m2, NEW H \in SUBSET Buf, NEW L, Lists(m, H, L), NEW h \in H,
           m2 = Freed(m, L[h])
    PROVE  /\ Lists(m2, H \ {h}, L)
           /\ \A g \in H \ {h} : SameOn(m, m2, L[g])
           /\ \A b \in Buf : m2[b].use <=> m[b].use /\ ~OnList(b, L[h])
  <1> DEFINE G == H \ {h}
  <1>0. ~FreeBuf.use
    BY DEF FreeBuf
  <1>1. \A b \in Buf : m2[b] = IF OnList(b, L[h]) THEN FreeBuf ELSE m[b]
    BY DEF Freed
  <1>2. /\ \A g \in H : IsChain(m, g, L[g]) /\ TailFull(m, L[g])
        /\ \A f, g \in H : f # g => Apart(L[f], L[g])
        /\ \A b \in Buf : m[b].use <=> \E g \in H : OnList(b, L[g])
        /\ \A b \in Buf : ~m[b].use => m[b] = FreeBuf
    BY ListsAre
  <1>3. ASSUME NEW g \in H PROVE \A j \in 1 .. Len(L[g]) : L[g][j] \in Buf
    BY <1>2 DEF IsChain
  <1>4. ASSUME NEW g \in G, NEW b \in Buf, OnList(b, L[g]) PROVE ~OnList(b, L[h])
    BY <1>2, <1>4 DEF Apart, OnList
  <1>5. ASSUME NEW g \in G PROVE SameOn(m, m2, L[g])
    <2> SUFFICES ASSUME NEW j \in 1 .. Len(L[g]) PROVE m2[L[g][j]] = m[L[g][j]]
      BY DEF SameOn
    <2>1. L[g][j] \in Buf /\ OnList(L[g][j], L[g])
      BY <1>3 DEF OnList
    <2> QED
      BY <1>1, <1>4, <2>1
  <1>6. ASSUME NEW g \in G PROVE IsChain(m2, g, L[g]) /\ TailFull(m2, L[g])
    BY <1>2, <1>5, ChainStays
  <1>7. ASSUME NEW b \in Buf PROVE m2[b].use <=> m[b].use /\ ~OnList(b, L[h])
    BY <1>0, <1>1
  <1>8. ASSUME NEW b \in Buf PROVE m2[b].use <=> \E g \in G : OnList(b, L[g])
    BY <1>2, <1>4, <1>7
  <1>9. ASSUME NEW b \in Buf, ~m2[b].use PROVE m2[b] = FreeBuf
    BY <1>1, <1>2, <1>9
  <1>10. \A f, g \in G : f # g => Apart(L[f], L[g])
    BY <1>2
  <1>11. Lists(m2, G, L)
    BY <1>6, <1>8, <1>9, <1>10, ListsAre
  <1> QED
    BY <1>5, <1>7, <1>11

(* A list has as many buffers as it is long.                               *)
LEMMA ListSize ==
    ASSUME NEW m, NEW h, NEW l, IsChain(m, h, l)
    PROVE  /\ IsFiniteSet({b \in Buf : OnList(b, l)})
           /\ Cardinality({b \in Buf : OnList(b, l)}) = Len(l)
  <1> DEFINE N == Len(l)
             S == {b \in Buf : OnList(b, l)}
             f == [i \in 1 .. N |-> l[i]]
  <1>1. N \in Nat /\ (\A i \in 1 .. N : l[i] \in Buf) /\ \A i, j \in 1 .. N : l[i] = l[j] => i = j
    BY DEF IsChain
  <1>2. IsFiniteSet(1 .. N) /\ Cardinality(1 .. N) = N
    BY <1>1, CountTo
  <1>3. f \in [1 .. N -> S]
    BY <1>1 DEF OnList
  <1>4. \A i, j \in 1 .. N : f[i] = f[j] => i = j
    BY <1>1
  <1>5. \A b \in S : \E i \in 1 .. N : f[i] = b
    BY DEF OnList
  <1> HIDE DEF f, S, N
  <1>6. IsFiniteSet(S) /\ Cardinality(S) = Cardinality(1 .. N)
    BY <1>2, <1>3, <1>4, <1>5, SameSize
  <1> QED
    BY <1>2, <1>6 DEF S, N

-----------------------------------------------------------------------------
(* What the buffers of a list hold                                         *)

Bufs(m, l) == [k \in DOMAIN l |-> m[l[k]].buf]
TextIn(m, top) == FlattenSeq(Bufs(m, ListIn(m, top)))

LEMMA ContentsAre == \A l : Contents(l) = FlattenSeq(Bufs(mb, l))
  BY DEF Contents, Bufs

LEMMA BufsTyped ==
    ASSUME NEW m \in Mem, NEW l \in Seq(Buf)
    PROVE  /\ Bufs(m, l) \in Seq(Seq(Cell)) /\ Len(Bufs(m, l)) = Len(l)
           /\ \A k \in 1 .. Len(l) : Bufs(m, l)[k] = m[l[k]].buf /\ m[l[k]].buf \in Seq(Cell)
  <1>1. Len(l) \in Nat /\ DOMAIN l = 1 .. Len(l) /\ \A k \in 1 .. Len(l) : l[k] \in Buf
    OBVIOUS
  <1>2. \A k \in 1 .. Len(l) : m[l[k]].buf \in Seq(Cell)
    BY <1>1 DEF Mem, BufRec
  <1>3. Bufs(m, l) = [k \in 1 .. Len(l) |-> m[l[k]].buf]
    BY <1>1 DEF Bufs
  <1>4. Bufs(m, l) \in Seq(Seq(Cell)) /\ Len(Bufs(m, l)) = Len(l)
    BY <1>1, <1>2, <1>3
  <1> QED
    BY <1>2, <1>3, <1>4

(* The text of a list joins what its buffers hold, and is the only one.    *)
LEMMA TextOf ==
    ASSUME NEW m \in Mem, NEW h \in Buf, NEW l, IsChain(m, h, l)
    PROVE  IsJoined(Bufs(m, l), TextIn(m, h))
  <1>1. ListIn(m, h) = l /\ l \in Seq(Buf)
    BY ChainIsList DEF IsChain
  <1>2. Bufs(m, l) \in Seq(Seq(Cell))
    BY <1>1, BufsTyped
  <1> QED
    BY <1>1, <1>2, FlattenJoins DEF TextIn

LEMMA TextThen ==
    ASSUME NEW m \in Mem, NEW h \in Buf, NEW l, IsChain(m, h, l), NEW T \in Seq(Cell),
           NEW off, Joined(Bufs(m, l), off, T)
    PROVE  TextIn(m, h) = T
  <1>1. l \in Seq(Buf) /\ Bufs(m, l) \in Seq(Seq(Cell))
    BY BufsTyped DEF IsChain
  <1>2. IsJoined(Bufs(m, l), TextIn(m, h))
    BY TextOf
  <1>3. PICK off2 : Joined(Bufs(m, l), off2, TextIn(m, h))
    BY <1>2 DEF IsJoined
  <1>4. TextIn(m, h) \in Seq(Cell)
    BY <1>2 DEF IsJoined
  <1> QED
    BY <1>1, <1>3, <1>4, JoinedOnce

(* The text stays when no buffer of the list changes.                      *)
LEMMA TextStays ==
    ASSUME NEW m \in Mem, NEW m2 \in Mem, NEW h \in Buf, NEW l, IsChain(m, h, l), SameOn(m, m2, l)
    PROVE  TextIn(m2, h) = TextIn(m, h)
  <1>1. IsChain(m2, h, l)
    BY ChainStays
  <1>2. ListIn(m, h) = l /\ ListIn(m2, h) = l
    BY <1>1, ChainIsList
  <1>3. l \in Seq(Buf) /\ DOMAIN l = 1 .. Len(l)
    BY DEF IsChain
  <1>4. Bufs(m2, l) = Bufs(m, l)
    BY <1>3 DEF Bufs, SameOn
  <1> QED
    BY <1>2, <1>4 DEF TextIn

(* What comes before the k-th buffer of a list.                            *)
LEMMA BeforeIs ==
    ASSUME NEW m \in Mem, NEW l \in Seq(Buf), NEW off, NEW T, Joined(Bufs(m, l), off, T),
           NEW k \in 1 .. Len(l)
    PROVE  Len(FlattenSeq(Bufs(m, SubSeq(l, 1, k - 1)))) = off[k - 1]
  <1> DEFINE l1 == SubSeq(l, 1, k - 1)
             s == Bufs(m, l)
             t == Bufs(m, l1)
  <1>1. l1 \in Seq(Buf) /\ Len(l1) = k - 1 /\ \A i \in 1 .. k - 1 : l1[i] = l[i]
    OBVIOUS
  <1>2. k - 1 \in Nat /\ k - 1 <= Len(l) /\ 1 .. k - 1 \subseteq 1 .. Len(l) /\ k - 1 \in 0 .. k - 1
    OBVIOUS
  <1> HIDE DEF l1
  <1>3. /\ s \in Seq(Seq(Cell)) /\ Len(s) = Len(l) /\ \A i \in 1 .. Len(l) : s[i] = m[l[i]].buf
        /\ t \in Seq(Seq(Cell)) /\ Len(t) = k - 1 /\ \A i \in 1 .. k - 1 : t[i] = m[l1[i]].buf
    BY <1>1, BufsTyped
  <1> HIDE DEF s, t
  <1>4. Begins(t, s)
    BY <1>1, <1>2, <1>3 DEF Begins
  <1>5. Offsets(s, off)
    BY DEF Joined, s
  <1>6. IsJoined(t, FlattenSeq(t))
    BY <1>3, FlattenJoins
  <1>7. PICK offt : Joined(t, offt, FlattenSeq(t))
    BY <1>6 DEF IsJoined
  <1>8. Offsets(t, offt) /\ Len(FlattenSeq(t)) = offt[Len(t)]
    BY <1>7 DEF Joined
  <1>9. \A i \in 0 .. Len(t) : offt[i] = off[i]
    BY <1>3, <1>4, <1>5, <1>8, OffsetsAgree
  <1>10. Len(FlattenSeq(t)) = off[k - 1]
    BY <1>2, <1>3, <1>8, <1>9
  <1> QED
    BY <1>10 DEF t, l1

-----------------------------------------------------------------------------
(* Cells leave a list                                                      *)

Rest(d, r) == SubSeq(d, 1 + (IF r > 0 THEN r ELSE 0), Len(d))

RestIs(d, r, e) ==
    /\ e \in Seq(Cell) /\ (e = <<>> <=> Len(e) = 0)
    /\ r <= 0 => Len(e) = Len(d)
    /\ r > 0 /\ r <= Len(d) => Len(e) = Len(d) - r
    /\ r > 0 /\ r > Len(d) => Len(e) = 0
    /\ \A i \in 1 .. Len(e) : (r <= 0 => e[i] = d[i]) /\ (r > 0 => e[i] = d[r + i])

LEMMA RestFacts == ASSUME NEW d \in Seq(Cell), NEW r \in Int PROVE RestIs(d, r, Rest(d, r))
  <1>0. Len(d) \in Nat
    OBVIOUS
  <1>1. CASE r <= 0
    <2>1. Rest(d, r) = SubSeq(d, 1, Len(d))
      BY <1>1 DEF Rest
    <2>2. Rest(d, r) = d
      BY <2>1
    <2> QED
      BY <1>0, <1>1, <2>2 DEF RestIs
  <1>2. CASE r > 0 /\ r <= Len(d)
    <2> DEFINE e == Rest(d, r)
    <2>1. e = SubSeq(d, 1 + r, Len(d))
      BY <1>2 DEF Rest
    <2>2. 1 + r \in 1 .. Len(d) + 1 /\ Len(d) \in 0 .. Len(d) /\ 1 + r <= Len(d) + 1
      BY <1>0, <1>2
    <2>3. /\ e \in Seq(Cell) /\ Len(e) = Len(d) - (1 + r) + 1
          /\ \A i \in 1 .. Len(d) - (1 + r) + 1 : e[i] = d[1 + r + i - 1]
      BY <2>1, <2>2, SubSeqFacts
    <2> HIDE DEF e
    <2>4. Len(e) = Len(d) - r
      BY <1>0, <2>3
    <2>5. ASSUME NEW i \in 1 .. Len(e) PROVE e[i] = d[r + i]
      <3>1. i \in 1 .. Len(d) - (1 + r) + 1 /\ 1 + r + i - 1 = r + i
        BY <1>0, <2>4
      <3> QED
        BY <2>3, <3>1
    <2>6. e = <<>> <=> Len(e) = 0
      BY <2>3
    <2> QED
      BY <1>0, <1>2, <2>3, <2>4, <2>5, <2>6 DEF RestIs, e
  <1>3. CASE r > Len(d)
    <2>1. Rest(d, r) = SubSeq(d, 1 + r, Len(d)) /\ r > 0
      BY <1>0, <1>3 DEF Rest
    <2>2. Rest(d, r) = <<>>
      BY <1>0, <1>3, <2>1
    <2>3. <<>> \in Seq(Cell) /\ Len(<<>>) = 0
      OBVIOUS
    <2> QED
      BY <1>0, <1>3, <2>1, <2>2, <2>3 DEF RestIs
  <1> QED
    BY <1>0, <1>1, <1>2, <1>3

(* What the first n cells leave of the k-th piece.                         *)
Left(x, n) == IF x > n THEN x - n ELSE 0

LEMMA LeftIs ==
    ASSUME NEW x \in Nat, NEW n \in Nat
    PROVE  Left(x, n) \in Nat /\ (x > n => Left(x, n) = x - n) /\ (x <= n => Left(x, n) = 0)
  BY DEF Left

PieceLeft(s, off, T, n, k) ==
    LET e == Rest(s[k], n - off[k - 1])
    IN  /\ e \in Seq(Cell)
        /\ Left(off[k], n) = Left(off[k - 1], n) + Len(e)
        /\ \A i \in 1 .. Len(e) : /\ T[n + (Left(off[k - 1], n) + i)] = e[i]
                                  /\ Left(off[k - 1], n) + i \in 1 .. Len(T) - n

(* What is left of a piece is found in the text, n cells further on.       *)
LEMMA WhatPieceLeft ==
    ASSUME NEW s \in Seq(Seq(Cell)), NEW off, NEW T \in Seq(Cell), Joined(s, off, T),
           NEW n \in 0 .. Len(T), NEW k \in 1 .. Len(s)
    PROVE  PieceLeft(s, off, T, n, k)
  <1> DEFINE a == off[k - 1]
             z == off[k]
             d == s[k]
             e == Rest(d, n - a)
             t == Len(T)
             c == Len(d)
             x == Left(a, n)
  <1>0. Len(s) \in Nat /\ k - 1 \in 0 .. Len(s) /\ k \in 0 .. Len(s) /\ Len(s) \in 0 .. Len(s) /\ k <= Len(s)
    OBVIOUS
  <1>1. Offsets(s, off) /\ t = off[Len(s)] /\ \A i \in 1 .. Len(s[k]) : T[off[k - 1] + i] = s[k][i]
    BY DEF Joined
  <1>2. off \in [0 .. Len(s) -> Nat] /\ off[k] = off[k - 1] + Len(s[k])
    BY <1>1 DEF Offsets
  <1>3. z <= t
    BY <1>0, <1>1, OffsetsGrow
  <1>4. a \in Nat /\ z \in Nat /\ z = a + c
    BY <1>0, <1>2
  <1>5. d \in Seq(Cell) /\ c \in Nat
    OBVIOUS
  <1>6. t \in Nat /\ n \in Nat /\ n <= t
    OBVIOUS
  <1>7. \A i \in 1 .. c : T[a + i] = d[i]
    BY <1>1
  <1>8. RestIs(d, n - a, e)
    <2>1. n - a \in Int
      BY <1>4, <1>6
    <2> HIDE DEF d, a
    <2> QED
      BY <1>5, <2>1, RestFacts
  <1>9. e \in Seq(Cell) /\ Len(e) \in Nat
    <2> HIDE DEF e
    <2> QED
      BY <1>8 DEF RestIs
  <1>10. PICK u \in Nat : u = Len(e)
    BY <1>9
  <1>11. x \in Nat /\ (a > n => x = a - n) /\ (a <= n => x = 0)
    BY <1>4, <1>6, LeftIs
  <1>12. Left(z, n) \in Nat /\ (z > n => Left(z, n) = z - n) /\ (z <= n => Left(z, n) = 0)
    BY <1>4, <1>6, LeftIs
  <1>13. PICK y \in Nat : y = Left(z, n)
    BY <1>12
  <1> HIDE DEF a, z, d, e, t, c, x
  <1>14. /\ n - a <= 0 => u = c
         /\ n - a > 0 /\ n - a <= c => u = c - (n - a)
         /\ n - a > 0 /\ n - a > c => u = 0
         /\ \A i \in 1 .. u : (n - a <= 0 => e[i] = d[i]) /\ (n - a > 0 => e[i] = d[(n - a) + i])
    BY <1>8, <1>10 DEF RestIs, c
  <1>15. y = x + u
    <2>1. CASE n <= a
      <3>1. n - a <= 0 /\ a - n \in Nat /\ a + c >= n
        BY <1>4, <1>5, <1>6, <2>1
      <3>2. u = c
        BY <1>14, <3>1
      <3>3. x = a - n
        BY <1>4, <1>6, <1>11, <2>1
      <3>4. y = (a + c) - n
        BY <1>4, <1>5, <1>6, <1>12, <1>13, <3>1
      <3> QED
        BY <1>4, <1>5, <1>6, <3>2, <3>3, <3>4
    <2>2. CASE a < n /\ n <= a + c
      <3>0. n - a > 0 /\ n - a <= c /\ a <= n
        BY <1>4, <1>5, <1>6, <2>2
      <3>1. u = c - (n - a) /\ x = 0
        BY <1>11, <1>14, <3>0
      <3>2. y = (a + c) - n
        BY <1>4, <1>5, <1>6, <1>12, <1>13, <2>2
      <3> QED
        BY <1>4, <1>5, <1>6, <3>1, <3>2
    <2>3. CASE a + c < n
      <3>0. n - a > 0 /\ n - a > c /\ a <= n
        BY <1>4, <1>5, <1>6, <2>3
      <3>1. u = 0 /\ x = 0
        BY <1>11, <1>14, <3>0
      <3>2. y = 0
        BY <1>4, <1>5, <1>6, <1>12, <1>13, <2>3
      <3> QED
        BY <3>1, <3>2
    <2> QED
      BY <1>4, <1>5, <1>6, <2>1, <2>2, <2>3
  <1>16. ASSUME NEW i \in 1 .. u PROVE T[n + (x + i)] = e[i] /\ x + i \in 1 .. t - n
    <2>1. x + i \in 1 .. t - n
      BY <1>3, <1>4, <1>5, <1>6, <1>11, <1>12, <1>13, <1>14, <1>15
    <2>2. CASE n - a <= 0
      <3>1. i \in 1 .. c /\ n + (x + i) = a + i
        BY <1>4, <1>5, <1>6, <1>11, <1>14, <2>2
      <3> QED
        BY <1>7, <1>14, <2>1, <2>2, <3>1
    <2>3. CASE n - a > 0
      <3>1. (n - a) + i \in 1 .. c /\ n + (x + i) = a + ((n - a) + i)
        <4>1. x = 0 /\ n - a <= c /\ u = c - (n - a)
          BY <1>4, <1>5, <1>6, <1>11, <1>14, <2>3
        <4> QED
          BY <1>4, <1>5, <1>6, <2>3, <4>1
      <3>2. T[a + ((n - a) + i)] = d[(n - a) + i]
        BY <1>7, <3>1
      <3> QED
        BY <1>14, <2>1, <2>3, <3>1, <3>2
    <2> QED
      BY <1>4, <1>6, <2>2, <2>3
  <1> QED
    BY <1>9, <1>10, <1>13, <1>15, <1>16 DEF PieceLeft, a, z, d, e, t, x

(* What is left of pieces of which the first M, but for what the first may *)
(* still have, are used up.                                                *)
LeftOf(s, off, n, M, s2) ==
    /\ Len(s2) = Len(s) - M + 1
    /\ s2[1] = Rest(s[1], n)
    /\ \A j \in 2 .. Len(s2) : s2[j] = Rest(s[j + M - 1], n - off[j + M - 2])
UsedUp(s, off, n, M) ==
    /\ M = 1 \/ off[M] <= n
    /\ \A k \in M + 1 .. Len(s) : off[k] > n

(* What is left of the pieces joins to the text without its first n cells. *)
LEMMA WhatIsLeft ==
    ASSUME NEW s \in Seq(Seq(Cell)), NEW off, NEW T \in Seq(Cell), Joined(s, off, T),
           NEW n \in 0 .. Len(T), NEW M \in 1 .. Len(s), UsedUp(s, off, n, M),
           NEW s2 \in Seq(Seq(Cell)), LeftOf(s, off, n, M, s2)
    PROVE  \E off2 : Joined(s2, off2, SubSeq(T, n + 1, Len(T)))
  <1> DEFINE N == Len(s)
             Q == N - M + 1
             t == Len(T)
             T2 == SubSeq(T, n + 1, Len(T))
             off2 == [j \in 0 .. Q |-> IF j = 0 THEN 0 ELSE Left(off[j + M - 1], n)]
  <1>0. N \in Nat /\ M \in 1 .. N
    OBVIOUS
  <1>01. t \in Nat /\ n \in Nat /\ n <= t
    OBVIOUS
  <1>1. Offsets(s, off) /\ t = off[N]
    BY DEF Joined
  <1>2. off \in [0 .. N -> Nat] /\ off[0] = 0
    BY <1>1 DEF Offsets
  <1>3. /\ Len(s2) = Q /\ s2[1] = Rest(s[1], n)
        /\ \A j \in 2 .. Q : s2[j] = Rest(s[j + M - 1], n - off[j + M - 2])
    BY DEF LeftOf
  <1>4. M = 1 \/ off[M] <= n
    BY DEF UsedUp
  <1>5. Q \in Nat /\ Q >= 1 /\ Q + M - 1 = N
    <2> HIDE DEF N
    <2> QED
      BY <1>0
  <1>6. /\ T2 \in Seq(Cell) /\ Len(T2) = t - n
        /\ \A i \in 1 .. t - n : T2[i] = T[n + i]
    <2>1. n + 1 \in 1 .. t + 1 /\ t \in 0 .. t /\ n + 1 <= t + 1
      BY <1>01
    <2>2. /\ T2 \in Seq(Cell) /\ Len(T2) = t - (n + 1) + 1
          /\ \A i \in 1 .. t - (n + 1) + 1 : T2[i] = T[n + 1 + i - 1]
      BY <2>1, SubSeqFacts
    <2>3. t - (n + 1) + 1 = t - n /\ \A i \in 1 .. t - n : n + 1 + i - 1 = n + i
      BY <1>01
    <2> HIDE DEF T2, t
    <2> QED
      BY <2>2, <2>3
  <1>7. \A k \in 1 .. N : PieceLeft(s, off, T, n, k)
    BY WhatPieceLeft
  <1> HIDE DEF t, T2, Q, N
  <1>8. /\ \A j \in 1 .. Q : j + M - 1 \in 1 .. N /\ j + M - 1 \in 0 .. N
        /\ \A j \in 0 .. Q : j # 0 => j \in 1 .. Q
        /\ \A j \in 1 .. Q : j \in 0 .. Q /\ j # 0
        /\ 0 \in 0 .. Q
    BY <1>0, <1>5
  <1>9. \A j \in 0 .. N : Left(off[j], n) \in Nat
    <2> TAKE j \in 0 .. N
    <2>1. off[j] \in Nat
      BY <1>2
    <2> QED
      BY <1>01, <2>1, LeftIs
  <1>10. /\ off2 \in [0 .. Q -> Nat] /\ off2[0] = 0
         /\ \A j \in 1 .. Q : off2[j] = Left(off[j + M - 1], n)
    BY <1>8, <1>9
  <1> HIDE DEF off2
  <1>11. off2[Q] = t - n
    <2>1. Q \in 1 .. Q /\ Q + M - 1 = N
      BY <1>5
    <2>2. off2[Q] = Left(t, n)
      BY <1>1, <1>10, <2>1
    <2>3. n = t \/ n < t
      BY <1>01
    <2> QED
      BY <1>01, <2>2, <2>3, LeftIs
  <1>12. ASSUME NEW j \in 1 .. Q
         PROVE  /\ off2[j] = off2[j - 1] + Len(s2[j])
                /\ \A i \in 1 .. Len(s2[j]) : T2[off2[j - 1] + i] = s2[j][i]
    <2>1. CASE j = 1
      <3>1. off2[j - 1] = 0 /\ j + M - 1 = M /\ off2[j] = Left(off[M], n)
        BY <1>0, <1>10, <2>1
      <3>2. 1 \in 1 .. N /\ 1 - 1 = 0 /\ M \in 0 .. N /\ 1 \in 0 .. N /\ n - 0 = n
        BY <1>0, <1>01
      <3>3. PieceLeft(s, off, T, n, 1)
        BY <1>7, <3>2
      <3>4. Left(0, n) = 0
        BY <1>01, LeftIs
      <3>5. /\ s2[1] \in Seq(Cell)
            /\ Left(off[1], n) = Left(0, n) + Len(s2[1])
            /\ \A i \in 1 .. Len(s2[1]) : /\ T[n + (Left(0, n) + i)] = s2[1][i]
                                          /\ Left(0, n) + i \in 1 .. t - n
        BY <1>2, <1>3, <3>2, <3>3 DEF PieceLeft, t
      <3>6. PICK u \in Nat : u = Len(s2[1])
        BY <3>5
      <3>7. Left(off[1], n) = u
        BY <3>4, <3>5, <3>6
      <3>8. ASSUME NEW i \in 1 .. Len(s2[1]) PROVE T2[0 + i] = s2[1][i]
        <4>1. 0 + i = i
          BY <3>6
        <4> QED
          BY <1>6, <3>4, <3>5, <4>1
      <3>9. Left(off[M], n) = u
        <4>1. CASE M = 1
          BY <3>7, <4>1
        <4>2. CASE M # 1
          <5>1. off[M] <= n /\ off[M] \in Nat /\ off[1] \in Nat
            BY <1>2, <1>4, <3>2, <4>2
          <5>2. off[1] <= off[M]
            <6>1. 1 <= M
              BY <1>0
            <6> QED
              BY <1>1, <3>2, <6>1, OffsetsGrow DEF N
          <5>3. off[1] <= n
            BY <1>01, <5>1, <5>2
          <5> QED
            BY <1>01, <3>7, <5>1, <5>3, LeftIs
        <4> QED
          BY <4>1, <4>2
      <3>10. off2[j] = off2[j - 1] + Len(s2[1])
        BY <3>1, <3>6, <3>9
      <3> QED
        BY <2>1, <3>1, <3>8, <3>10
    <2>2. CASE j > 1
      <3> DEFINE k == j + M - 1
      <3>1. k \in 1 .. N /\ j - 1 \in 1 .. Q /\ j \in 2 .. Q /\ j + M - 2 = k - 1 /\ (j - 1) + M - 1 = k - 1
        BY <1>0, <1>5, <1>8, <2>2
      <3>2. off2[j] = Left(off[k], n)
        BY <1>10
      <3>3. s2[j] = Rest(s[k], n - off[k - 1])
        BY <1>3, <3>1
      <3> HIDE DEF k
      <3>4. off2[j - 1] = Left(off[k - 1], n)
        BY <1>10, <3>1
      <3>5. PieceLeft(s, off, T, n, k)
        BY <1>7, <3>1
      <3>6. /\ s2[j] \in Seq(Cell)
            /\ Left(off[k], n) = Left(off[k - 1], n) + Len(s2[j])
            /\ \A i \in 1 .. Len(s2[j]) : /\ T[n + (Left(off[k - 1], n) + i)] = s2[j][i]
                                          /\ Left(off[k - 1], n) + i \in 1 .. t - n
        BY <3>3, <3>5 DEF PieceLeft, t
      <3>7. \A i \in 1 .. Len(s2[j]) : T2[off2[j - 1] + i] = s2[j][i]
        BY <1>6, <3>4, <3>6
      <3> QED
        BY <3>2, <3>4, <3>6, <3>7
    <2>3. j = 1 \/ j > 1
      BY <1>5
    <2> QED
      BY <2>1, <2>2, <2>3
  <1>13. Joined(s2, off2, T2)
    <2>1. Offsets(s2, off2)
      BY <1>3, <1>10, <1>12 DEF Offsets
    <2>2. \A j \in 1 .. Len(s2) : \A i \in 1 .. Len(s2[j]) : T2[off2[j - 1] + i] = s2[j][i]
      BY <1>3, <1>12
    <2> QED
      BY <1>3, <1>6, <1>11, <2>1, <2>2 DEF Joined
  <1> QED
    BY <1>13 DEF T2

(* The model's Kept is what the first n cells leave of the piece.          *)
LEMMA KeptIs ==
    ASSUME mb \in Mem, NEW l \in Seq(Buf), NEW off, NEW T, Joined(Bufs(mb, l), off, T),
           NEW k \in 1 .. Len(l), NEW n
    PROVE  Kept(l, n, k) = Rest(mb[l[k]].buf, n - off[k - 1])
  <1>1. Contents(SubSeq(l, 1, k - 1)) = FlattenSeq(Bufs(mb, SubSeq(l, 1, k - 1)))
    BY ContentsAre
  <1>2. Len(Contents(SubSeq(l, 1, k - 1))) = off[k - 1]
    BY <1>1, BeforeIs
  <1> QED
    BY <1>2 DEF Kept, Rest

(* The buffers that are empty then follow the first.                       *)
LEMMA WhichGo ==
    ASSUME mb \in Mem, NEW l \in Seq(Buf), Len(l) >= 1, TailFull(mb, l),
           NEW off, NEW T \in Seq(Cell), Joined(Bufs(mb, l), off, T), NEW n \in 0 .. Len(T)
    PROVE  \E M \in 1 .. Len(l) : UsedUp(Bufs(mb, l), off, n, M) /\ Emptied(l, n) = 2 .. M
  <1> DEFINE N == Len(l)
             s == Bufs(mb, l)
             K == {k \in 2 .. N : off[k] > n}
  <1>0. N \in Nat /\ N >= 1 /\ n \in Nat
    OBVIOUS
  <1>1. s \in Seq(Seq(Cell)) /\ Len(s) = N /\ \A k \in 1 .. N : s[k] = mb[l[k]].buf /\ s[k] \in Seq(Cell)
    BY BufsTyped
  <1>2. Offsets(s, off)
    BY DEF Joined
  <1>3. /\ off \in [0 .. N -> Nat]
        /\ \A k \in 1 .. N : off[k] = off[k - 1] + Len(s[k])
    BY <1>1, <1>2 DEF Offsets
  <1>4. \A k \in 2 .. N : s[k] # <<>>
    <2>1. 2 .. N \subseteq 1 .. N
      BY <1>0
    <2> QED
      BY <1>1, <2>1 DEF TailFull
  <1>5. \A k \in 1 .. N : Kept(l, n, k) = Rest(s[k], n - off[k - 1])
    BY <1>1, KeptIs
  <1> HIDE DEF N, s
  <1>6. ASSUME NEW k \in 2 .. N PROVE Kept(l, n, k) = <<>> <=> off[k] <= n
    <2>0. k \in 1 .. N /\ k - 1 \in 0 .. N /\ k \in 0 .. N
      BY <1>0
    <2> DEFINE d == s[k]
               e == Kept(l, n, k)
               c == Len(d)
               a == off[k - 1]
    <2>1. d \in Seq(Cell) /\ d # <<>> /\ a \in Nat /\ off[k] = a + c /\ e = Rest(d, n - a)
      BY <1>1, <1>3, <1>4, <1>5, <2>0
    <2>2. c \in Nat /\ c # 0 /\ n - a \in Int
      <3> HIDE DEF d, a
      <3> QED
        BY <1>0, <2>1
    <2>3. RestIs(d, n - a, e)
      <3> HIDE DEF d, a, e
      <3> QED
        BY <2>1, <2>2, RestFacts
    <2>4. /\ e = <<>> <=> Len(e) = 0
          /\ n - a <= 0 => Len(e) = c
          /\ n - a > 0 /\ n - a <= c => Len(e) = c - (n - a)
          /\ n - a > 0 /\ n - a > c => Len(e) = 0
      BY <2>3 DEF RestIs
    <2> HIDE DEF d, e, c, a
    <2>5. CASE n - a <= 0
      <3>1. Len(e) # 0 /\ ~(a + c <= n)
        BY <1>0, <2>1, <2>2, <2>4, <2>5
      <3> QED
        BY <2>1, <2>4, <3>1 DEF e
    <2>6. CASE n - a > 0 /\ n - a <= c
      <3>1. Len(e) = c - (n - a)
        BY <2>4, <2>6
      <3>2. c - (n - a) = 0 <=> a + c <= n
        BY <1>0, <2>1, <2>2, <2>6
      <3> QED
        BY <2>1, <2>4, <3>1, <3>2 DEF e
    <2>7. CASE n - a > c
      <3>1. n - a > 0 /\ a + c <= n
        BY <1>0, <2>1, <2>2, <2>7
      <3> QED
        BY <2>1, <2>4, <2>7, <3>1 DEF e
    <2> QED
      BY <2>2, <2>5, <2>6, <2>7
  <1>7. Emptied(l, n) = {k \in 2 .. N : off[k] <= n}
    BY <1>6 DEF Emptied, N
  <1>8. CASE K = {}
    <2>0. \A k \in 2 .. N : k \in 0 .. N
      BY <1>0
    <2>1. \A k \in 2 .. N : off[k] \in Nat /\ ~(off[k] > n)
      BY <1>3, <1>8, <2>0
    <2>2. Emptied(l, n) = 2 .. N
      BY <1>0, <1>7, <2>1
    <2>3. N = 1 \/ N \in 2 .. N
      BY <1>0
    <2>4. N = 1 \/ off[N] <= n
      BY <1>0, <2>1, <2>3
    <2>5. \A k \in N + 1 .. N : off[k] > n
      BY <1>0
    <2>6. UsedUp(s, off, n, N) /\ N \in 1 .. N
      BY <1>0, <1>1, <2>4, <2>5 DEF UsedUp
    <2> QED
      BY <2>2, <2>6 DEF s, N
  <1>9. CASE K # {}
    <2>1. K \in SUBSET Nat
      OBVIOUS
    <2>2. PICK g \in K : \A y \in K : g <= y
      <3> HIDE DEF K
      <3> QED
        BY <1>9, <2>1, LeastNumber
    <2> DEFINE M == g - 1
    <2>3. g \in 2 .. N /\ off[g] > n /\ M \in 1 .. N
      BY <1>0
    <2>4. \A k \in 2 .. M : off[k] <= n
      <3> TAKE k \in 2 .. M
      <3>1. k \in 2 .. N /\ ~(g <= k) /\ off[k] \in Nat
        BY <1>0, <1>3, <2>3
      <3>2. k \notin K
        BY <2>2, <3>1
      <3> QED
        BY <1>0, <3>1, <3>2
    <2>5. \A k \in M + 1 .. N : off[k] > n
      <3> TAKE k \in M + 1 .. N
      <3>1. k \in 0 .. N /\ g \in 0 .. N /\ g <= k
        BY <1>0, <2>3
      <3>2. off[g] <= off[k]
        BY <1>1, <1>2, <3>1, OffsetsGrow
      <3>3. off[g] \in Nat /\ off[k] \in Nat
        BY <1>3, <3>1
      <3> QED
        BY <1>0, <2>3, <3>2, <3>3
    <2>6. M = 1 \/ M \in 2 .. M
      BY <2>3
    <2>7. UsedUp(s, off, n, M)
      <3> HIDE DEF M
      <3> QED
        BY <1>1, <2>4, <2>5, <2>6 DEF UsedUp
    <2>8. Emptied(l, n) = 2 .. M
      <3>1. ASSUME NEW k \in 2 .. N PROVE off[k] <= n <=> k \in 2 .. M
        <4>1. off[k] \in Nat
          BY <1>0, <1>3
        <4>2. k <= M \/ k \in M + 1 .. N
          BY <1>0, <2>3
        <4> QED
          BY <1>0, <2>4, <2>5, <4>1, <4>2
      <3>2. 2 .. M \subseteq 2 .. N
        BY <1>0, <2>3
      <3> HIDE DEF M
      <3> QED
        BY <1>7, <3>1, <3>2
    <2> QED
      BY <2>3, <2>7, <2>8 DEF s, N
  <1> QED
    BY <1>8, <1>9

(* The list that has given n cells away.                                   *)
Shorter(l, M) == [j \in 1 .. Len(l) - M + 1 |-> IF j = 1 THEN l[1] ELSE l[j + M - 1]]

(* Its length and its buffers.                                             *)
LEMMA ShorterFacts ==
    ASSUME NEW l \in Seq(Buf), NEW M \in 1 .. Len(l)
    PROVE  /\ Shorter(l, M) \in Seq(Buf) /\ Len(Shorter(l, M)) = Len(l) - M + 1
           /\ Shorter(l, M)[1] = l[1]
           /\ \A j \in 2 .. Len(l) - M + 1 : Shorter(l, M)[j] = l[j + M - 1]
           /\ \A j \in 1 .. Len(l) - M + 1 : Shorter(l, M)[j] = IF j = 1 THEN l[1] ELSE l[j + M - 1]
  <1> DEFINE Q == Len(l) - M + 1
  <1>1. Q \in Nat /\ Q >= 1 /\ \A j \in 1 .. Q : j + M - 1 \in 1 .. Len(l)
    OBVIOUS
  <1>2. l[1] \in Buf /\ \A j \in 1 .. Q : l[j + M - 1] \in Buf
    BY <1>1
  <1>3. Shorter(l, M) = [j \in 1 .. Q |-> IF j = 1 THEN l[1] ELSE l[j + M - 1]]
    BY DEF Shorter
  <1> HIDE DEF Q
  <1>4. Shorter(l, M) \in Seq(Buf) /\ Len(Shorter(l, M)) = Q
    BY <1>1, <1>2, <1>3
  <1>5. 1 \in 1 .. Q /\ \A j \in 2 .. Q : j \in 1 .. Q /\ j # 1
    BY <1>1
  <1>6. \A j \in 1 .. Q : Shorter(l, M)[j] = IF j = 1 THEN l[1] ELSE l[j + M - 1]
    BY <1>3
  <1>7. Shorter(l, M)[1] = l[1] /\ \A j \in 2 .. Q : Shorter(l, M)[j] = l[j + M - 1]
    BY <1>5, <1>6
  <1> QED
    BY <1>4, <1>6, <1>7 DEF Q

GoneFrom(l, M, n, m2) ==
    /\ \A b \in Buf : ~OnList(b, l) => m2[b] = mb[b]
    /\ \A k \in 2 .. M : m2[l[k]] = FreeBuf
    /\ m2[l[1]] \in BufRec /\ m2[l[1]].use = mb[l[1]].use /\ m2[l[1]].buf = Kept(l, n, 1)
    /\ m2[l[1]].next = mb[l[M]].next
    /\ \A k \in M + 1 .. Len(l) : /\ m2[l[k]] \in BufRec /\ m2[l[k]].use = mb[l[k]].use
                                  /\ m2[l[k]].buf = Kept(l, n, k) /\ m2[l[k]].next = mb[l[k]].next

LEMMA RecordChanged ==
    ASSUME NEW r \in BufRec, NEW d \in Seq(Cell), NEW x \in Buf \union {None},
           NEW q, q = [r EXCEPT !.buf = d, !.next = x]
    PROVE  q \in BufRec /\ q.use = r.use /\ q.buf = d /\ q.next = x
  BY DEF BufRec

LEMMA TextChanged ==
    ASSUME NEW r \in BufRec, NEW d \in Seq(Cell), NEW q, q = [r EXCEPT !.buf = d]
    PROVE  q \in BufRec /\ q.use = r.use /\ q.buf = d /\ q.next = r.next
  BY DEF BufRec

LEMMA GreatestOfTwoTo ==
    ASSUME NEW M \in Nat, M >= 2
    PROVE  Max(2 .. M) = M
  <1>1. M \in 2 .. M /\ \A y \in 2 .. M : M >= y
    OBVIOUS
  <1>2. \A x \in 2 .. M : (\A y \in 2 .. M : x >= y) => x = M
    OBVIOUS
  <1> DEFINE R == 2 .. M
  <1> HIDE DEF R
  <1>3. (CHOOSE x \in R : \A y \in R : x >= y) = M
    BY <1>1, <1>2 DEF R
  <1> QED
    BY <1>3 DEF Max, R

(* The buffers after consumeMemBufList, as the model writes them.          *)
LEMMA WhatIsGone ==
    ASSUME mb \in Mem, NEW h \in Buf, NEW l, IsChain(mb, h, l),
           NEW off, NEW T \in Seq(Cell), Joined(Bufs(mb, l), off, T), NEW n \in 0 .. Len(T),
           NEW M \in 1 .. Len(l), Emptied(l, n) = 2 .. M,
           NEW m2, m2 = Consumed(h, n)
    PROVE  m2 \in Mem /\ GoneFrom(l, M, n, m2)
  <1> DEFINE N == Len(l)
  <1>0. /\ l \in Seq(Buf) /\ N \in Nat /\ l[1] = h /\ DOMAIN l = 1 .. N
        /\ \A i, j \in 1 .. N : l[i] = l[j] => i = j
        /\ \A k \in 1 .. N : l[k] \in Buf
    BY DEF IsChain
  <1>1. ListFrom(h) = l
    BY ListFromIs, ChainIsList
  <1> DEFINE C(ll, gone) == [b \in Buf |->
            IF b = h
            THEN [mb[b] EXCEPT !.buf = Kept(ll, n, 1),
                               !.next = IF gone = {} THEN @ ELSE mb[ll[Max(gone)]].next]
            ELSE IF \E k \in gone : ll[k] = b THEN FreeBuf
            ELSE IF b \in Range(ll)
            THEN [mb[b] EXCEPT !.buf = Kept(ll, n, CHOOSE k \in DOMAIN ll : ll[k] = b)]
            ELSE mb[b]]
             P(b) == IF b = h
            THEN [mb[b] EXCEPT !.buf = Kept(l, n, 1),
                               !.next = IF 2 .. M = {} THEN @ ELSE mb[l[Max(2 .. M)]].next]
            ELSE IF \E k \in 2 .. M : l[k] = b THEN FreeBuf
            ELSE IF b \in Range(l)
            THEN [mb[b] EXCEPT !.buf = Kept(l, n, CHOOSE k \in DOMAIN l : l[k] = b)]
            ELSE mb[b]
  <1>2. m2 = [b \in Buf |-> P(b)]
    <2>1. m2 = C(ListFrom(h), Emptied(ListFrom(h), n))
      BY DEF Consumed
    <2>2. m2 = C(l, 2 .. M)
      <3> HIDE DEF C
      <3> QED
        BY <1>1, <2>1
    <2> QED
      BY <2>2
  <1>3. \A b \in Buf : m2[b] = P(b)
    BY <1>2, Zenon
  <1>4. ASSUME NEW k \in 1 .. N PROVE Kept(l, n, k) \in Seq(Cell)
    <2>1. Kept(l, n, k) = Rest(mb[l[k]].buf, n - off[k - 1])
      BY <1>0, KeptIs
    <2>2. mb[l[k]].buf \in Seq(Cell)
      BY <1>0 DEF Mem, BufRec
    <2>3. n - off[k - 1] \in Int
      <3>1. off[k - 1] \in Nat /\ n \in Nat
        <4>1. Offsets(Bufs(mb, l), off) /\ Len(Bufs(mb, l)) = N
          BY <1>0, BufsTyped DEF Joined
        <4>2. k - 1 \in 0 .. N
          BY <1>0
        <4>3. off \in [0 .. N -> Nat]
          BY <4>1 DEF Offsets
        <4>4. off[k - 1] \in Nat
          BY <4>2, <4>3
        <4>5. n \in Nat
          OBVIOUS
        <4> QED
          BY <4>4, <4>5
      <3> QED
        BY <3>1
    <2>4. RestIs(mb[l[k]].buf, n - off[k - 1], Rest(mb[l[k]].buf, n - off[k - 1]))
      BY <2>2, <2>3, RestFacts
    <2> QED
      BY <2>1, <2>4 DEF RestIs
  <1>5. 1 \in 1 .. N /\ M \in 1 .. N /\ (\A k \in 2 .. M : k \in 1 .. N /\ k # 1)
        /\ \A k \in M + 1 .. N : k \in 1 .. N /\ k # 1 /\ ~(k \in 2 .. M)
    BY <1>0
  <1>6. \A b \in Buf : mb[b] \in BufRec
    BY DEF Mem
  <1>7. /\ P(h) = [mb[h] EXCEPT !.buf = Kept(l, n, 1), !.next = mb[l[M]].next]
        /\ mb[l[M]].next \in Buf \union {None}
    <2>1. mb[l[M]].next \in Buf \union {None}
      BY <1>0, <1>5, <1>6 DEF BufRec
    <2>2. (IF 2 .. M = {} THEN mb[h].next ELSE mb[l[Max(2 .. M)]].next) = mb[l[M]].next
      <3>1. CASE M = 1
        BY <1>0, <3>1
      <3>2. CASE M # 1
        <4>0. M \in Nat /\ M >= 2
          BY <1>0, <3>2
        <4>1. M \in Nat /\ M >= 2 /\ 2 .. M # {}
          <5>1. 2 \in 2 .. M
            BY <4>0
          <5> QED
            BY <4>0, <5>1
        <4> QED
          BY <4>1, GreatestOfTwoTo
      <3> QED
        BY <3>1, <3>2
    <2> QED
      BY <2>1, <2>2
  <1>8. ASSUME NEW k \in 2 .. M PROVE l[k] \in Buf /\ l[k] # h /\ P(l[k]) = FreeBuf
    BY <1>0, <1>5
  <1>9. ASSUME NEW k \in M + 1 .. N
        PROVE  l[k] \in Buf /\ P(l[k]) = [mb[l[k]] EXCEPT !.buf = Kept(l, n, k)]
    <2>1. k \in 1 .. N /\ l[k] \in Buf /\ l[k] # h /\ ~(\E i \in 2 .. M : l[i] = l[k]) /\ l[k] \in Range(l)
      BY <1>0, <1>5 DEF Range
    <2>2. (CHOOSE i \in DOMAIN l : l[i] = l[k]) = k
      BY <1>0, <2>1
    <2> QED
      BY <2>1, <2>2
  <1>10. ASSUME NEW b \in Buf, ~OnList(b, l) PROVE P(b) = mb[b]
    <2>1. b \notin Range(l) /\ b # h /\ ~(\E k \in 2 .. M : l[k] = b)
      BY <1>0, <1>5, <1>10 DEF Range, OnList
    <2> QED
      BY <2>1
  <1> HIDE DEF P
  <1>11. m2[l[1]] = [mb[h] EXCEPT !.buf = Kept(l, n, 1), !.next = mb[l[M]].next]
    BY <1>0, <1>3, <1>7
  <1>12. /\ m2[l[1]] \in BufRec /\ m2[l[1]].use = mb[l[1]].use /\ m2[l[1]].buf = Kept(l, n, 1)
         /\ m2[l[1]].next = mb[l[M]].next
    <2>1. Kept(l, n, 1) \in Seq(Cell) /\ mb[h] \in BufRec
      BY <1>4, <1>5, <1>6
    <2> DEFINE q == m2[l[1]]
               d == Kept(l, n, 1)
               x == mb[l[M]].next
               r == mb[h]
    <2>2. q = [r EXCEPT !.buf = d, !.next = x]
      BY <1>11
    <2>3. d \in Seq(Cell) /\ x \in Buf \union {None} /\ r \in BufRec
      BY <1>7, <2>1
    <2> HIDE DEF q, d, x, r
    <2>4. q \in BufRec /\ q.use = r.use /\ q.buf = d /\ q.next = x
      BY <2>2, <2>3 DEF BufRec
    <2> QED
      BY <1>0, <2>4 DEF q, d, x, r
  <1>13. ASSUME NEW k \in M + 1 .. N
         PROVE  /\ m2[l[k]] \in BufRec /\ m2[l[k]].use = mb[l[k]].use
                /\ m2[l[k]].buf = Kept(l, n, k) /\ m2[l[k]].next = mb[l[k]].next
    <2>1. Kept(l, n, k) \in Seq(Cell) /\ mb[l[k]] \in BufRec
      BY <1>4, <1>5, <1>6, <1>9
    <2>2. m2[l[k]] = [mb[l[k]] EXCEPT !.buf = Kept(l, n, k)]
      BY <1>3, <1>9
    <2> QED
      BY <2>1, <2>2, TextChanged
  <1>14. \A k \in 2 .. M : m2[l[k]] = FreeBuf
    BY <1>3, <1>8
  <1>15. \A b \in Buf : ~OnList(b, l) => m2[b] = mb[b]
    BY <1>3, <1>10
  <1>16. GoneFrom(l, M, n, m2)
    BY <1>12, <1>13, <1>14, <1>15 DEF GoneFrom
  <1>17. FreeBuf \in BufRec
    <2>1. <<>> \in Seq(Cell)
      OBVIOUS
    <2> QED
      BY <2>1 DEF FreeBuf, BufRec
  <1>18. ASSUME NEW b \in Buf PROVE m2[b] \in BufRec
    <2>1. CASE ~OnList(b, l)
      BY <1>6, <1>15, <2>1
    <2>2. CASE OnList(b, l)
      <3>1. PICK k \in 1 .. N : l[k] = b
        BY <2>2 DEF OnList
      <3>2. k = 1 \/ k \in 2 .. M \/ k \in M + 1 .. N
        BY <1>0
      <3> QED
        BY <1>12, <1>13, <1>14, <1>17, <3>1, <3>2
    <2> QED
      BY <2>1, <2>2
  <1>19. m2 \in Mem
    BY <1>2, <1>18 DEF Mem
  <1> QED
    BY <1>16, <1>19

UsedIn(m) == {b \in Buf : m[b].use}

LEMMA UsedFinite ==
    ASSUME NEW m
    PROVE  IsFiniteSet(UsedIn(m)) /\ Cardinality(UsedIn(m)) \in 0 .. MbSize
  <1>1. UsedIn(m) \in SUBSET Buf
    BY DEF UsedIn
  <1>2. IsFiniteSet(UsedIn(m)) /\ Cardinality(UsedIn(m)) <= MbSize
    BY <1>1, BufFinite, FS_Subset
  <1> QED
    BY <1>2, FS_CardinalityType

(* What is no longer in use is that much less.                             *)
LEMMA UsedLess ==
    ASSUME NEW m, NEW m2, NEW G \in SUBSET Buf, NEW n, Cardinality(G) = n,
           \A b \in G : m[b].use, \A b \in Buf : m2[b].use <=> m[b].use /\ b \notin G
    PROVE  Cardinality(UsedIn(m2)) = Cardinality(UsedIn(m)) - n
  <1>1. UsedIn(m2) = UsedIn(m) \ G /\ UsedIn(m) \cap G = G
    BY DEF UsedIn
  <1>2. IsFiniteSet(UsedIn(m))
    BY UsedFinite
  <1> QED
    BY <1>1, <1>2, FS_Difference

(* Whatever is taken from a list, the lists stay what they were.           *)
Taken(m, m2, H, h, n) ==
    /\ m2 \in Mem /\ Pool(m2, H)
    /\ TextIn(m2, h) = SubSeq(TextIn(m, h), n + 1, Len(TextIn(m, h)))
    /\ \A g \in H : g # h => TextIn(m2, g) = TextIn(m, g)
    /\ \A b \in Buf : Len(m2[b].buf) <= Len(m[b].buf)

LEMMA RestIsShort ==
    ASSUME NEW d \in Seq(Cell), NEW r \in Int
    PROVE  Len(Rest(d, r)) <= Len(d)
  <1> DEFINE e == Rest(d, r)
             c == Len(d)
  <1>1. RestIs(d, r, e) /\ c \in Nat
    BY RestFacts
  <1>2. /\ r <= 0 => Len(e) = c
        /\ r > 0 /\ r <= c => Len(e) = c - r
        /\ r > 0 /\ r > c => Len(e) = 0
    BY <1>1 DEF RestIs
  <1> HIDE DEF e, c
  <1>3. Len(e) <= c
    <2>1. CASE r <= 0
      BY <1>1, <1>2, <2>1
    <2>2. CASE r > 0 /\ r <= c
      BY <1>1, <1>2, <2>2
    <2>3. CASE r > 0 /\ r > c
      BY <1>1, <1>2, <2>3
    <2> QED
      BY <1>1, <2>1, <2>2, <2>3
  <1> QED
    BY <1>3 DEF e, c

(* consumeMemBufList takes n cells off one list, frees as many buffers as  *)
(* it counts, and leaves the other lists and their texts alone.            *)
LEMMA ConsumeKeeps ==
    ASSUME mb \in Mem, NEW H \in SUBSET Buf, Pool(mb, H), NEW h \in H,
           NEW n \in 0 .. Len(TextIn(mb, h)), NEW m2, m2 = Consumed(h, n)
    PROVE  /\ Taken(mb, m2, H, h, n)
           /\ Cardinality(UsedIn(m2)) = Cardinality(UsedIn(mb)) - Cardinality(Emptied(ListFrom(h), n))
  <1> DEFINE L == ListsIn(mb, H)
             l == L[h]
             T == TextIn(mb, h)
             s == Bufs(mb, l)
  <1>1. /\ Lists(mb, H, L) /\ h \in Buf
        /\ IsChain(mb, h, l) /\ TailFull(mb, l)
    BY ListsAre DEF Pool
  <1>2. L \in [H -> Range(L)] /\ \A g \in H : L[g] = ListIn(mb, g)
    BY DEF ListsIn, Range
  <1>3. ListFrom(h) = l
    BY <1>2, ListFromIs
  <1>4. IsJoined(s, T)
    BY <1>1, TextOf
  <1>5. PICK off : Joined(s, off, T)
    BY <1>4 DEF IsJoined
  <1>6. T \in Seq(Cell) /\ n \in 0 .. Len(T)
    BY <1>4 DEF IsJoined
  <1> HIDE DEF T, l, L
  <1>7. l \in Seq(Buf) /\ Len(l) >= 1 /\ l[1] = h
    BY <1>1 DEF IsChain
  <1>8. PICK M \in 1 .. Len(l) : UsedUp(s, off, n, M) /\ Emptied(l, n) = 2 .. M
    BY <1>1, <1>5, <1>6, <1>7, WhichGo
  <1>9. m2 \in Mem /\ GoneFrom(l, M, n, m2)
    BY <1>1, <1>5, <1>6, <1>8, WhatIsGone
  <1> DEFINE N == Len(l)
             Q == N - M + 1
             l2 == Shorter(l, M)
             s2 == Bufs(m2, l2)
  <1>10. /\ l2 \in Seq(Buf) /\ Len(l2) = Q /\ l2[1] = h
         /\ \A j \in 2 .. Q : l2[j] = l[j + M - 1]
         /\ \A j \in 1 .. Q : l2[j] = IF j = 1 THEN h ELSE l[j + M - 1]
    BY <1>7, ShorterFacts
  <1>11. N \in Nat /\ M \in 1 .. N /\ Q \in Nat /\ Q >= 1 /\ N >= 1
    <2>1. N \in Nat
      BY <1>7
    <2> HIDE DEF N
    <2> QED
      BY <2>1, <1>7, <1>8 DEF N
  <1> HIDE DEF l2
  <1>12. /\ \A k \in 1 .. N : mb[l[k]].next = IF k < N THEN l[k + 1] ELSE None
         /\ \A i, j \in 1 .. N : l[i] = l[j] => i = j
         /\ \A k \in 1 .. N : l[k] \in Buf
    BY <1>1 DEF IsChain
  <1>13. /\ \A k \in 2 .. M : m2[l[k]] = FreeBuf
         /\ m2[h].use = mb[h].use /\ m2[h].buf = Kept(l, n, 1) /\ m2[h].next = mb[l[M]].next
         /\ \A k \in M + 1 .. N : /\ m2[l[k]].use = mb[l[k]].use
                                  /\ m2[l[k]].buf = Kept(l, n, k) /\ m2[l[k]].next = mb[l[k]].next
         /\ \A b \in Buf : ~OnList(b, l) => m2[b] = mb[b]
    BY <1>7, <1>9 DEF GoneFrom
  <1>14. /\ \A j \in 1 .. Q : j + M - 1 \in 1 .. N
         /\ \A j \in 2 .. Q : j \in 1 .. Q /\ j + M - 1 \in M + 1 .. N /\ j + M - 1 \in 2 .. N /\ j # 1
         /\ \A k \in 2 .. M : k \in 1 .. N /\ k # 1
         /\ \A k \in M + 1 .. N : k \in 1 .. N /\ k \in 2 .. N /\ k # 1 /\ ~(k \in 2 .. M) /\ k - M + 1 \in 2 .. Q
                                  /\ (k - M + 1) + M - 1 = k
         /\ 1 \in 1 .. Q /\ 1 \in 1 .. N
         /\ \A j \in 1 .. Q : j = 1 \/ j \in 2 .. Q
         /\ \A k \in 1 .. N : k = 1 \/ k \in 2 .. M \/ k \in M + 1 .. N
    <2> HIDE DEF N
    <2> QED
      BY <1>11
  <1> HIDE DEF N, Q
  <1>15. IsChain(m2, h, l2)
    <2>1. ASSUME NEW j \in 1 .. Q PROVE m2[l2[j]].next = IF j < Q THEN l2[j + 1] ELSE None
      <3>1. m2[l2[j]].next = mb[l[j + M - 1]].next
        <4>1. CASE j = 1
          <5>1. j + M - 1 = M
            BY <1>11, <4>1
          <5> QED
            BY <1>10, <1>13, <4>1, <5>1
        <4>2. CASE j # 1
          <5>1. j \in 2 .. Q
            BY <1>14, <4>2
          <5> QED
            BY <1>10, <1>13, <1>14, <5>1
        <4> QED
          BY <4>1, <4>2
      <3>2. mb[l[j + M - 1]].next = IF j + M - 1 < N THEN l[(j + M - 1) + 1] ELSE None
        BY <1>12, <1>14
      <3>3. CASE j < Q
        <4>1. j + M - 1 < N /\ j + 1 \in 2 .. Q /\ (j + 1) + M - 1 = (j + M - 1) + 1
          BY <1>11, <3>3 DEF Q
        <4>2. l2[j + 1] = l[(j + M - 1) + 1]
          BY <1>10, <4>1
        <4> QED
          BY <3>1, <3>2, <3>3, <4>1, <4>2
      <3>4. CASE ~(j < Q)
        <4>1. ~(j + M - 1 < N)
          BY <1>11, <3>4 DEF Q
        <4> QED
          BY <3>1, <3>2, <3>4, <4>1
      <3> QED
        BY <3>3, <3>4
    <2>2. ASSUME NEW i \in 1 .. Q, NEW j \in 1 .. Q, l2[i] = l2[j] PROVE i = j
      <3>1. \A k \in 1 .. Q : l2[k] = l[IF k = 1 THEN 1 ELSE k + M - 1] /\ (IF k = 1 THEN 1 ELSE k + M - 1) \in 1 .. N
        BY <1>7, <1>10, <1>14
      <3>2. (IF i = 1 THEN 1 ELSE i + M - 1) = (IF j = 1 THEN 1 ELSE j + M - 1)
        BY <1>12, <2>2, <3>1
      <3> QED
        BY <1>11, <3>2
    <2> QED
      BY <1>10, <1>11, <2>1, <2>2 DEF IsChain
  <1>16. TailFull(m2, l2)
    <2> SUFFICES ASSUME NEW j \in 2 .. Q PROVE m2[l2[j]].buf # <<>>
      BY <1>10 DEF TailFull
    <2> DEFINE k == j + M - 1
    <2>1. k \in M + 1 .. N /\ k \in 2 .. N /\ k \notin 2 .. M /\ l2[j] = l[k]
      BY <1>10, <1>14
    <2>2. k \notin Emptied(l, n)
      BY <1>8, <2>1
    <2>3. Kept(l, n, k) # <<>>
      BY <2>1, <2>2 DEF Emptied, N
    <2> QED
      BY <1>13, <2>1, <2>3
  <1>17. \A b \in Buf : OnList(b, l2) <=> OnList(b, l) /\ \A k \in 2 .. M : l[k] # b
    <2> TAKE b \in Buf
    <2>1. ASSUME OnList(b, l2) PROVE OnList(b, l) /\ \A k \in 2 .. M : l[k] # b
      <3>1. PICK j \in 1 .. Q : l2[j] = b
        BY <1>10, <2>1 DEF OnList
      <3>2. CASE j = 1
        <4>1. b = l[1]
          BY <1>7, <1>10, <3>1, <3>2
        <4> QED
          BY <1>12, <1>14, <4>1 DEF OnList, N
      <3>3. CASE j # 1
        <4>1. j + M - 1 \in M + 1 .. N /\ b = l[j + M - 1]
          BY <1>10, <1>14, <3>1, <3>3
        <4>2. OnList(b, l)
          BY <1>14, <4>1 DEF OnList, N
        <4> QED
          BY <1>12, <1>14, <4>1, <4>2
      <3> QED
        BY <3>2, <3>3
    <2>2. ASSUME OnList(b, l), \A k \in 2 .. M : l[k] # b PROVE OnList(b, l2)
      <3>1. PICK k \in 1 .. N : l[k] = b
        BY <2>2 DEF OnList, N
      <3>2. k = 1 \/ k \in M + 1 .. N
        BY <1>14, <2>2, <3>1
      <3>3. CASE k = 1
        BY <1>7, <1>10, <1>14, <3>1, <3>3 DEF OnList
      <3>4. CASE k \in M + 1 .. N
        <4>1. k - M + 1 \in 2 .. Q /\ l2[k - M + 1] = b /\ k - M + 1 \in 1 .. Q
          BY <1>10, <1>14, <3>1, <3>4
        <4> QED
          BY <1>10, <4>1 DEF OnList
      <3> QED
        BY <3>2, <3>3, <3>4
    <2> QED
      BY <2>1, <2>2
  <1>18. \A b \in Buf : OnList(b, l) => mb[b].use
    BY <1>1, ListsAre DEF l
  <1>19. \A b \in Buf : OnList(b, l2) => m2[b].use
    <2> SUFFICES ASSUME NEW b \in Buf, OnList(b, l2) PROVE m2[b].use
      OBVIOUS
    <2>1. PICK j \in 1 .. Q : l2[j] = b
      BY <1>10 DEF OnList
    <2>2. mb[b].use
      BY <1>17, <1>18
    <2>3. m2[b].use = mb[b].use
      <3>1. CASE j = 1
        BY <1>10, <1>13, <2>1, <3>1
      <3>2. CASE j # 1
        <4>1. j + M - 1 \in M + 1 .. N /\ b = l[j + M - 1]
          BY <1>10, <1>14, <2>1, <3>2
        <4> QED
          BY <1>13, <4>1
      <3> QED
        BY <3>1, <3>2
    <2> QED
      BY <2>2, <2>3
  <1>20. \A b \in Buf : OnList(b, l) /\ ~OnList(b, l2) => m2[b] = FreeBuf
    BY <1>13, <1>17
  <1>21. Becomes(mb, m2, L[h], l2)
    BY <1>13, <1>17, <1>19, <1>20 DEF Becomes, l
  <1>22. /\ Lists(m2, H, [g \in H |-> IF g = h THEN l2 ELSE L[g]])
         /\ \A g \in H : g # h => SameOn(mb, m2, L[g])
    BY <1>1, <1>15, <1>16, <1>21, OneListChanges
  <1>23. Pool(m2, H)
    BY <1>9, <1>22, PoolFrom
  <1>24. ASSUME NEW g \in H, g # h PROVE TextIn(m2, g) = TextIn(mb, g)
    <2>1. IsChain(mb, g, L[g]) /\ g \in Buf
      BY <1>1, ListsAre
    <2> QED
      BY <1>9, <1>22, <1>24, <2>1, TextStays
  <1>25. TextIn(m2, h) = SubSeq(T, n + 1, Len(T))
    <2>1. /\ s \in Seq(Seq(Cell)) /\ Len(s) = N /\ \A k \in 1 .. N : s[k] = mb[l[k]].buf
      BY <1>7, BufsTyped DEF N
    <2>2. s2 \in Seq(Seq(Cell)) /\ Len(s2) = Q /\ \A k \in 1 .. Q : s2[k] = m2[l2[k]].buf
      BY <1>9, <1>10, BufsTyped
    <2>3. \A k \in 1 .. N : Kept(l, n, k) = Rest(s[k], n - off[k - 1])
      <3> TAKE k \in 1 .. N
      <3>1. Kept(l, n, k) = Rest(mb[l[k]].buf, n - off[k - 1])
        BY <1>5, <1>7, KeptIs DEF N
      <3> QED
        BY <2>1, <3>1
    <2>4. off[0] = 0
      BY <1>5 DEF Joined, Offsets
    <2> HIDE DEF s, s2
    <2>5. s2[1] = Rest(s[1], n)
      <3>1. n - 0 = n /\ 1 - 1 = 0
        BY <1>6
      <3>2. Kept(l, n, 1) = Rest(s[1], n)
        BY <1>14, <2>3, <2>4, <3>1
      <3> QED
        BY <1>10, <1>13, <1>14, <2>2, <3>2
    <2>6. ASSUME NEW j \in 2 .. Q PROVE s2[j] = Rest(s[j + M - 1], n - off[j + M - 2])
      <3>1. j + M - 1 \in M + 1 .. N /\ j + M - 1 \in 1 .. N /\ (j + M - 1) - 1 = j + M - 2 /\ j \in 1 .. Q
        BY <1>11, <1>14
      <3>2. s2[j] = Kept(l, n, j + M - 1)
        <4>1. s2[j] = m2[l2[j]].buf /\ l2[j] = l[j + M - 1]
          BY <1>10, <2>2, <3>1
        <4>2. m2[l[j + M - 1]].buf = Kept(l, n, j + M - 1)
          BY <1>13, <3>1
        <4> QED
          BY <4>1, <4>2
      <3> QED
        BY <2>3, <3>1, <3>2
    <2>7. LeftOf(s, off, n, M, s2)
      BY <2>1, <2>2, <2>5, <2>6 DEF LeftOf, Q
    <2>8. \E off2 : Joined(s2, off2, SubSeq(T, n + 1, Len(T)))
      <3>1. UsedUp(s, off, n, M) /\ M \in 1 .. Len(s) /\ Joined(s, off, T)
        BY <1>5, <1>8, <2>1 DEF s, N
      <3> QED
        BY <1>6, <2>1, <2>2, <2>7, <3>1, WhatIsLeft
    <2>9. SubSeq(T, n + 1, Len(T)) \in Seq(Cell)
      <3>1. n + 1 \in 1 .. Len(T) + 1 /\ Len(T) \in 0 .. Len(T) /\ n + 1 <= Len(T) + 1
        BY <1>6
      <3> QED
        BY <1>6, <3>1, SubSeqFacts
    <2>10. PICK off2 : Joined(s2, off2, SubSeq(T, n + 1, Len(T)))
      BY <2>8
    <2> QED
      BY <1>1, <1>9, <1>15, <2>9, <2>10, TextThen DEF s2
  <1>26. ASSUME NEW b \in Buf PROVE Len(m2[b].buf) <= Len(mb[b].buf)
    <2>1. mb[b].buf \in Seq(Cell)
      BY DEF Mem, BufRec
    <2>2. CASE ~OnList(b, l)
      <3>1. Len(mb[b].buf) \in Nat /\ m2[b].buf = mb[b].buf
        BY <1>13, <2>1, <2>2
      <3> QED
        BY <3>1
    <2>3. CASE OnList(b, l)
      <3>1. PICK k \in 1 .. N : l[k] = b
        BY <2>3 DEF OnList, N
      <3>2. CASE k \in 2 .. M
        <4>1. m2[b].buf = <<>> /\ Len(mb[b].buf) \in Nat
          BY <1>13, <2>1, <3>1, <3>2 DEF FreeBuf
        <4> QED
          BY <4>1
      <3>3. CASE k = 1 \/ k \in M + 1 .. N
        <4>1. m2[b].buf = Kept(l, n, k)
          BY <1>7, <1>13, <3>1, <3>3
        <4>2. Kept(l, n, k) = Rest(mb[b].buf, n - off[k - 1])
          BY <1>5, <1>7, <3>1, KeptIs DEF N
        <4>3. n - off[k - 1] \in Int
          <5>1. Offsets(s, off) /\ Len(s) = N
            BY <1>5, <1>7, BufsTyped DEF Joined, N
          <5>2. off \in [0 .. N -> Nat]
            BY <5>1 DEF Offsets
          <5>21. k - 1 \in 0 .. N
            BY <1>11
          <5>3. off[k - 1] \in Nat
            BY <5>2, <5>21
          <5>4. n \in Nat
            BY <1>6
          <5> QED
            BY <5>3, <5>4
        <4> QED
          BY <2>1, <4>1, <4>2, <4>3, RestIsShort
      <3> QED
        BY <1>14, <3>2, <3>3
    <2> QED
      BY <2>2, <2>3
  <1>27. Cardinality(UsedIn(m2)) = Cardinality(UsedIn(mb)) - Cardinality(2 .. M)
    <2> DEFINE f == [k \in 2 .. M |-> l[k]]
               G == {l[k] : k \in 2 .. M}
    <2>1. IsFiniteSet(2 .. M)
      <3>1. 2 \in Int /\ M \in Int
        BY <1>11
      <3> QED
        BY <3>1, FS_Interval
    <2>2. f \in [2 .. M -> G] /\ (\A i, j \in 2 .. M : f[i] = f[j] => i = j)
          /\ \A b \in G : \E k \in 2 .. M : f[k] = b
      <3>1. f \in [2 .. M -> G] /\ \A b \in G : \E k \in 2 .. M : f[k] = b
        OBVIOUS
      <3>2. \A i, j \in 2 .. M : l[i] = l[j] => i = j
        BY <1>12, <1>14
      <3> QED
        BY <3>1, <3>2
    <2>3. G \in SUBSET Buf /\ \A b \in G : OnList(b, l)
      BY <1>12, <1>14 DEF OnList, N
    <2>4. \A b \in Buf : b \in G <=> \E k \in 2 .. M : l[k] = b
      OBVIOUS
    <2> HIDE DEF f, G
    <2>5. Cardinality(G) = Cardinality(2 .. M)
      <3> DEFINE D == 2 .. M
      <3>1. /\ IsFiniteSet(D) /\ f \in [D -> G] /\ (\A i, j \in D : f[i] = f[j] => i = j)
            /\ \A b \in G : \E k \in D : f[k] = b
        BY <2>1, <2>2
      <3> HIDE DEF D
      <3>2. Cardinality(G) = Cardinality(D)
        BY <3>1, SameSize
      <3> QED
        BY <3>2 DEF D
    <2>6. \A b \in Buf : m2[b].use <=> mb[b].use /\ b \notin G
      <3> TAKE b \in Buf
      <3>1. CASE b \in G
        <4>1. m2[b] = FreeBuf
          BY <1>13, <2>4, <3>1
        <4> QED
          BY <3>1, <4>1 DEF FreeBuf
      <3>2. CASE b \notin G /\ OnList(b, l)
        <4>1. OnList(b, l2)
          BY <1>17, <2>4, <3>2
        <4> QED
          BY <1>18, <1>19, <3>2, <4>1
      <3>3. CASE ~OnList(b, l)
        BY <1>13, <2>3, <3>3
      <3> QED
        BY <3>1, <3>2, <3>3
    <2>7. \A b \in G : mb[b].use
      BY <1>18, <2>3
    <2> QED
      BY <2>3, <2>5, <2>6, <2>7, UsedLess
  <1>28. Taken(mb, m2, H, h, n)
    BY <1>9, <1>23, <1>24, <1>25, <1>26 DEF Taken, T
  <1> QED
    BY <1>3, <1>8, <1>27, <1>28

-----------------------------------------------------------------------------
(* Cells join a list                                                       *)

(* The free buffers are as many as are not in use.                         *)
FreeIn(m) == Buf \ UsedIn(m)

LEMMA FreeFinite ==
    ASSUME NEW m
    PROVE  IsFiniteSet(FreeIn(m)) /\ Cardinality(FreeIn(m)) = MbSize - Cardinality(UsedIn(m))
  <1>1. UsedIn(m) \in SUBSET Buf /\ Buf \cap UsedIn(m) = UsedIn(m)
    BY DEF UsedIn
  <1> QED
    BY <1>1, BufFinite, FS_Difference DEF FreeIn

Numbered(f, S, n) ==
    /\ f \in [1 .. n -> S]
    /\ \A i, j \in 1 .. n : f[i] = f[j] => i = j

(* FreeInOrder has each free buffer once.                                  *)
LEMMA FreeFacts ==
    /\ Numbered(FreeInOrder, FreeIn(mb), Cardinality(FreeIn(mb)))
    /\ FreeInOrder \in Seq(Buf) /\ Len(FreeInOrder) = MbSize - Cardinality(UsedIn(mb))
    /\ \A i \in 1 .. Len(FreeInOrder) : FreeInOrder[i] \in Buf /\ ~mb[FreeInOrder[i]].use
    /\ \A i, j \in 1 .. Len(FreeInOrder) : FreeInOrder[i] = FreeInOrder[j] => i = j
    /\ Len(FreeInOrder) \in Nat
  <1> DEFINE S == FreeIn(mb)
             n == Cardinality(S)
             f == FreeInOrder
  <1>1. Free = S /\ Used = UsedIn(mb)
    BY DEF Free, Used, UsedIn, FreeIn
  <1>2. IsFiniteSet(S) /\ n = MbSize - Cardinality(UsedIn(mb))
    BY FreeFinite
  <1>3. n \in Nat /\ ExistsBijection(1 .. n, S)
    BY <1>2, FS_CardinalityType
  <1>4. f = CHOOSE g \in [1 .. n -> S] : IsInjective(g)
    BY <1>1 DEF FreeInOrder, SetToSeq
  <1>5. \E g \in [1 .. n -> S] : IsInjective(g)
    BY <1>3 DEF ExistsBijection, Bijection, Injection
  <1>6. f \in [1 .. n -> S] /\ IsInjective(f)
    BY <1>4, <1>5
  <1> HIDE DEF n, f
  <1>7. Numbered(f, S, n)
    BY <1>6 DEF Numbered, IsInjective
  <1>8. f \in Seq(Buf) /\ Len(f) = n
    <2>1. f = [i \in 1 .. n |-> f[i]] /\ \A i \in 1 .. n : f[i] \in Buf
      BY <1>6 DEF FreeIn
    <2> QED
      BY <1>3, <2>1
  <1>9. \A i \in 1 .. n : f[i] \in Buf /\ ~mb[f[i]].use
    BY <1>6 DEF FreeIn, UsedIn
  <1> QED
    BY <1>2, <1>3, <1>7, <1>8, <1>9 DEF Numbered, f, n

LEMMA SliceFacts ==
    ASSUME NEW d \in Seq(Cell), NEW a \in 0 .. Len(d), NEW c \in a .. Len(d)
    PROVE  /\ SubSeq(d, a + 1, c) \in Seq(Cell) /\ Len(SubSeq(d, a + 1, c)) = c - a
           /\ \A i \in 1 .. c - a : SubSeq(d, a + 1, c)[i] = d[a + i]
  <1> DEFINE e == SubSeq(d, a + 1, c)
             t == Len(d)
  <1>1. t \in Nat
    OBVIOUS
  <1>2. a + 1 \in 1 .. t + 1 /\ c \in 0 .. t /\ a + 1 <= c + 1
    <2> HIDE DEF t
    <2>1. a \in 0 .. t /\ c \in a .. t
      BY DEF t
    <2> QED
      BY <1>1, <2>1
  <1>3. /\ e \in Seq(Cell) /\ Len(e) = c - (a + 1) + 1
        /\ \A i \in 1 .. c - (a + 1) + 1 : e[i] = d[a + 1 + i - 1]
    BY <1>2, SubSeqFacts
  <1> HIDE DEF e
  <1>4. a \in Nat /\ c \in Nat
    BY <1>1
  <1>5. c - (a + 1) + 1 = c - a /\ \A i \in 1 .. c - a : a + 1 + i - 1 = a + i
    BY <1>4
  <1> QED
    BY <1>3, <1>5 DEF e

(* The last piece gets the cells of d up to cut[0], and q pieces follow.   *)
Cuts(d, cut, q) ==
    /\ q \in Nat /\ cut \in [0 .. q -> 0 .. Len(d)] /\ cut[q] = Len(d)
    /\ \A j \in 1 .. q : cut[j - 1] <= cut[j]
LongerBy(s, d, cut, q, s2) ==
    /\ Len(s2) = Len(s) + q
    /\ \A k \in 1 .. Len(s) - 1 : s2[k] = s[k]
    /\ s2[Len(s)] = s[Len(s)] \o SubSeq(d, 1, cut[0])
    /\ \A j \in 1 .. q : s2[Len(s) + j] = SubSeq(d, cut[j - 1] + 1, cut[j])

(* The longer pieces join to the text with d behind it.                    *)
LEMMA WhatIsLonger ==
    ASSUME NEW s \in Seq(Seq(Cell)), Len(s) >= 1, NEW off, NEW T \in Seq(Cell), Joined(s, off, T),
           NEW d \in Seq(Cell), NEW q, NEW cut, Cuts(d, cut, q),
           NEW s2 \in Seq(Seq(Cell)), LongerBy(s, d, cut, q, s2)
    PROVE  \E off2 : Joined(s2, off2, T \o d)
  <1> DEFINE N == Len(s)
             t == Len(T)
             D == Len(d)
             Q == N + q
             T2 == T \o d
             off2 == [k \in 0 .. Q |-> IF k < N THEN off[k] ELSE t + cut[k - N]]
  <1>0. N \in Nat /\ N >= 1
    OBVIOUS
  <1>01. t \in Nat /\ D \in Nat
    OBVIOUS
  <1>1. t = off[N] /\ off \in [0 .. N -> Nat] /\ off[0] = 0
    BY DEF Joined, Offsets
  <1>2. \A k \in 1 .. N : off[k] = off[k - 1] + Len(s[k])
    BY DEF Joined, Offsets
  <1>3. \A k \in 1 .. N : \A i \in 1 .. Len(s[k]) : T[off[k - 1] + i] = s[k][i]
    BY DEF Joined
  <1>4. /\ q \in Nat /\ cut \in [0 .. q -> 0 .. D] /\ cut[q] = D
        /\ \A j \in 1 .. q : cut[j - 1] <= cut[j]
    BY DEF Cuts
  <1>5. /\ Len(s2) = Q
        /\ \A k \in 1 .. N - 1 : s2[k] = s[k]
        /\ s2[N] = s[N] \o SubSeq(d, 1, cut[0])
        /\ \A j \in 1 .. q : s2[N + j] = SubSeq(d, cut[j - 1] + 1, cut[j])
    BY DEF LongerBy
  <1>6. T2 \in Seq(Cell) /\ Len(T2) = t + D
        /\ (\A i \in 1 .. t : T2[i] = T[i]) /\ \A i \in 1 .. D : T2[t + i] = d[i]
    BY ConcatFacts
  <1>7. \A k \in 1 .. N : s[k] \in Seq(Cell)
    OBVIOUS
  <1> HIDE DEF N, t, D, Q, T2
  <1>71. \A k \in 1 .. N : off[k] <= t
    <2> TAKE k \in 1 .. N
    <2>1. k \in 0 .. N /\ N \in 0 .. N /\ k <= N
      BY <1>0
    <2>2. Offsets(s, off)
      BY DEF Joined
    <2> QED
      BY <1>1, <2>1, <2>2, OffsetsGrow DEF N
  <1>8. /\ off2 \in [0 .. Q -> Nat] /\ off2[0] = 0
        /\ \A k \in 0 .. N - 1 : off2[k] = off[k]
        /\ \A j \in 0 .. q : off2[N + j] = t + cut[j]
    <2>1. \A k \in 0 .. Q : k < N => k \in 0 .. N /\ off[k] \in Nat
      BY <1>0, <1>1, <1>4
    <2>2. \A k \in 0 .. Q : ~(k < N) => k - N \in 0 .. q
      BY <1>0, <1>4 DEF Q
    <2>21. \A j \in 0 .. q : cut[j] \in Nat
      BY <1>01, <1>4
    <2>22. \A k \in 0 .. Q : ~(k < N) => t + cut[k - N] \in Nat
      BY <1>01, <2>2, <2>21
    <2>3. off2 \in [0 .. Q -> Nat]
      BY <2>1, <2>22
    <2>4. \A k \in 0 .. N - 1 : k \in 0 .. Q /\ k < N
      BY <1>0, <1>4 DEF Q
    <2>5. \A j \in 0 .. q : N + j \in 0 .. Q /\ ~(N + j < N) /\ (N + j) - N = j
      BY <1>0, <1>4 DEF Q
    <2>6. 0 \in 0 .. N - 1
      BY <1>0
    <2>7. \A k \in 0 .. N - 1 : off2[k] = off[k]
      BY <2>4
    <2>8. \A j \in 0 .. q : off2[N + j] = t + cut[j]
      BY <2>5
    <2> QED
      BY <1>1, <2>3, <2>6, <2>7, <2>8
  <1> HIDE DEF off2
  <1>9. ASSUME NEW k \in 1 .. N - 1
        PROVE  /\ off2[k] = off2[k - 1] + Len(s2[k])
               /\ \A i \in 1 .. Len(s2[k]) : T2[off2[k - 1] + i] = s2[k][i]
    <2>1. k \in 1 .. N /\ k \in 0 .. N - 1 /\ k - 1 \in 0 .. N - 1 /\ k - 1 \in 0 .. N
      BY <1>0
    <2>2. s2[k] = s[k] /\ off2[k] = off[k] /\ off2[k - 1] = off[k - 1] /\ off[k - 1] \in Nat
      BY <1>1, <1>5, <1>8, <2>1
    <2>3. Len(s[k]) \in Nat
      BY <1>7, <2>1
    <2>4. off[k] = off[k - 1] + Len(s[k]) /\ off[k] <= t
      BY <1>2, <1>71, <2>1
    <2>5. ASSUME NEW i \in 1 .. Len(s[k]) PROVE T2[off[k - 1] + i] = s[k][i]
      <3>1. off[k - 1] + i \in 1 .. t
        <4> DEFINE o == off[k - 1]
                   u == Len(s[k])
        <4>1. o \in Nat /\ u \in Nat /\ o + u <= t /\ i \in 1 .. u
          BY <2>2, <2>3, <2>4
        <4> HIDE DEF o, u
        <4>2. o + i \in 1 .. t
          BY <1>01, <4>1
        <4> QED
          BY <4>2 DEF o
      <3>2. T[off[k - 1] + i] = s[k][i]
        BY <1>3, <2>1
      <3> QED
        BY <1>6, <3>1, <3>2
    <2> QED
      BY <2>2, <2>4, <2>5
  <1>10. /\ off2[N] = off2[N - 1] + Len(s2[N])
         /\ \A i \in 1 .. Len(s2[N]) : T2[off2[N - 1] + i] = s2[N][i]
    <2> DEFINE p == s[N]
               e == SubSeq(d, 0 + 1, cut[0])
               c == cut[0]
               u == Len(p)
    <2>1. N \in 1 .. N /\ N - 1 \in 0 .. N - 1 /\ N - 1 \in 0 .. N /\ 0 \in 0 .. q /\ N + 0 = N
      BY <1>0, <1>4
    <2>2. off2[N] = t + c /\ off2[N - 1] = off[N - 1] /\ off[N - 1] \in Nat /\ p \in Seq(Cell)
      BY <1>1, <1>7, <1>8, <2>1
    <2>3. c \in 0 .. D
      BY <1>4, <2>1
    <2>4. u \in Nat /\ off[N - 1] + u = t
      BY <1>1, <1>2, <1>7, <2>1
    <2>5. e \in Seq(Cell) /\ Len(e) = c - 0 /\ \A i \in 1 .. c - 0 : e[i] = d[0 + i]
      <3>1. 0 \in 0 .. Len(d) /\ c \in 0 .. Len(d)
        BY <1>01, <2>3 DEF D
      <3> HIDE DEF c
      <3> QED
        BY <3>1, SliceFacts DEF c
    <2>6. c - 0 = c /\ \A i \in 1 .. c : 0 + i = i
      BY <1>01, <2>3
    <2>7. s2[N] = p \o e
      <3>1. 0 + 1 = 1
        OBVIOUS
      <3> QED
        BY <1>5, <3>1
    <2>8. e \in Seq(Cell) /\ Len(e) = c /\ \A i \in 1 .. c : e[i] = d[i]
      BY <2>5, <2>6
    <2> HIDE DEF p, e, c, u
    <2>9. Len(p \o e) = u + c /\ (\A i \in 1 .. u : (p \o e)[i] = p[i]) /\ \A i \in 1 .. c : (p \o e)[u + i] = e[i]
      <3>1. p \in Seq(Cell) /\ e \in Seq(Cell) /\ Len(e) = c
        BY <2>2, <2>8
      <3>2. /\ Len(p \o e) = Len(p) + Len(e)
            /\ \A i \in 1 .. Len(p) : (p \o e)[i] = p[i]
            /\ \A i \in 1 .. Len(e) : (p \o e)[Len(p) + i] = e[i]
        BY <3>1, ConcatCells
      <3> QED
        BY <3>1, <3>2 DEF u
    <2> DEFINE o == off[N - 1]
    <2>91. o \in Nat /\ u \in Nat /\ c \in 0 .. D /\ o + u = t
      BY <2>2, <2>3, <2>4
    <2>92. \A i \in 1 .. u : T[o + i] = p[i]
      BY <1>3, <2>1 DEF p, u
    <2> HIDE DEF o
    <2>10. ASSUME NEW i \in 1 .. u + c PROVE T2[o + i] = (p \o e)[i]
      <3>0. i \in Nat /\ 1 <= i /\ i <= u + c
        BY <1>01, <2>91
      <3>1. CASE i <= u
        <4>1. i \in 1 .. u /\ o + i \in 1 .. t
          BY <1>01, <2>91, <3>0, <3>1
        <4> QED
          BY <1>6, <2>9, <2>92, <4>1
      <3>2. CASE i > u
        <4>1. i - u \in 1 .. c /\ i - u \in 1 .. D /\ o + i = t + (i - u) /\ i = u + (i - u)
          BY <1>01, <2>91, <3>0, <3>2
        <4>2. T2[t + (i - u)] = d[i - u]
          BY <1>6, <4>1
        <4>3. (p \o e)[u + (i - u)] = e[i - u]
          BY <2>9, <4>1
        <4> QED
          BY <2>8, <4>1, <4>2, <4>3
      <3>3. i <= u \/ i > u
        BY <2>91, <3>0
      <3> QED
        BY <3>1, <3>2, <3>3
    <2>11. t + c = o + (u + c)
      BY <1>01, <2>91
    <2> QED
      BY <2>2, <2>7, <2>9, <2>10, <2>11 DEF o
  <1>11. ASSUME NEW j \in 1 .. q
         PROVE  /\ off2[N + j] = off2[(N + j) - 1] + Len(s2[N + j])
                /\ \A i \in 1 .. Len(s2[N + j]) : T2[off2[(N + j) - 1] + i] = s2[N + j][i]
    <2> DEFINE a == cut[j - 1]
               c == cut[j]
               e == SubSeq(d, a + 1, c)
    <2>1. j \in 0 .. q /\ j - 1 \in 0 .. q /\ (N + j) - 1 = N + (j - 1)
      BY <1>0, <1>4
    <2>2. a \in 0 .. D /\ c \in 0 .. D /\ a <= c
      BY <1>4, <2>1
    <2>3. off2[N + j] = t + c /\ off2[(N + j) - 1] = t + a /\ s2[N + j] = e
      BY <1>5, <1>8, <2>1
    <2>4. a \in 0 .. Len(d) /\ c \in a .. Len(d)
      BY <1>01, <2>2 DEF D
    <2> HIDE DEF a, c
    <2>5. e \in Seq(Cell) /\ Len(e) = c - a /\ \A i \in 1 .. c - a : e[i] = d[a + i]
      BY <2>4, SliceFacts
    <2> HIDE DEF e
    <2>6. t + c = (t + a) + (c - a)
      BY <1>01, <2>2
    <2>7. ASSUME NEW i \in 1 .. c - a PROVE T2[(t + a) + i] = e[i]
      <3>1. a + i \in 1 .. D /\ (t + a) + i = t + (a + i)
        BY <1>01, <2>2
      <3> QED
        BY <1>6, <2>5, <3>1
    <2> QED
      BY <2>3, <2>5, <2>6, <2>7
  <1>12. \A k \in 1 .. Q : k \in 1 .. N - 1 \/ k = N \/ (k - N \in 1 .. q /\ N + (k - N) = k)
    BY <1>0, <1>4 DEF Q
  <1>13. ASSUME NEW k \in 1 .. Q
         PROVE  /\ off2[k] = off2[k - 1] + Len(s2[k])
                /\ \A i \in 1 .. Len(s2[k]) : T2[off2[k - 1] + i] = s2[k][i]
    <2>1. CASE k \in 1 .. N - 1
      BY <1>9, <2>1
    <2>2. CASE k = N
      BY <1>10, <2>2
    <2>3. CASE k - N \in 1 .. q /\ N + (k - N) = k
      <3> DEFINE j == k - N
      <3>1. j \in 1 .. q /\ N + j = k
        BY <2>3
      <3> HIDE DEF j
      <3> QED
        BY <1>11, <3>1
    <2> QED
      BY <1>12, <2>1, <2>2, <2>3
  <1>14. Len(T2) = off2[Q]
    <2>1. q \in 0 .. q
      BY <1>4
    <2> QED
      BY <1>4, <1>6, <1>8, <2>1 DEF Q
  <1>15. Joined(s2, off2, T2)
    <2>1. Offsets(s2, off2)
      BY <1>5, <1>8, <1>13 DEF Offsets
    <2>2. \A j \in 1 .. Len(s2) : \A i \in 1 .. Len(s2[j]) : T2[off2[j - 1] + i] = s2[j][i]
      BY <1>5, <1>13
    <2> QED
      BY <1>5, <1>14, <2>1, <2>2 DEF Joined
  <1> QED
    BY <1>15 DEF T2

(* How many buffers d needs behind the last of the list, and how it is cut.*)
Needed(c, blank) == IF c <= blank THEN 0 ELSE 1 + (c - blank - 1) \div BufSize
Upto(blank, j) == blank + j * BufSize
Cut(c, blank, j) == IF Upto(blank, j) < c THEN Upto(blank, j) ELSE c

LEMMA TimesGrows == ASSUME NEW a \in Nat, NEW b \in Nat, NEW x \in Nat, a <= b PROVE a * x <= b * x
  <1>1. PICK k \in Nat : b = a + k
    <2>1. b - a \in Nat /\ b = a + (b - a)
      OBVIOUS
    <2> QED
      BY <2>1
  <1>2. (a + k) * x = a * x + k * x
    OBVIOUS
  <1>3. a * x \in Nat /\ k * x \in Nat
    OBVIOUS
  <1> DEFINE p == a * x
             r == k * x
             t == (a + k) * x
  <1>4. t = p + r /\ p \in Nat /\ r \in Nat
    BY <1>2, <1>3
  <1>5. b * x = t
    BY <1>1
  <1> HIDE DEF p, r, t
  <1>6. p <= t
    BY <1>4
  <1> QED
    BY <1>5, <1>6 DEF p

NeededIs(c, blank, q) ==
    /\ q \in Nat /\ c <= Upto(blank, q)
    /\ \A j \in 1 .. q : Upto(blank, j - 1) < c
    /\ \A F \in Nat : c < F * BufSize => q <= F

LEMMA UptoFacts ==
    ASSUME NEW blank \in Nat, NEW j \in Nat
    PROVE  /\ Upto(blank, j) \in Nat /\ Upto(blank, j + 1) = Upto(blank, j) + BufSize
           /\ Upto(blank, 0) = blank
  <1>1. BufSize \in Nat
    OBVIOUS
  <1>2. j * BufSize \in Nat /\ (j + 1) * BufSize = j * BufSize + BufSize /\ 0 * BufSize = 0
    BY <1>1
  <1> DEFINE p == j * BufSize
             r == (j + 1) * BufSize
             z == 0 * BufSize
  <1> HIDE DEF p, r, z
  <1>3. p \in Nat /\ r = p + BufSize /\ z = 0
    BY <1>2 DEF p, r, z
  <1>4. blank + p \in Nat /\ blank + r = (blank + p) + BufSize /\ blank + z = blank
    BY <1>1, <1>3
  <1> QED
    BY <1>4 DEF Upto, p, r, z

(* As many buffers as are needed are enough, and none is left empty; where *)
(* the bound check passes they are no more than BufSize times goes into    *)
(* it.                                                                     *)
LEMMA NeededFacts ==
    ASSUME NEW c \in Nat, NEW blank \in Nat
    PROVE  NeededIs(c, blank, Needed(c, blank))
  <1> DEFINE q == Needed(c, blank)
             B == BufSize
  <1>0. B \in Nat \ {0}
    OBVIOUS
  <1>1. CASE c <= blank
    <2>1. q = 0
      BY <1>1 DEF Needed
    <2>2. Upto(blank, 0) = blank
      <3>1. 0 \in Nat
        OBVIOUS
      <3> QED
        BY <3>1, UptoFacts
    <2> HIDE DEF q
    <2> QED
      BY <1>1, <2>1, <2>2 DEF NeededIs, q
  <1>2. CASE c > blank
    <2> DEFINE x == c - blank - 1
               w == x \div B
    <2>1. x \in Nat /\ c = (blank + x) + 1
      BY <1>2
    <2> HIDE DEF x
    <2>2. w \in Nat /\ x = B * w + (x % B) /\ x % B \in 0 .. B - 1
      <3> HIDE DEF B
      <3> QED
        BY <1>0, <2>1
    <2>3. q = 1 + w
      BY <1>2 DEF Needed, x
    <2>4. B * w = w * B
      BY <2>2
    <2> HIDE DEF w, q
    <2> DEFINE p == w * B
               r == x % B
    <2>5. p \in Nat /\ x = p + r /\ r \in Nat /\ r < B
      <3>1. p \in Nat
        BY <1>0, <2>2
      <3> QED
        BY <2>2, <2>4, <3>1
    <2>6. Upto(blank, w) = blank + p
      BY DEF Upto
    <2>7. Upto(blank, w + 1) = Upto(blank, w) + B /\ w + 1 = q /\ q \in Nat
      BY <2>2, <2>3, UptoFacts
    <2> HIDE DEF p, r
    <2>8. c <= Upto(blank, q)
      <3> HIDE DEF B
      <3> QED
        BY <1>0, <2>1, <2>5, <2>6, <2>7
    <2>9. ASSUME NEW j \in 1 .. q PROVE Upto(blank, j - 1) < c
      <3>1. j - 1 \in Nat /\ j - 1 <= w
        BY <2>2, <2>7
      <3>2. (j - 1) * B <= p /\ (j - 1) * B \in Nat
        BY <1>0, <2>2, <3>1, TimesGrows DEF p
      <3>3. Upto(blank, j - 1) = blank + (j - 1) * B
        BY DEF Upto
      <3> DEFINE y == (j - 1) * B
      <3> HIDE DEF y, B
      <3> QED
        BY <2>1, <2>5, <3>2, <3>3 DEF y
    <2>10. ASSUME NEW F \in Nat, c < F * B PROVE q <= F
      <3> SUFFICES ASSUME ~(q <= F) PROVE FALSE
        OBVIOUS
      <3>1. F <= w
        BY <2>2, <2>7
      <3>2. F * B <= p /\ F * B \in Nat
        BY <1>0, <2>2, <3>1, TimesGrows DEF p
      <3> DEFINE y == F * B
      <3>3. y <= p /\ y \in Nat /\ c < y
        BY <2>10, <3>2
      <3> HIDE DEF y, B
      <3> QED
        BY <2>1, <2>5, <3>3
    <2> QED
      BY <2>7, <2>8, <2>9, <2>10 DEF NeededIs, q
  <1> QED
    BY <1>1, <1>2

(* The cuts go up to the end of d, and no piece is longer than a buffer.   *)
LEMMA CutFacts ==
    ASSUME NEW c \in Nat, NEW blank \in Nat
    PROVE  LET q == Needed(c, blank)
           IN  /\ \A j \in Nat : Cut(c, blank, j) \in 0 .. c
               /\ Cut(c, blank, q) = c
               /\ \A j \in 1 .. q : /\ Cut(c, blank, j - 1) = Upto(blank, j - 1)
                                    /\ Cut(c, blank, j - 1) < Cut(c, blank, j)
                                    /\ Cut(c, blank, j) - Cut(c, blank, j - 1) <= BufSize
               /\ Cut(c, blank, 0) <= blank
  <1> DEFINE q == Needed(c, blank)
             B == BufSize
  <1>0. B \in Nat \ {0}
    OBVIOUS
  <1>1. /\ q \in Nat /\ c <= Upto(blank, q)
        /\ \A j \in 1 .. q : Upto(blank, j - 1) < c
    BY NeededFacts DEF NeededIs
  <1>2. \A j \in Nat : /\ Upto(blank, j) \in Nat
                       /\ Upto(blank, j) < c => Cut(c, blank, j) = Upto(blank, j)
                       /\ ~(Upto(blank, j) < c) => Cut(c, blank, j) = c
    BY UptoFacts DEF Cut
  <1> HIDE DEF q
  <1>3. \A j \in Nat : Cut(c, blank, j) \in 0 .. c
    <2> TAKE j \in Nat
    <2> DEFINE u == Upto(blank, j)
               k == Cut(c, blank, j)
    <2>1. u \in Nat /\ (u < c => k = u) /\ (~(u < c) => k = c)
      BY <1>2
    <2> HIDE DEF u, k
    <2>2. k \in 0 .. c
      BY <2>1
    <2> QED
      BY <2>2 DEF k
  <1>4. Cut(c, blank, q) = c
    <2>1. Upto(blank, q) \in Nat /\ ~(Upto(blank, q) < c)
      BY <1>1, <1>2
    <2> QED
      BY <1>1, <1>2, <2>1
  <1>5. ASSUME NEW j \in 1 .. q
        PROVE  /\ Cut(c, blank, j - 1) = Upto(blank, j - 1)
               /\ Cut(c, blank, j - 1) < Cut(c, blank, j)
               /\ Cut(c, blank, j) - Cut(c, blank, j - 1) <= B
    <2>1. j \in Nat /\ j - 1 \in Nat /\ (j - 1) + 1 = j
      BY <1>1
    <2>2. Upto(blank, j - 1) < c /\ Cut(c, blank, j - 1) = Upto(blank, j - 1)
      BY <1>1, <1>2, <2>1
    <2>3. Upto(blank, j) = Upto(blank, j - 1) + B
      <3>1. Upto(blank, (j - 1) + 1) = Upto(blank, j - 1) + B
        BY <2>1, UptoFacts
      <3> QED
        BY <2>1, <3>1
    <2> DEFINE u == Upto(blank, j - 1)
               v == Upto(blank, j)
               k == Cut(c, blank, j)
    <2>4. u \in Nat /\ u < c /\ v = u + B /\ (v < c => k = v) /\ (~(v < c) => k = c)
      BY <1>2, <2>1, <2>2, <2>3
    <2> HIDE DEF u, v, k, B
    <2>5. u < k /\ k - u <= B
      <3>1. CASE v < c
        BY <1>0, <2>4, <3>1
      <3>2. CASE ~(v < c)
        BY <1>0, <2>4, <3>2
      <3> QED
        BY <3>1, <3>2
    <2> QED
      BY <2>2, <2>5 DEF u, k
  <1>6. Cut(c, blank, 0) <= blank
    <2>1. 0 \in Nat /\ Upto(blank, 0) = blank
      BY UptoFacts
    <2>2. (blank < c => Cut(c, blank, 0) = blank) /\ (~(blank < c) => Cut(c, blank, 0) = c)
      BY <1>2, <2>1
    <2> QED
      BY <2>2
  <1> QED
    BY <1>3, <1>4, <1>5, <1>6 DEF q

BlankIn(l) == BufSize - Len(mb[l[Len(l)]].buf)
PieceOf(d, blank, j) == SubSeq(d, Cut(Len(d), blank, j - 1) + 1, Cut(Len(d), blank, j))

(* d is on the list l, of which new are the next q buffers.                *)
Strung(l, d, new, q, m2) ==
    LET blank == BlankIn(l)
        tail == l[Len(l)]
    IN  /\ \A b \in Buf : b # tail /\ (\A j \in 1 .. q : new[j] # b) => m2[b] = mb[b]
        /\ m2[tail] = [use |-> mb[tail].use,
                       buf |-> mb[tail].buf \o SubSeq(d, 1, Cut(Len(d), blank, 0)),
                       next |-> IF 0 < q THEN new[1] ELSE None]
        /\ \A j \in 1 .. q :
              m2[new[j]] = [use |-> TRUE, buf |-> PieceOf(d, blank, j),
                            next |-> IF j < q THEN new[j + 1] ELSE None]

Longer(l, new, q) == [k \in 1 .. Len(l) + q |-> IF k <= Len(l) THEN l[k] ELSE new[k - Len(l)]]

(* Its length and its buffers.                                             *)
LEMMA LongerFacts ==
    ASSUME NEW l \in Seq(Buf), NEW new \in Seq(Buf), NEW q \in 0 .. Len(new)
    PROVE  /\ Longer(l, new, q) \in Seq(Buf) /\ Len(Longer(l, new, q)) = Len(l) + q
           /\ \A k \in 1 .. Len(l) : Longer(l, new, q)[k] = l[k]
           /\ \A j \in 1 .. q : Longer(l, new, q)[Len(l) + j] = new[j]
  <1> DEFINE N == Len(l)
             Q == N + q
             l2 == Longer(l, new, q)
  <1>0. N \in Nat /\ Len(new) \in Nat
    OBVIOUS
  <1>1. q \in Nat /\ q <= Len(new) /\ 1 .. q \subseteq 1 .. Len(new)
    BY <1>0
  <1>2. l2 = [k \in 1 .. Q |-> IF k <= N THEN l[k] ELSE new[k - N]]
    BY DEF Longer
  <1>3. (\A k \in 1 .. N : l[k] \in Buf) /\ \A j \in 1 .. q : new[j] \in Buf
    BY <1>1
  <1> HIDE DEF l2, N
  <1>4. Q \in Nat /\ \A k \in 1 .. Q : (k <= N => k \in 1 .. N) /\ (~(k <= N) => k - N \in 1 .. q)
    BY <1>0, <1>1
  <1>5. \A k \in 1 .. N : k \in 1 .. Q /\ k <= N
    BY <1>0, <1>1
  <1>6. \A j \in 1 .. q : N + j \in 1 .. Q /\ ~(N + j <= N) /\ (N + j) - N = j
    BY <1>0, <1>1
  <1> HIDE DEF Q
  <1>7. \A k \in 1 .. Q : (IF k <= N THEN l[k] ELSE new[k - N]) \in Buf
    BY <1>3, <1>4
  <1>8. l2 \in Seq(Buf) /\ Len(l2) = Q
    BY <1>2, <1>4, <1>7
  <1>9. \A k \in 1 .. N : l2[k] = l[k]
    BY <1>2, <1>5
  <1>10. \A j \in 1 .. q : l2[N + j] = new[j]
    BY <1>2, <1>6
  <1> QED
    BY <1>8, <1>9, <1>10 DEF l2, N, Q

(* What comes into use is that much more.                                  *)
TakesUp(m, m2, G) ==
    /\ G \in SUBSET Buf /\ \A b \in G : ~m[b].use
    /\ \A b \in Buf : m2[b].use <=> m[b].use \/ b \in G

LEMMA UsedMore ==
    ASSUME NEW m, NEW m2, NEW G, NEW n, Cardinality(G) = n, TakesUp(m, m2, G)
    PROVE  Cardinality(UsedIn(m2)) = Cardinality(UsedIn(m)) + n
  <1>0. G \in SUBSET Buf
    BY DEF TakesUp
  <1>1. UsedIn(m2) = UsedIn(m) \union G /\ UsedIn(m) \cap G = {}
    BY DEF UsedIn, TakesUp
  <1>2. IsFiniteSet(UsedIn(m)) /\ IsFiniteSet(G) /\ Cardinality({}) = 0
    BY <1>0, UsedFinite, BufFinite, FS_Subset, FS_EmptySet
  <1>3. Cardinality(UsedIn(m2)) = Cardinality(UsedIn(m)) + Cardinality(G) - Cardinality({})
    BY <1>1, <1>2, FS_Union
  <1>4. Cardinality(UsedIn(m)) \in Nat /\ Cardinality(G) \in Nat
    BY <1>2, FS_CardinalityType
  <1> QED
    BY <1>2, <1>3, <1>4

(* Whatever joins a list, the lists stay what they were.                   *)
Joins(m, m2, H, h, d) ==
    /\ m2 \in Mem /\ Pool(m2, H)
    /\ TextIn(m2, h) = TextIn(m, h) \o d
    /\ \A g \in H : g # h => TextIn(m2, g) = TextIn(m, g)

NotOverfull(m) == \A b \in Buf : Len(m[b].buf) <= BufSize

(* Stringing buffers behind a list puts d at the end of its text, and      *)
(* leaves the other lists and their texts alone.                           *)
LEMMA AppendKeeps ==
    ASSUME mb \in Mem, NotOverfull(mb), NEW H \in SUBSET Buf, Pool(mb, H), NEW h \in H,
           NEW d \in Seq(Cell), NEW m2, m2 = [b \in Buf |-> m2[b]],
           LET q == Needed(Len(d), BlankIn(ListFrom(h)))
           IN  q <= Len(FreeInOrder) /\ Strung(ListFrom(h), d, FreeInOrder, q, m2)
    PROVE  /\ Joins(mb, m2, H, h, d) /\ NotOverfull(m2)
           /\ Cardinality(UsedIn(m2))
              = Cardinality(UsedIn(mb)) + Needed(Len(d), BlankIn(ListFrom(h)))
  <1> DEFINE L == ListsIn(mb, H)
             l == L[h]
             T == TextIn(mb, h)
             s == Bufs(mb, l)
             new == FreeInOrder
             blank == BlankIn(l)
             D == Len(d)
             q == Needed(D, blank)
             N == Len(l)
             tail == l[N]
             l2 == Longer(l, new, q)
             s2 == Bufs(m2, l2)
             Q == N + q
             cut == [j \in 0 .. q |-> Cut(D, blank, j)]
  <1>1. /\ Lists(mb, H, L) /\ h \in Buf
        /\ IsChain(mb, h, l) /\ TailFull(mb, l)
    BY ListsAre DEF Pool
  <1>2. \A g \in H : L[g] = ListIn(mb, g)
    BY DEF ListsIn
  <1>3. ListFrom(h) = l
    BY <1>2, ListFromIs
  <1>4. IsJoined(s, T)
    BY <1>1, TextOf
  <1>5. PICK off : Joined(s, off, T)
    BY <1>4 DEF IsJoined
  <1>6. T \in Seq(Cell)
    BY <1>4 DEF IsJoined
  <1> HIDE DEF T, l, L, new
  <1>7. l \in Seq(Buf) /\ N \in Nat /\ N >= 1 /\ l[1] = h
    BY <1>1 DEF IsChain
  <1>8. /\ \A k \in 1 .. N : mb[l[k]].next = IF k < N THEN l[k + 1] ELSE None
        /\ \A i, j \in 1 .. N : l[i] = l[j] => i = j
        /\ \A k \in 1 .. N : l[k] \in Buf
        /\ N \in 1 .. N /\ 1 \in 1 .. N
    BY <1>1, <1>7 DEF IsChain
  <1>9. /\ new \in Seq(Buf) /\ Len(new) \in Nat
        /\ \A i \in 1 .. Len(new) : new[i] \in Buf /\ ~mb[new[i]].use
        /\ \A i, j \in 1 .. Len(new) : new[i] = new[j] => i = j
    BY FreeFacts DEF new
  <1>10. \A b \in Buf : OnList(b, l) => mb[b].use
    BY <1>1, ListsAre DEF l
  <1>11. D \in Nat /\ blank \in Nat /\ blank = BufSize - Len(mb[tail].buf) /\ mb[tail].buf \in Seq(Cell) /\ tail \in Buf
    <2>1. tail \in Buf
      BY <1>8
    <2>2. mb[tail].buf \in Seq(Cell)
      BY <2>1 DEF Mem, BufRec
    <2>3. Len(mb[tail].buf) \in Nat /\ Len(mb[tail].buf) <= BufSize
      BY <2>1, <2>2 DEF NotOverfull
    <2>4. blank = BufSize - Len(mb[tail].buf)
      BY DEF BlankIn
    <2> DEFINE x == Len(mb[tail].buf)
    <2>5. x \in Nat /\ x <= BufSize /\ blank = BufSize - x /\ BufSize \in Nat
      BY <2>3, <2>4
    <2> HIDE DEF x, blank
    <2>6. blank \in Nat
      BY <2>5
    <2>7. D \in Nat
      OBVIOUS
    <2> QED
      BY <2>1, <2>2, <2>4, <2>6, <2>7
  <1> HIDE DEF D, blank
  <1>12. q \in Nat /\ q <= Len(new) /\ Strung(l, d, new, q, m2)
    <2>1. q \in Nat
      BY <1>11, NeededFacts DEF NeededIs
    <2> QED
      BY <1>3, <2>1 DEF D, blank, new
  <1>13. /\ \A j \in 0 .. q : Cut(D, blank, j) \in 0 .. D
         /\ Cut(D, blank, q) = D
         /\ \A j \in 1 .. q : /\ Cut(D, blank, j - 1) < Cut(D, blank, j)
                              /\ Cut(D, blank, j) - Cut(D, blank, j - 1) <= BufSize
         /\ Cut(D, blank, 0) <= blank
    <2>1. 0 .. q \subseteq Nat
      BY <1>12
    <2> QED
      BY <1>11, <2>1, CutFacts
  <1> HIDE DEF q
  <1>14. /\ cut \in [0 .. q -> 0 .. D] /\ cut[q] = D /\ cut[0] <= blank
         /\ \A j \in 1 .. q : cut[j - 1] < cut[j] /\ cut[j] - cut[j - 1] <= BufSize
         /\ \A j \in 0 .. q : cut[j] = Cut(D, blank, j)
         /\ \A j \in 1 .. q : j \in 0 .. q /\ j - 1 \in 0 .. q
    <2>1. q \in 0 .. q /\ 0 \in 0 .. q /\ \A j \in 1 .. q : j \in 0 .. q /\ j - 1 \in 0 .. q
      BY <1>12
    <2> QED
      BY <1>13, <2>1
  <1> HIDE DEF cut
  <1>15. /\ \A b \in Buf : b # tail /\ (\A j \in 1 .. q : new[j] # b) => m2[b] = mb[b]
         /\ m2[tail].use = mb[tail].use
         /\ m2[tail].buf = mb[tail].buf \o SubSeq(d, 1, cut[0])
         /\ m2[tail].next = IF 0 < q THEN new[1] ELSE None
         /\ \A j \in 1 .. q :
               /\ m2[new[j]].use
               /\ m2[new[j]].buf = SubSeq(d, cut[j - 1] + 1, cut[j])
               /\ m2[new[j]].next = IF j < q THEN new[j + 1] ELSE None
    <2>1. 0 \in 0 .. q
      BY <1>12
    <2>2. cut[0] = Cut(D, blank, 0)
      BY <1>14, <2>1
    <2>3. m2[tail] = [use |-> mb[tail].use, buf |-> mb[tail].buf \o SubSeq(d, 1, cut[0]),
                      next |-> IF 0 < q THEN new[1] ELSE None]
      BY <1>12, <2>2, Zenon DEF Strung, D, blank
    <2>4. \A b \in Buf : b # tail /\ (\A j \in 1 .. q : new[j] # b) => m2[b] = mb[b]
      BY <1>12, Zenon DEF Strung
    <2>5. ASSUME NEW j \in 1 .. q
          PROVE  m2[new[j]] = [use |-> TRUE, buf |-> SubSeq(d, cut[j - 1] + 1, cut[j]),
                               next |-> IF j < q THEN new[j + 1] ELSE None]
      <3>1. cut[j - 1] = Cut(D, blank, j - 1) /\ cut[j] = Cut(D, blank, j)
        BY <1>14
      <3> QED
        BY <1>12, <3>1, Zenon DEF Strung, PieceOf, D, blank
    <2>6. /\ m2[tail].use = mb[tail].use
          /\ m2[tail].buf = mb[tail].buf \o SubSeq(d, 1, cut[0])
          /\ m2[tail].next = IF 0 < q THEN new[1] ELSE None
      <3> DEFINE u == mb[tail].use
                 x == mb[tail].buf \o SubSeq(d, 1, cut[0])
                 nx == IF 0 < q THEN new[1] ELSE None
      <3>1. m2[tail] = [use |-> u, buf |-> x, next |-> nx]
        BY <2>3
      <3> HIDE DEF u, x, nx
      <3>2. m2[tail].use = u /\ m2[tail].buf = x /\ m2[tail].next = nx
        BY <3>1
      <3> QED
        BY <3>2 DEF u, x, nx
    <2>7. ASSUME NEW j \in 1 .. q
          PROVE  /\ m2[new[j]].use
                 /\ m2[new[j]].buf = SubSeq(d, cut[j - 1] + 1, cut[j])
                 /\ m2[new[j]].next = IF j < q THEN new[j + 1] ELSE None
      <3> DEFINE x == SubSeq(d, cut[j - 1] + 1, cut[j])
                 nx == IF j < q THEN new[j + 1] ELSE None
      <3>1. m2[new[j]] = [use |-> TRUE, buf |-> x, next |-> nx]
        BY <2>5
      <3> HIDE DEF x, nx
      <3>2. m2[new[j]].use /\ m2[new[j]].buf = x /\ m2[new[j]].next = nx
        BY <3>1
      <3> QED
        BY <3>2 DEF x, nx
    <2> QED
      BY <2>4, <2>6, <2>7, Zenon
  <1>16. /\ l2 \in Seq(Buf) /\ Len(l2) = Q
         /\ \A k \in 1 .. N : l2[k] = l[k]
         /\ \A j \in 1 .. q : l2[N + j] = new[j]
    <2>1. q \in 0 .. Len(new)
      BY <1>9, <1>12
    <2> QED
      BY <1>7, <1>9, <2>1, LongerFacts
  <1> HIDE DEF l2
  <1>17. /\ Q \in Nat /\ Q >= 1 /\ Q = N + q
         /\ \A k \in 1 .. Q : k \in 1 .. N \/ (k - N \in 1 .. q /\ N + (k - N) = k)
         /\ \A k \in 1 .. N : k \in 1 .. Q
         /\ \A j \in 1 .. q : N + j \in 1 .. Q /\ N + j \in 2 .. Q /\ j \in 1 .. Len(new)
    <2>1. N \in Nat /\ N >= 1 /\ q \in Nat /\ q <= Len(new) /\ Len(new) \in Nat
      BY <1>7, <1>9, <1>12
    <2> DEFINE M == Len(new)
    <2> HIDE DEF N, M
    <2>2. Q \in Nat /\ Q >= 1
      BY <2>1
    <2>3. \A k \in 1 .. Q : k \in 1 .. N \/ (k - N \in 1 .. q /\ N + (k - N) = k)
      BY <2>1
    <2>4. \A k \in 1 .. N : k \in 1 .. Q
      BY <2>1
    <2>5. \A j \in 1 .. q : N + j \in 1 .. Q /\ N + j \in 2 .. Q /\ j \in 1 .. M
      BY <2>1 DEF M
    <2> QED
      BY <2>2, <2>3, <2>4, <2>5 DEF M
  <1> HIDE DEF N, Q
  <1>17a. N \in Nat /\ N >= 1 /\ q \in Nat /\ Q \in Nat /\ Q = N + q
    BY <1>7, <1>12, <1>17
  <1>18. \A j \in 1 .. q : new[j] \in Buf /\ ~mb[new[j]].use /\ ~OnList(new[j], l) /\ new[j] # tail
    <2> TAKE j \in 1 .. q
    <2>1. new[j] \in Buf /\ ~mb[new[j]].use
      BY <1>9, <1>17
    <2>2. ~OnList(new[j], l)
      BY <1>10, <2>1
    <2> QED
      BY <1>8, <2>1, <2>2 DEF OnList, N
  <1>19. \A b \in Buf : OnList(b, l2) <=> OnList(b, l) \/ \E j \in 1 .. q : new[j] = b
    <2> TAKE b \in Buf
    <2>1. ASSUME OnList(b, l2) PROVE OnList(b, l) \/ \E j \in 1 .. q : new[j] = b
      <3>1. PICK k \in 1 .. Q : l2[k] = b
        BY <1>16, <2>1 DEF OnList
      <3>2. CASE k \in 1 .. N
        <4>1. l[k] = b
          BY <1>16, <3>1, <3>2
        <4> QED
          BY <3>2, <4>1 DEF OnList, N
      <3>3. CASE k - N \in 1 .. q /\ N + (k - N) = k
        <4>1. l2[N + (k - N)] = new[k - N]
          BY <1>16, <3>3
        <4> QED
          BY <3>1, <3>3, <4>1
      <3> QED
        BY <1>17, <3>2, <3>3
    <2>2. ASSUME OnList(b, l) PROVE OnList(b, l2)
      <3>1. PICK k \in 1 .. N : l[k] = b
        BY <2>2 DEF OnList, N
      <3> QED
        BY <1>16, <1>17, <3>1 DEF OnList
    <2>3. ASSUME NEW j \in 1 .. q, new[j] = b PROVE OnList(b, l2)
      BY <1>16, <1>17, <2>3 DEF OnList
    <2> QED
      BY <2>1, <2>2, <2>3
  <1>20. \A k \in 1 .. N - 1 : k \in 1 .. N /\ l[k] # tail /\ m2[l[k]] = mb[l[k]]
    <2> TAKE k \in 1 .. N - 1
    <2>1. k \in 1 .. N /\ k # N
      BY <1>7
    <2>2. l[k] # tail /\ l[k] \in Buf
      BY <1>8, <2>1
    <2>3. OnList(l[k], l)
      BY <2>1 DEF OnList, N
    <2>4. \A j \in 1 .. q : new[j] # l[k]
      BY <1>18, <2>3
    <2> QED
      BY <1>15, <2>1, <2>2, <2>4
  <1>21. IsChain(m2, h, l2)
    <2>1. ASSUME NEW k \in 1 .. Q PROVE m2[l2[k]].next = IF k < Q THEN l2[k + 1] ELSE None
      <3>1. CASE k \in 1 .. N - 1
        <4>1. m2[l2[k]].next = l[k + 1] /\ k + 1 \in 1 .. N /\ k < Q
          <5>1. k < N /\ k \in 1 .. N /\ k + 1 \in 1 .. N /\ k < Q
            BY <1>17a, <3>1
          <5>2. l2[k] = l[k] /\ m2[l[k]] = mb[l[k]] /\ mb[l[k]].next = l[k + 1]
            BY <1>8, <1>16, <1>20, <3>1, <5>1
          <5> QED
            BY <5>1, <5>2
        <4> QED
          BY <1>16, <4>1
      <3>2. CASE k = N
        <4>1. l2[k] = tail
          BY <1>8, <1>16, <3>2
        <4>2. CASE q = 0
          BY <1>7, <1>12, <1>15, <1>17, <3>2, <4>1, <4>2
        <4>3. CASE q # 0
          <5>1. 0 < q /\ 1 \in 1 .. q /\ k < Q
            BY <1>17a, <3>2, <4>3
          <5> QED
            BY <1>15, <1>16, <3>2, <4>1, <5>1
        <4> QED
          BY <4>2, <4>3
      <3>3. CASE k - N \in 1 .. q /\ N + (k - N) = k
        <4> DEFINE j == k - N
        <4>1. j \in 1 .. q /\ N + j = k
          BY <3>3
        <4> HIDE DEF j
        <4>2. l2[k] = new[j]
          BY <1>16, <4>1
        <4>3. CASE j < q
          <5>1. j + 1 \in 1 .. q /\ k < Q /\ k + 1 = N + (j + 1)
            <6>1. j \in Int /\ k \in Int /\ 1 <= j /\ j < q /\ N + j = k
              BY <1>17a, <4>1, <4>3
            <6>2. j + 1 \in 1 .. q
              BY <1>17a, <6>1
            <6>3. k < Q /\ k + 1 = N + (j + 1)
              BY <1>17a, <6>1
            <6> QED
              BY <6>2, <6>3
          <5>2. l2[k + 1] = new[j + 1]
            BY <1>16, <5>1
          <5> QED
            BY <1>15, <4>1, <4>2, <4>3, <5>1, <5>2
        <4>4. CASE ~(j < q)
          <5>1. ~(k < Q)
            BY <1>17a, <4>1, <4>4
          <5> QED
            BY <1>15, <4>1, <4>2, <4>4, <5>1
        <4> QED
          BY <4>3, <4>4
      <3> QED
        <4>1. k \in 1 .. N - 1 \/ k = N \/ (k - N \in 1 .. q /\ N + (k - N) = k)
          BY <1>7, <1>17
        <4> QED
          BY <3>1, <3>2, <3>3, <4>1
    <2>2. ASSUME NEW i \in 1 .. Q, NEW j \in 1 .. Q, l2[i] = l2[j] PROVE i = j
      <3>1. CASE i \in 1 .. N /\ j \in 1 .. N
        BY <1>8, <1>16, <2>2, <3>1
      <3>2. ASSUME NEW x \in 1 .. N, NEW y \in 1 .. Q, y - N \in 1 .. q /\ N + (y - N) = y PROVE l2[x] # l2[y]
        <4>1. l2[x] = l[x] /\ l2[y] = new[y - N]
          <5>1. l2[N + (y - N)] = new[y - N]
            BY <1>16, <3>2
          <5> QED
            BY <1>16, <3>2, <5>1
        <4>2. OnList(l[x], l)
          BY DEF OnList, N
        <4> QED
          BY <1>18, <3>2, <4>1, <4>2
      <3>3. CASE (i - N \in 1 .. q /\ N + (i - N) = i) /\ (j - N \in 1 .. q /\ N + (j - N) = j)
        <4> DEFINE x == i - N
                   y == j - N
        <4>1. x \in 1 .. q /\ y \in 1 .. q /\ N + x = i /\ N + y = j
          BY <3>3
        <4> HIDE DEF x, y
        <4>2. new[x] = new[y]
          BY <1>16, <2>2, <4>1
        <4>3. x = y
          BY <1>9, <1>17, <4>1, <4>2
        <4> QED
          BY <4>1, <4>3
      <3> QED
        BY <1>17, <2>2, <3>1, <3>2, <3>3
    <2>3. l2[1] = h
      BY <1>7, <1>8, <1>16
    <2> HIDE DEF tail
    <2>4. /\ l2 \in Seq(Buf) /\ Len(l2) >= 1 /\ l2[1] = h
          /\ \A k \in 1 .. Len(l2) : m2[l2[k]].next = IF k < Len(l2) THEN l2[k + 1] ELSE None
          /\ \A i, j \in 1 .. Len(l2) : l2[i] = l2[j] => i = j
      <3>1. Len(l2) = Q /\ l2 \in Seq(Buf) /\ Q >= 1
        BY <1>16, <1>17
      <3>2. \A k \in 1 .. Q : m2[l2[k]].next = IF k < Q THEN l2[k + 1] ELSE None
        BY <2>1, Zenon
      <3>3. \A i, j \in 1 .. Q : l2[i] = l2[j] => i = j
        BY <2>2, Zenon
      <3> QED
        BY <2>3, <3>1, <3>2, <3>3, Zenon
    <2> QED
      BY <2>4, Zenon DEF IsChain
  <1>22. \A j \in 1 .. q : /\ SubSeq(d, cut[j - 1] + 1, cut[j]) \in Seq(Cell)
                           /\ Len(SubSeq(d, cut[j - 1] + 1, cut[j])) = cut[j] - cut[j - 1]
                           /\ SubSeq(d, cut[j - 1] + 1, cut[j]) # <<>>
                           /\ cut[j] - cut[j - 1] \in Nat
    <2> TAKE j \in 1 .. q
    <2> DEFINE a == cut[j - 1]
               c == cut[j]
               e == SubSeq(d, a + 1, c)
    <2>1. a \in 0 .. D /\ c \in 0 .. D /\ a < c
      BY <1>14
    <2>2. a \in 0 .. Len(d) /\ c \in a .. Len(d) /\ c - a \in Nat /\ c - a # 0
      <3> HIDE DEF a, c
      <3>0. D \in Nat /\ a \in Int /\ c \in Int /\ 0 <= a /\ a < c /\ c <= D
        BY <1>11, <2>1
      <3>1. a \in 0 .. D /\ c \in a .. D /\ c - a \in Nat /\ c - a # 0
        BY <3>0
      <3> QED
        BY <3>1 DEF D
    <2> HIDE DEF a, c
    <2>3. e \in Seq(Cell) /\ Len(e) = c - a
      BY <2>2, SliceFacts
    <2> HIDE DEF e
    <2>4. e # <<>>
      BY <2>2, <2>3
    <2> QED
      BY <2>2, <2>3, <2>4 DEF e, a, c
  <1>23. /\ SubSeq(d, 1, cut[0]) \in Seq(Cell) /\ Len(SubSeq(d, 1, cut[0])) = cut[0]
         /\ cut[0] \in 0 .. D
    <2> DEFINE c == cut[0]
               e == SubSeq(d, 0 + 1, c)
    <2>1. 0 \in 0 .. q
      BY <1>12
    <2>2. c \in 0 .. D
      BY <1>14, <2>1
    <2>3. 0 \in 0 .. Len(d) /\ c \in 0 .. Len(d)
      BY <1>11, <2>2 DEF D
    <2> HIDE DEF c
    <2>4. e \in Seq(Cell) /\ Len(e) = c - 0
      BY <2>3, SliceFacts
    <2>5. c - 0 = c /\ 0 + 1 = 1
      BY <1>11, <2>2
    <2> QED
      BY <2>2, <2>4, <2>5 DEF c
  <1>24. TailFull(m2, l2)
    <2> SUFFICES ASSUME NEW k \in 2 .. Q PROVE m2[l2[k]].buf # <<>>
      BY <1>16 DEF TailFull
    <2>1. mb[l[k]].buf # <<>> \/ ~(k \in 1 .. N)
      <3>1. k \in 1 .. N => k \in 2 .. N
        BY <1>17
      <3> QED
        BY <1>1, <3>1 DEF TailFull, N
    <2>2. CASE k \in 1 .. N - 1
      BY <1>16, <1>20, <2>1, <2>2
    <2>3. CASE k = N
      <3> DEFINE x == mb[tail].buf
                 y == SubSeq(d, 1, cut[0])
      <3>1. l2[k] = tail /\ m2[tail].buf = x \o y /\ x # <<>>
        BY <1>8, <1>15, <1>16, <2>1, <2>3
      <3>2. x \in Seq(Cell) /\ y \in Seq(Cell)
        BY <1>11, <1>23
      <3> HIDE DEF x, y
      <3>3. Len(x) \in Nat /\ Len(x) # 0 /\ Len(y) \in Nat
        BY <3>1, <3>2
      <3>4. Len(x \o y) = Len(x) + Len(y)
        BY <3>2, ConcatFacts
      <3>5. x \o y # <<>>
        BY <3>3, <3>4
      <3> QED
        BY <3>1, <3>5
    <2>4. CASE k - N \in 1 .. q /\ N + (k - N) = k
      <3>1. l2[N + (k - N)] = new[k - N] /\ m2[new[k - N]].buf # <<>>
        BY <1>15, <1>16, <1>22, <2>4
      <3> QED
        BY <2>4, <3>1
    <2> QED
      <3>1. k \in 1 .. Q
        BY <1>17
      <3>2. k \in 1 .. N - 1 \/ k = N \/ (k - N \in 1 .. q /\ N + (k - N) = k)
        BY <1>7, <1>17, <3>1
      <3> QED
        BY <2>2, <2>3, <2>4, <3>2
  <1>25. \A b \in Buf : OnList(b, l2) => m2[b].use
    <2> TAKE b \in Buf
    <2> HAVE OnList(b, l2)
    <2>1. CASE \E j \in 1 .. q : new[j] = b
      BY <1>15, <2>1
    <2>2. CASE OnList(b, l) /\ ~\E j \in 1 .. q : new[j] = b
      <3>1. mb[b].use
        BY <1>10, <2>2
      <3>2. m2[b].use = mb[b].use
        BY <1>15, <2>2
      <3> QED
        BY <3>1, <3>2
    <2> QED
      BY <1>19, <2>1, <2>2
  <1>26. Becomes(mb, m2, L[h], l2)
    <2>1. \A b \in Buf : OnList(b, l2) => OnList(b, l) \/ ~mb[b].use
      BY <1>18, <1>19
    <2>2. \A b \in Buf : ~OnList(b, l) /\ ~OnList(b, l2) => m2[b] = mb[b]
      <3> TAKE b \in Buf
      <3> HAVE ~OnList(b, l) /\ ~OnList(b, l2)
      <3>1. b # tail
        BY <1>8 DEF OnList, N
      <3>2. \A j \in 1 .. q : new[j] # b
        BY <1>19
      <3> QED
        BY <1>15, <3>1, <3>2
    <2>3. \A b \in Buf : OnList(b, l) /\ ~OnList(b, l2) => m2[b] = FreeBuf
      BY <1>19
    <2> QED
      BY <1>25, <2>1, <2>2, <2>3 DEF Becomes, l
  <1>27. /\ Lists(m2, H, [g \in H |-> IF g = h THEN l2 ELSE L[g]])
         /\ \A g \in H : g # h => SameOn(mb, m2, L[g])
    BY <1>1, <1>21, <1>24, <1>26, OneListChanges
  <1>28. \A b \in Buf : m2[b] \in BufRec /\ Len(m2[b].buf) <= BufSize
    <2> TAKE b \in Buf
    <2>1. mb[b] \in BufRec /\ Len(mb[b].buf) <= BufSize
      BY DEF Mem, NotOverfull
    <2>2. CASE b # tail /\ \A j \in 1 .. q : new[j] # b
      BY <1>15, <2>1, <2>2
    <2>3. CASE b = tail
      <3> DEFINE x == mb[tail].buf
                 y == SubSeq(d, 1, cut[0])
                 nx == IF 0 < q THEN new[1] ELSE None
      <3>1. m2[b] = [use |-> mb[tail].use, buf |-> x \o y, next |-> nx]
        <4>1. 0 \in 0 .. q
          BY <1>12
        <4> QED
          BY <1>12, <1>14, <2>3, <4>1 DEF Strung, D, blank, N
      <3>2. x \in Seq(Cell) /\ y \in Seq(Cell) /\ Len(y) = cut[0] /\ cut[0] \in 0 .. D /\ cut[0] <= blank
            /\ blank = BufSize - Len(x)
        BY <1>11, <1>14, <1>23
      <3>3. nx \in Buf \union {None}
        <4>1. 0 < q => 1 \in 1 .. q
          BY <1>12
        <4> QED
          BY <1>18, <4>1
      <3> HIDE DEF x, y, nx
      <3>4. x \o y \in Seq(Cell) /\ Len(x \o y) = Len(x) + Len(y) /\ Len(x) \in Nat
        <4>1. x \in Seq(Cell) /\ y \in Seq(Cell)
          BY <3>2
        <4>2. x \o y \in Seq(Cell) /\ Len(x \o y) = Len(x) + Len(y)
          BY <4>1, ConcatFacts
        <4>3. Len(x) \in Nat
          BY <4>1
        <4> QED
          BY <4>2, <4>3
      <3>5. Len(x \o y) <= BufSize
        <4> DEFINE o == Len(x)
                   u == cut[0]
        <4>1. o \in Nat /\ u \in Nat /\ u <= blank /\ blank = BufSize - o /\ BufSize \in Nat
          BY <1>11, <3>2, <3>4
        <4>2. Len(x \o y) = o + u
          BY <3>2, <3>4
        <4> HIDE DEF o, u, blank
        <4>3. o + u <= BufSize
          BY <4>1
        <4> QED
          BY <4>2, <4>3
      <3>6. mb[tail].use \in BOOLEAN
        BY <2>1, <2>3 DEF BufRec
      <3> DEFINE v == mb[tail].use
                 z == x \o y
      <3>7. v \in BOOLEAN /\ z \in Seq(Cell) /\ Len(z) <= BufSize /\ m2[b] = [use |-> v, buf |-> z, next |-> nx]
        BY <3>1, <3>4, <3>5, <3>6
      <3> HIDE DEF v, z
      <3>8. m2[b] \in BufRec
        BY <3>3, <3>7 DEF BufRec
      <3>9. m2[b].buf = z
        BY <3>7
      <3> QED
        BY <3>7, <3>8, <3>9
    <2>4. ASSUME NEW j \in 1 .. q, new[j] = b PROVE m2[b] \in BufRec /\ Len(m2[b].buf) <= BufSize
      <3> DEFINE y == SubSeq(d, cut[j - 1] + 1, cut[j])
                 nx == IF j < q THEN new[j + 1] ELSE None
      <3>1. m2[b] = [use |-> TRUE, buf |-> y, next |-> nx]
        <4>1. cut[j - 1] = Cut(D, blank, j - 1) /\ cut[j] = Cut(D, blank, j)
          BY <1>14
        <4>2. m2[new[j]] = [use |-> TRUE, buf |-> PieceOf(d, blank, j), next |-> nx]
          BY <1>12, Zenon DEF Strung, blank
        <4> QED
          BY <2>4, <4>1, <4>2 DEF PieceOf, D
      <3>2. y \in Seq(Cell) /\ Len(y) <= BufSize
        <4>1. y \in Seq(Cell) /\ Len(y) = cut[j] - cut[j - 1] /\ cut[j] - cut[j - 1] <= BufSize
          BY <1>14, <1>22
        <4> QED
          BY <4>1
      <3>3. nx \in Buf \union {None}
        <4>1. j < q => j + 1 \in 1 .. q
          BY <1>12
        <4> QED
          BY <1>18, <4>1
      <3> HIDE DEF y, nx
      <3>4. m2[b] \in BufRec
        <4> DEFINE v == TRUE
                   z == m2[b]
        <4>1. v \in BOOLEAN /\ y \in Seq(Cell) /\ z = [use |-> v, buf |-> y, next |-> nx]
          BY <3>1, <3>2
        <4> HIDE DEF v, z
        <4>2. z \in BufRec
          BY <3>3, <4>1 DEF BufRec
        <4> QED
          BY <4>2 DEF z
      <3>5. m2[b].buf = y
        BY <3>1
      <3> QED
        BY <3>2, <3>4, <3>5
    <2> QED
      BY <2>2, <2>3, <2>4
  <1>29. m2 \in Mem /\ NotOverfull(m2)
    BY <1>28 DEF Mem, NotOverfull
  <1>30. Pool(m2, H)
    BY <1>27, <1>29, PoolFrom
  <1>31. ASSUME NEW g \in H, g # h PROVE TextIn(m2, g) = TextIn(mb, g)
    <2>1. IsChain(mb, g, L[g]) /\ g \in Buf
      BY <1>1, ListsAre
    <2> QED
      BY <1>27, <1>29, <1>31, <2>1, TextStays
  <1>32. TextIn(m2, h) = T \o d
    <2>1. /\ s \in Seq(Seq(Cell)) /\ Len(s) = N /\ \A k \in 1 .. N : s[k] = mb[l[k]].buf
      BY <1>7, BufsTyped DEF N
    <2>2. s2 \in Seq(Seq(Cell)) /\ Len(s2) = Q /\ \A k \in 1 .. Q : s2[k] = m2[l2[k]].buf
      BY <1>16, <1>29, BufsTyped
    <2>3. Joined(s, off, T)
      BY <1>5
    <2> HIDE DEF s, s2
    <2>4. Cuts(d, cut, q)
      <3>1. \A j \in 1 .. q : cut[j - 1] <= cut[j]
        <4> TAKE j \in 1 .. q
        <4>1. cut[j - 1] \in 0 .. D /\ cut[j] \in 0 .. D /\ cut[j - 1] < cut[j]
          BY <1>14
        <4> QED
          BY <1>11, <4>1
      <3> QED
        BY <1>12, <1>14, <3>1 DEF Cuts, D
    <2>5. LongerBy(s, d, cut, q, s2)
      <3>1. \A k \in 1 .. N - 1 : s2[k] = s[k]
        <4> TAKE k \in 1 .. N - 1
        <4>1. k \in 1 .. N /\ k \in 1 .. Q /\ l2[k] = l[k] /\ m2[l[k]] = mb[l[k]]
          BY <1>16, <1>17, <1>20
        <4> QED
          <5>1. s2[k] = m2[l2[k]].buf
            BY <2>2, <4>1
          <5>2. s[k] = mb[l[k]].buf
            BY <2>1, <4>1
          <5> QED
            BY <4>1, <5>1, <5>2
      <3>2. s2[N] = s[N] \o SubSeq(d, 1, cut[0])
        <4>1. N \in 1 .. N /\ N \in 1 .. Q /\ l2[N] = tail
          BY <1>8, <1>16, <1>17
        <4>2. s2[N] = m2[tail].buf /\ s[N] = mb[tail].buf
          <5>1. s2[N] = m2[l2[N]].buf
            BY <2>2, <4>1
          <5>2. s[N] = mb[l[N]].buf
            BY <2>1, <4>1
          <5> QED
            BY <4>1, <5>1, <5>2
        <4> QED
          BY <1>15, <4>2
      <3>3. \A j \in 1 .. q : s2[N + j] = SubSeq(d, cut[j - 1] + 1, cut[j])
        <4> TAKE j \in 1 .. q
        <4>1. N + j \in 1 .. Q /\ l2[N + j] = new[j]
          BY <1>16, <1>17
        <4>2. s2[N + j] = m2[new[j]].buf
          BY <2>2, <4>1
        <4> QED
          BY <1>15, <4>2
      <3> QED
        BY <1>17, <2>1, <2>2, <3>1, <3>2, <3>3 DEF LongerBy
    <2>6. \E off2 : Joined(s2, off2, T \o d)
      <3>1. Len(s) >= 1
        BY <1>7, <2>1
      <3> QED
        BY <1>6, <2>1, <2>2, <2>3, <2>4, <2>5, <3>1, WhatIsLonger
    <2>7. PICK off2 : Joined(s2, off2, T \o d)
      BY <2>6
    <2>8. T \o d \in Seq(Cell)
      BY <1>6, ConcatFacts
    <2> QED
      BY <1>1, <1>21, <1>29, <2>7, <2>8, TextThen DEF s2
  <1>33. Cardinality(UsedIn(m2)) = Cardinality(UsedIn(mb)) + q
    <2> DEFINE J == 1 .. q
               f == [j \in J |-> new[j]]
               G == {new[j] : j \in J}
    <2>1. IsFiniteSet(J) /\ Cardinality(J) = q
      BY <1>12, CountTo
    <2>2. f \in [J -> G] /\ (\A i, j \in J : f[i] = f[j] => i = j)
          /\ \A b \in G : \E j \in J : f[j] = b
      BY <1>9, <1>17
    <2>3. G \in SUBSET Buf /\ (\A b \in G : ~mb[b].use) /\ \A b \in Buf : b \in G <=> \E j \in 1 .. q : new[j] = b
      BY <1>18
    <2> HIDE DEF f, G, J
    <2>4. Cardinality(G) = q
      BY <2>1, <2>2, SameSize
    <2>5. \A b \in Buf : m2[b].use <=> mb[b].use \/ b \in G
      <3> TAKE b \in Buf
      <3>1. CASE b \in G
        BY <1>15, <2>3, <3>1
      <3>2. CASE b \notin G
        <4>0. \A j \in 1 .. q : new[j] # b
          BY <2>3, <3>2
        <4>1. m2[b].use = mb[b].use
          BY <1>15, <4>0
        <4> QED
          BY <3>2, <4>1
      <3> QED
        BY <3>1, <3>2
    <2>6. TakesUp(mb, m2, G)
      BY <2>3, <2>5 DEF TakesUp
    <2> QED
      BY <2>4, <2>6, UsedMore
  <1>34. Joins(mb, m2, H, h, d)
    BY <1>29, <1>30, <1>31, <1>32 DEF Joins, T
  <1> QED
    BY <1>3, <1>29, <1>33, <1>34 DEF q, D, blank


(* What the code's append does is one of three things.                     *)
Undone(next) == pc' = next /\ UNCHANGED mem

Overrun(d) == Fits(d) /\ mbuse # Cardinality(UsedIn(mb)) /\ Undefined

Appended(H, h, d, next) ==
    /\ Fits(d) /\ pc' = next
    /\ Joins(mb, mb', H, h, d) /\ NotOverfull(mb')
    /\ \E q \in Nat : /\ mbuse' = mbuse + q
                      /\ Cardinality(UsedIn(mb')) = Cardinality(UsedIn(mb)) + q

(* An append without the bound check finds its buffers, or does not.       *)
Strings(l, d, q, next) ==
    /\ q <= Len(FreeInOrder)
    /\ Strung(l, d, FreeInOrder, q, mb')
    /\ mb' = [b \in Buf |-> mb'[b]]
    /\ mbuse' = mbuse + q
    /\ pc' = next

LEMMA BlankTyped ==
    ASSUME mb \in Mem, NotOverfull(mb), NEW H \in SUBSET Buf, Pool(mb, H), NEW h \in H,
           NEW d \in Seq(Cell)
    PROVE  BlankIn(ListFrom(h)) \in Nat /\ Len(d) \in Nat
  <1> DEFINE l == ListFrom(h)
             tail == l[Len(l)]
             blank == BlankIn(l)
             x == Len(mb[tail].buf)
  <1>1. IsChain(mb, h, l)
    BY ListsAre, ListFromIs DEF Pool, ListsIn
  <1> HIDE DEF l
  <1>2. tail \in Buf
    <2>1. Len(l) \in Nat /\ Len(l) >= 1 /\ l \in Seq(Buf)
      BY <1>1 DEF IsChain
    <2>2. Len(l) \in 1 .. Len(l)
      BY <2>1
    <2> QED
      BY <2>1, <2>2
  <1>3. mb[tail].buf \in Seq(Cell) /\ Len(mb[tail].buf) <= BufSize
    BY <1>2 DEF Mem, BufRec, NotOverfull
  <1>4. x \in Nat /\ x <= BufSize /\ blank = BufSize - x /\ BufSize \in Nat
    BY <1>3 DEF BlankIn
  <1> HIDE DEF x, blank
  <1>5. blank \in Nat
    BY <1>4
  <1>6. Len(d) \in Nat
    OBVIOUS
  <1> QED
    BY <1>5, <1>6 DEF blank, l

(* The code without its bound check strings the buffers needed, if there   *)
(* are.                                                                    *)
LEMMA AppendStrings ==
    ASSUME mb \in Mem, NotOverfull(mb), NEW H \in SUBSET Buf, Pool(mb, H), NEW h \in H,
           NEW d \in Seq(Cell), NEW next, appendMemBufListUnchecked(h, d, next)
    PROVE  LET q == Needed(Len(d), BlankIn(ListFrom(h)))
           IN  \/ q > Len(FreeInOrder) /\ Undefined
               \/ Strings(ListFrom(h), d, q, next)
  <1> DEFINE l == ListFrom(h)
             new == FreeInOrder
             tail == l[Len(l)]
             blank == BlankIn(l)
             D == Len(d)
             q == Needed(D, blank)
             piece(j) == Slice(d, blank + (j - 1) * BufSize + 1, blank + j * BufSize)
             following(j) == IF j < q THEN new[j + 1] ELSE None
             which(b) == CHOOSE k \in 1 .. q : new[k] = b
             atEnd == [use |-> mb[tail].use, buf |-> mb[tail].buf \o Slice(d, 1, blank),
                       next |-> following(0)]
             behind(j) == [use |-> TRUE, buf |-> piece(j), next |-> following(j)]
  <1>1. IF q > Len(new) THEN Undefined
        ELSE /\ mb' = [b \in Buf |->
                 IF b = tail
                 THEN [use |-> mb[b].use, buf |-> mb[b].buf \o Slice(d, 1, blank),
                       next |-> following(0)]
                 ELSE IF \E j \in 1 .. q : new[j] = b THEN behind(which(b)) ELSE mb[b]]
             /\ mbuse' = mbuse + q
             /\ pc' = next
    BY Zenon DEF appendMemBufListUnchecked, BlankIn, Needed, Last
  <1>2. Lists(mb, H, ListsIn(mb, H)) /\ l = ListsIn(mb, H)[h]
    BY ListFromIs DEF Pool, ListsIn
  <1>3. IsChain(mb, h, l) /\ \A b \in Buf : OnList(b, l) => mb[b].use
    BY <1>2, ListsAre
  <1> HIDE DEF l, new
  <1>4. tail \in Buf /\ OnList(tail, l)
    <2>1. Len(l) \in Nat /\ Len(l) >= 1 /\ l \in Seq(Buf)
      BY <1>3 DEF IsChain
    <2>2. Len(l) \in 1 .. Len(l)
      BY <2>1
    <2> QED
      BY <2>1, <2>2 DEF OnList
  <1>5. mb[tail].use
    BY <1>3, <1>4
  <1>6. /\ Len(new) \in Nat
        /\ \A i \in 1 .. Len(new) : new[i] \in Buf /\ ~mb[new[i]].use
        /\ \A i, j \in 1 .. Len(new) : new[i] = new[j] => i = j
    BY FreeFacts DEF new
  <1>7. D \in Nat /\ blank \in Nat
    BY BlankTyped DEF l
  <1> HIDE DEF blank, D
  <1>8. q \in Nat
    BY <1>7, NeededFacts DEF NeededIs
  <1>9. \A j \in 1 .. q : /\ piece(j) = PieceOf(d, blank, j)
                          /\ following(j) = IF j < q THEN new[j + 1] ELSE None
    <2> TAKE j \in 1 .. q
    <2>1. Cut(D, blank, j - 1) = Upto(blank, j - 1)
      BY <1>7, CutFacts
    <2>2. piece(j) = SubSeq(d, Upto(blank, j - 1) + 1, Cut(D, blank, j))
      BY Zenon DEF Slice, Upto, Cut, D
    <2> QED
      BY <2>1, <2>2, Zenon DEF PieceOf, D
  <1>10. Slice(d, 1, blank) = SubSeq(d, 1, Cut(D, blank, 0))
    <2>1. Upto(blank, 0) = blank
      BY <1>7, UptoFacts
    <2>2. Cut(D, blank, 0) = IF blank < D THEN blank ELSE D
      BY <2>1, Zenon DEF Cut
    <2> QED
      BY <2>2, Zenon DEF Slice, D
  <1>11. following(0) = IF 0 < q THEN new[1] ELSE None
    OBVIOUS
  <1> DEFINE fol == following(0)
             part(j) == piece(j)
  <1> HIDE DEF q
  <1>12. CASE q > Len(new)
    BY <1>1, <1>12 DEF q, D, blank, l, new
  <1>13. CASE ~(q > Len(new))
    <2>1. mb' = [b \in Buf |->
                 IF b = tail
                 THEN [use |-> mb[b].use, buf |-> mb[b].buf \o Slice(d, 1, blank),
                       next |-> following(0)]
                 ELSE IF \E j \in 1 .. q : new[j] = b THEN behind(which(b)) ELSE mb[b]]
          /\ mbuse' = mbuse + q /\ pc' = next
      BY <1>1, <1>13, Zenon
    <2>2. mb'[tail] = [use |-> mb[tail].use, buf |-> mb[tail].buf \o SubSeq(d, 1, Cut(D, blank, 0)),
                       next |-> IF 0 < q THEN new[1] ELSE None]
      <3> HIDE DEF tail, following, behind, which
      <3>1. mb'[tail] = [use |-> mb[tail].use, buf |-> mb[tail].buf \o Slice(d, 1, blank),
                         next |-> following(0)]
        BY <1>4, <2>1, Zenon
      <3> QED
        BY <1>10, <1>11, <3>1, Zenon
    <2>3. ASSUME NEW j \in 1 .. q
          PROVE  mb'[new[j]] = [use |-> TRUE, buf |-> PieceOf(d, blank, j),
                                next |-> IF j < q THEN new[j + 1] ELSE None]
      <3> DEFINE b == new[j]
                 k == which(b)
      <3>1. 1 .. q \subseteq 1 .. Len(new)
        BY <1>6, <1>8, <1>13
      <3>2. b \in Buf /\ b # tail
        BY <1>5, <1>6, <3>1
      <3>3. k \in 1 .. q /\ new[k] = new[j]
        OBVIOUS
      <3> HIDE DEF k
      <3>4. k = j
        BY <1>6, <3>1, <3>3
      <3>5. mb'[b] = behind(k)
        <4> HIDE DEF tail, following, behind, which
        <4>1. mb'[b] = behind(which(b))
          BY <2>1, <3>2, Zenon
        <4> QED
          BY <4>1, Zenon DEF k
      <3> QED
        BY <1>9, <3>4, <3>5, Zenon
    <2>4. ASSUME NEW b \in Buf, b # tail, \A j \in 1 .. q : new[j] # b PROVE mb'[b] = mb[b]
      <3> HIDE DEF tail, following, behind, which
      <3> QED
        BY <2>1, <2>4, Zenon
    <2>5. mb' = [b \in Buf |-> mb'[b]]
      <3> HIDE DEF tail, following, behind, which
      <3> QED
        BY <2>1
    <2>6. Strung(l, d, new, q, mb')
      <3> HIDE DEF which, behind
      <3> QED
        BY <2>2, <2>3, <2>4, Zenon DEF Strung, D, blank
    <2>7. q <= Len(new)
      BY <1>6, <1>8, <1>13
    <2>8. Strings(l, d, q, next)
      BY <2>1, <2>5, <2>6, <2>7, Zenon DEF Strings, new
    <2> QED
      BY <2>8 DEF q, D, blank, l
  <1> QED
    BY <1>12, <1>13

(* With the bound check the buffers are there, if mbuse counts those in    *)
(* use: every byte but one that it allows fits into free buffers.          *)
LEMMA AppendIs ==
    ASSUME mb \in Mem, NotOverfull(mb), mbuse \in Int, NEW H \in SUBSET Buf, Pool(mb, H), NEW h \in H,
           NEW d \in Seq(Cell), NEW next, appendMemBufList(h, d, next)
    PROVE  \/ ~Fits(d) /\ Undone(next)
           \/ Overrun(d)
           \/ Appended(H, h, d, next)
  <1> DEFINE D == Len(d)
             blank == BlankIn(ListFrom(h))
             q == Needed(D, blank)
             new == FreeInOrder
             u == Cardinality(UsedIn(mb))
  <1>1. CASE ~Fits(d)
    BY <1>1 DEF appendMemBufList, Undone
  <1>2. CASE Fits(d)
    <2>1. appendMemBufListUnchecked(h, d, next)
      BY <1>2 DEF appendMemBufList
    <2>2. (q > Len(new) /\ Undefined) \/ Strings(ListFrom(h), d, q, next)
      BY <2>1, AppendStrings
    <2>3. D \in Nat /\ blank \in Nat
      BY BlankTyped
    <2>4. u \in 0 .. MbSize /\ Len(new) = MbSize - u /\ MbSize \in Nat /\ BufSize \in Nat
      BY FreeFacts, UsedFinite
    <2>5. NeededIs(D, blank, q)
      BY <2>3, NeededFacts
    <2> HIDE DEF q
    <2>6. q \in Nat
      BY <2>5 DEF NeededIs
    <2>7. ASSUME q > Len(new) PROVE mbuse # u
      <3> SUFFICES ASSUME mbuse = u PROVE FALSE
        OBVIOUS
      <3> DEFINE F == MbSize - mbuse
      <3>1. F \in Nat /\ F = Len(new)
        BY <2>4
      <3>2. D < F * BufSize
        BY <1>2 DEF Fits, getFreeMem
      <3> HIDE DEF F
      <3>3. q <= F
        BY <2>5, <3>1, <3>2 DEF NeededIs
      <3> HIDE DEF new
      <3> QED
        BY <2>6, <2>7, <3>1, <3>3
    <2>8. CASE q > Len(new) /\ Undefined
      BY <1>2, <2>7, <2>8 DEF Overrun
    <2>9. CASE Strings(ListFrom(h), d, q, next)
      <3>1. /\ q <= Len(new) /\ Strung(ListFrom(h), d, new, q, mb') /\ mb' = [b \in Buf |-> mb'[b]]
            /\ mbuse' = mbuse + q /\ pc' = next
        BY <2>9, Zenon DEF Strings
      <3>2. /\ Joins(mb, mb', H, h, d) /\ NotOverfull(mb')
            /\ Cardinality(UsedIn(mb')) = u + q
        BY <3>1, AppendKeeps DEF q
      <3> QED
        BY <1>2, <2>6, <3>1, <3>2 DEF Appended
    <2> QED
      BY <2>2, <2>8, <2>9
  <1> QED
    BY <1>1, <1>2


-----------------------------------------------------------------------------
(* Two lists begin and end with a connection                               *)

LEMMA EmptyText ==
    ASSUME NEW m \in Mem, NEW h \in Buf, IsChain(m, h, <<h>>), m[h].buf = <<>>
    PROVE  TextIn(m, h) = <<>>
  <1> DEFINE l == <<h>>
             s == Bufs(m, l)
             off == [k \in 0 .. 1 |-> 0]
             T == <<>>
  <1>1. s \in Seq(Seq(Cell)) /\ Len(s) = Len(l) /\ \A k \in 1 .. Len(l) : s[k] = m[l[k]].buf
    <2>1. l \in Seq(Buf)
      OBVIOUS
    <2> HIDE DEF l
    <2> QED
      BY <2>1, BufsTyped
  <1>2. Len(l) = 1 /\ l[1] = h
    OBVIOUS
  <1>3. Len(s) = 1 /\ s[1] = <<>>
    BY <1>1, <1>2
  <1>4. T \in Seq(Cell) /\ Len(T) = 0
    OBVIOUS
  <1>5. off \in [0 .. 1 -> Nat] /\ off[0] = 0 /\ off[1] = 0
    OBVIOUS
  <1> HIDE DEF s, off, l, T
  <1>6. Offsets(s, off)
    BY <1>3, <1>5 DEF Offsets
  <1>7. Joined(s, off, T)
    <2>1. \A k \in 1 .. Len(s) : k = 1
      BY <1>3
    <2>2. \A k \in 1 .. Len(s) : \A i \in 1 .. Len(s[k]) : FALSE
      BY <1>3, <2>1
    <2> QED
      BY <1>3, <1>4, <1>5, <1>6, <2>2 DEF Joined
  <1>8. IsChain(m, h, l)
    BY DEF l
  <1> QED
    BY <1>4, <1>7, <1>8, TextThen DEF s, T

BegunAt(m, m2, H, h) ==
    /\ m2 \in Mem /\ Pool(m2, H \union {h})
    /\ NotOverfull(m) => NotOverfull(m2)
    /\ TextIn(m2, h) = <<>>
    /\ \A g \in H : TextIn(m2, g) = TextIn(m, g)
    /\ Cardinality(UsedIn(m2)) = Cardinality(UsedIn(m)) + 1

Begun(m, m2, H, a, b) ==
    /\ m2 \in Mem /\ Pool(m2, H \union {a, b})
    /\ NotOverfull(m) => NotOverfull(m2)
    /\ TextIn(m2, a) = <<>>
    /\ \A g \in H : TextIn(m2, g) = TextIn(m, g)
    /\ Cardinality(UsedIn(m2)) = Cardinality(UsedIn(m)) + 2

(* A free buffer taken as a first one is an empty list.                    *)
LEMMA OneBegins ==
    ASSUME NEW m \in Mem, NEW H \in SUBSET Buf, Pool(m, H), NEW h \in Buf, ~m[h].use, NEW m2,
           m2 = [m EXCEPT ![h] = NewHead]
    PROVE  h \notin H /\ BegunAt(m, m2, H, h)
  <1> DEFINE L == ListsIn(m, H)
             G == H \union {h}
             K == [g \in G |-> IF g = h THEN <<h>> ELSE L[g]]
  <1>1. NewHead \in BufRec /\ NewHead.use /\ NewHead.buf = <<>>
    <2>1. <<>> \in Seq(Cell)
      OBVIOUS
    <2> QED
      BY <2>1 DEF BufRec, NewHead
  <1>2. Lists(m, H, L)
    BY DEF Pool
  <1> HIDE DEF L, NewHead
  <1>3. m2 \in Mem /\ m2[h] = NewHead /\ \A x \in Buf : x # h => m2[x] = m[x]
    BY <1>1 DEF Mem
  <1>4. h \notin H
    <2>1. \A g \in H : m[g].use
      <3> TAKE g \in H
      <3>1. IsChain(m, g, L[g]) /\ \A b \in Buf : OnList(b, L[g]) => m[b].use
        BY <1>2, ListsAre
      <3>2. Len(L[g]) \in Nat /\ Len(L[g]) >= 1 /\ L[g][1] = g
        BY <3>1 DEF IsChain
      <3>3. 1 \in 1 .. Len(L[g])
        BY <3>2
      <3> QED
        BY <3>1, <3>2, <3>3 DEF OnList
    <2> QED
      BY <2>1
  <1>5. K[h] = <<h>> /\ \A g \in H : K[g] = L[g]
    BY <1>4
  <1> HIDE DEF K
  <1>6. Lists(m2, G, K) /\ \A g \in H : SameOn(m, m2, L[g])
    <2>1. WithList(L, H, h, K)
      BY <1>5 DEF WithList
    <2> QED
      BY <1>2, <2>1, ListBegins
  <1>7. h \in G /\ G \in SUBSET Buf
    OBVIOUS
  <1> HIDE DEF G
  <1>8. Pool(m2, G)
    BY <1>3, <1>6, <1>7, PoolFrom
  <1>9. TextIn(m2, h) = <<>>
    <2>1. IsChain(m2, h, K[h])
      BY <1>6, <1>7 DEF Lists
    <2>2. IsChain(m2, h, <<h>>)
      BY <1>5, <2>1
    <2> QED
      BY <1>1, <1>3, <2>2, EmptyText
  <1>10. ASSUME NEW g \in H PROVE TextIn(m2, g) = TextIn(m, g)
    <2>1. IsChain(m, g, L[g]) /\ SameOn(m, m2, L[g]) /\ g \in Buf
      BY <1>2, <1>6 DEF Lists
    <2> QED
      BY <1>3, <2>1, TextStays
  <1>11. Cardinality(UsedIn(m2)) = Cardinality(UsedIn(m)) + 1
    <2> DEFINE S == {h}
               one == 1
    <2>1. Cardinality(S) = 1
      BY FS_Singleton
    <2>2. \A x \in Buf : m2[x].use <=> m[x].use \/ x \in S
      BY <1>1, <1>3
    <2>3. (\A x \in S : ~m[x].use) /\ S \in SUBSET Buf
      OBVIOUS
    <2> HIDE DEF S, one
    <2>4. Cardinality(S) = one
      BY <2>1 DEF one
    <2>5. TakesUp(m, m2, S)
      BY <2>2, <2>3 DEF TakesUp
    <2>6. Cardinality(UsedIn(m2)) = Cardinality(UsedIn(m)) + one
      BY <2>4, <2>5, UsedMore
    <2> QED
      BY <2>6 DEF one
  <1>12. ASSUME NotOverfull(m) PROVE NotOverfull(m2)
    <2>1. Len(<<>>) <= BufSize
      OBVIOUS
    <2>2. \A x \in Buf : m2[x] = m[x] \/ m2[x].buf = <<>>
      BY <1>1, <1>3
    <2>3. \A x \in Buf : Len(m[x].buf) <= BufSize
      BY <1>12 DEF NotOverfull
    <2>4. \A x \in Buf : Len(m2[x].buf) <= BufSize
      <3> TAKE x \in Buf
      <3>1. CASE m2[x] = m[x]
        BY <2>3, <3>1
      <3>2. CASE m2[x].buf = <<>>
        BY <2>1, <3>2, Zenon
      <3> QED
        BY <2>2, <3>1, <3>2
    <2> QED
      BY <2>4 DEF NotOverfull
  <1> QED
    BY <1>3, <1>4, <1>8, <1>9, <1>10, <1>11, <1>12, Zenon DEF BegunAt, G

(* So are two.                                                             *)
LEMMA ListsBegin ==
    ASSUME mb \in Mem, NEW H \in SUBSET Buf, Pool(mb, H), NEW a \in Buf, NEW b \in Buf, a # b,
           ~mb[a].use, ~mb[b].use, NEW m2, m2 = [mb EXCEPT ![a] = NewHead, ![b] = NewHead]
    PROVE  a \notin H /\ b \notin H /\ Begun(mb, m2, H, a, b)
  <1> DEFINE m1 == [mb EXCEPT ![a] = NewHead]
             G == H \union {a}
  <1>1. m2 = [m1 EXCEPT ![b] = NewHead]
    <2> HIDE DEF NewHead
    <2> QED
      OBVIOUS
  <1>2. ~m1[b].use
    BY DEF Mem
  <1>3. m1 = [mb EXCEPT ![a] = NewHead]
    OBVIOUS
  <1> HIDE DEF m1, NewHead
  <1>4. a \notin H /\ BegunAt(mb, m1, H, a)
    BY <1>3, OneBegins
  <1>5. /\ m1 \in Mem /\ Pool(m1, G) /\ G \in SUBSET Buf
        /\ NotOverfull(mb) => NotOverfull(m1)
        /\ TextIn(m1, a) = <<>>
        /\ \A g \in H : TextIn(m1, g) = TextIn(mb, g)
        /\ Cardinality(UsedIn(m1)) = Cardinality(UsedIn(mb)) + 1
        /\ a \in G /\ \A g \in H : g \in G
    BY <1>4 DEF BegunAt
  <1>6. G \union {b} = H \union {a, b} /\ H \subseteq G
    OBVIOUS
  <1> HIDE DEF G
  <1>7. b \notin G /\ BegunAt(m1, m2, G, b)
    BY <1>1, <1>2, <1>5, OneBegins
  <1>8. /\ m2 \in Mem /\ Pool(m2, H \union {a, b})
        /\ NotOverfull(m1) => NotOverfull(m2)
        /\ \A g \in G : TextIn(m2, g) = TextIn(m1, g)
        /\ Cardinality(UsedIn(m2)) = Cardinality(UsedIn(m1)) + 1
    BY <1>6, <1>7 DEF BegunAt
  <1>9. TextIn(m2, a) = <<>> /\ \A g \in H : TextIn(m2, g) = TextIn(mb, g)
    BY <1>5, <1>8
  <1>10. Cardinality(UsedIn(m2)) = Cardinality(UsedIn(mb)) + 2
    <2>1. Cardinality(UsedIn(mb)) \in Nat
      BY UsedFinite
    <2> QED
      BY <1>5, <1>8, <2>1
  <1>11. Begun(mb, m2, H, a, b)
    BY <1>5, <1>8, <1>9, <1>10, Zenon DEF Begun
  <1> QED
    BY <1>4, <1>6, <1>7, <1>11

Ended(m, m2, H, r, w) ==
    /\ m2 \in Mem /\ Pool(m2, H \ {r, w})
    /\ NotOverfull(m) => NotOverfull(m2)
    /\ \A g \in H \ {r, w} : TextIn(m2, g) = TextIn(m, g)
    /\ Cardinality(UsedIn(m2))
       = Cardinality(UsedIn(m)) - Len(ListIn(m, r)) - Len(ListIn(m, w))

(* The two lists of a connection are given back, the others stay.          *)
LEMMA ListsEnd ==
    ASSUME mb \in Mem, NEW H \in SUBSET Buf, Pool(mb, H), NEW r \in H, NEW w \in H, r # w, NEW m2,
           m2 = [b \in Buf |-> IF b \in Range(ListFrom(r)) \union Range(ListFrom(w))
                               THEN FreeBuf ELSE mb[b]]
    PROVE  Ended(mb, m2, H, r, w)
  <1> DEFINE L == ListsIn(mb, H)
             m1 == Freed(mb, L[r])
             H1 == H \ {r}
             H2 == H1 \ {w}
  <1>1. Lists(mb, H, L) /\ L[r] = ListIn(mb, r) /\ L[w] = ListIn(mb, w)
    BY DEF Pool, ListsIn
  <1>2. ListFrom(r) = L[r] /\ ListFrom(w) = L[w]
    BY <1>1, ListFromIs
  <1> HIDE DEF L
  <1>3. IsChain(mb, r, L[r]) /\ IsChain(mb, w, L[w])
    BY <1>1 DEF Lists
  <1>4. ASSUME NEW g \in H PROVE \A x \in Buf : x \in Range(L[g]) <=> OnList(x, L[g])
    <2>1. L[g] \in Seq(Buf)
      BY <1>1 DEF Lists, IsChain
    <2>2. DOMAIN L[g] = 1 .. Len(L[g])
      BY <2>1
    <2> QED
      BY <2>2 DEF Range, OnList
  <1>5. FreeBuf \in BufRec /\ ~FreeBuf.use /\ FreeBuf.buf = <<>>
    <2>1. <<>> \in Seq(Cell)
      OBVIOUS
    <2> QED
      BY <2>1 DEF BufRec, FreeBuf
  <1>6. m1 \in Mem
    BY <1>5 DEF Freed, Mem
  <1>7. /\ Lists(m1, H1, L) /\ \A g \in H1 : SameOn(mb, m1, L[g])
        /\ \A b \in Buf : m1[b].use <=> mb[b].use /\ ~OnList(b, L[r])
    <2>1. m1 = Freed(mb, L[r])
      OBVIOUS
    <2> HIDE DEF m1
    <2> QED
      <3>1. Lists(mb, H, L)
        BY <1>1
      <3>2. /\ Lists(m1, H \ {r}, L)
            /\ \A g \in H \ {r} : SameOn(mb, m1, L[g])
            /\ \A b \in Buf : m1[b].use <=> mb[b].use /\ ~OnList(b, L[r])
        BY <2>1, <3>1, ListEnds, Zenon
      <3> QED
        BY <3>2
  <1>8. m2 = Freed(m1, L[w])
    BY <1>2, <1>4, Zenon DEF Freed
  <1> HIDE DEF m1
  <1>9. w \in H1 /\ H1 \in SUBSET Buf /\ r \notin H1 /\ H1 \subseteq H
    OBVIOUS
  <1>12. H2 = H \ {r, w} /\ H2 \in SUBSET Buf
    OBVIOUS
  <1> HIDE DEF H1
  <1>10. /\ Lists(m2, H2, L) /\ \A g \in H2 : SameOn(m1, m2, L[g])
         /\ \A b \in Buf : m2[b].use <=> m1[b].use /\ ~OnList(b, L[w])
    BY <1>6, <1>7, <1>8, <1>9, ListEnds
  <1>11. m2 \in Mem
    BY <1>5, <1>6, <1>8 DEF Freed, Mem
  <1>13. Pool(m2, H2)
    BY <1>10, <1>11, <1>12, PoolFrom
  <1>14. ASSUME NEW g \in H2 PROVE TextIn(m2, g) = TextIn(mb, g)
    <2>0. g \in H /\ g \in H1
      BY <1>9
    <2>1. IsChain(mb, g, L[g]) /\ IsChain(m1, g, L[g]) /\ g \in Buf
      BY <1>1, <1>7, <2>0 DEF Lists
    <2>2. SameOn(mb, m1, L[g]) /\ SameOn(m1, m2, L[g])
      BY <1>7, <1>10
    <2>3. TextIn(m1, g) = TextIn(mb, g)
      BY <1>6, <2>1, <2>2, TextStays
    <2>4. TextIn(m2, g) = TextIn(m1, g)
      BY <1>6, <1>11, <2>1, <2>2, TextStays
    <2> QED
      BY <2>3, <2>4
  <1>15. /\ Cardinality(UsedIn(m1)) = Cardinality(UsedIn(mb)) - Len(L[r])
         /\ Cardinality(UsedIn(m2)) = Cardinality(UsedIn(m1)) - Len(L[w])
    <2> DEFINE G(g) == {b \in Buf : OnList(b, L[g])}
    <2>1. Cardinality(G(r)) = Len(L[r]) /\ Cardinality(G(w)) = Len(L[w])
      BY <1>3, ListSize
    <2>2. G(r) \in SUBSET Buf /\ G(w) \in SUBSET Buf
      OBVIOUS
    <2>3. \A b \in G(r) : mb[b].use
      BY <1>1, ListsAre
    <2>4. \A b \in G(w) : m1[b].use
      BY <1>7, <1>9, ListsAre
    <2>5. \A b \in Buf : m1[b].use <=> mb[b].use /\ b \notin G(r)
      BY <1>7
    <2>6. \A b \in Buf : m2[b].use <=> m1[b].use /\ b \notin G(w)
      BY <1>10
    <2> HIDE DEF G
    <2>7. Cardinality(UsedIn(m1)) = Cardinality(UsedIn(mb)) - Len(L[r])
      BY <2>1, <2>2, <2>3, <2>5, UsedLess
    <2>8. Cardinality(UsedIn(m2)) = Cardinality(UsedIn(m1)) - Len(L[w])
      BY <2>1, <2>2, <2>4, <2>6, UsedLess
    <2> QED
      BY <2>7, <2>8
  <1>16. ASSUME NotOverfull(mb) PROVE NotOverfull(m2)
    <2>1. Len(<<>>) <= BufSize
      OBVIOUS
    <2>2. \A x \in Buf : m2[x] = mb[x] \/ m2[x].buf = <<>>
      BY <1>5
    <2>3. \A x \in Buf : Len(mb[x].buf) <= BufSize
      BY <1>16 DEF NotOverfull
    <2>4. \A x \in Buf : Len(m2[x].buf) <= BufSize
      <3> TAKE x \in Buf
      <3>1. CASE m2[x] = mb[x]
        BY <2>3, <3>1
      <3>2. CASE m2[x].buf = <<>>
        BY <2>1, <3>2, Zenon
      <3> QED
        BY <2>2, <3>1, <3>2
    <2> QED
      BY <2>4 DEF NotOverfull
  <1>17. Cardinality(UsedIn(m2)) = Cardinality(UsedIn(mb)) - Len(L[r]) - Len(L[w])
    BY <1>15
  <1> QED
    BY <1>1, <1>11, <1>12, <1>13, <1>14, <1>16, <1>17, Zenon DEF Ended


-----------------------------------------------------------------------------
(* The lines of a peer                                                     *)

Succ(c, k) == IF k = Inside[c] + 1 THEN 0 ELSE k + 1
PartAt(c, k) == IF k = 0 THEN "first" ELSE IF k = Inside[c] + 1 THEN "newline" ELSE "inside"

(* The cells T are from the lines of c: p[j] is the place of the j-th one, *)
(* and a next one would be at last.                                        *)
PlacedAt(c, T, p, last) ==
    /\ p \in [1 .. Len(T) -> 0 .. Inside[c] + 1]
    /\ \A j \in 1 .. Len(T) : T[j] = [con |-> c, part |-> PartAt(c, p[j])]
    /\ \A j \in 1 .. Len(T) : p[j] = IF j = 1 THEN 0 ELSE Succ(c, p[j - 1])
    /\ last = IF Len(T) = 0 THEN 0 ELSE Succ(c, p[Len(T)])

TextIs(c, T, last) == \E p : PlacedAt(c, T, p, last)

LEMMA InsideIs == ASSUME NEW c \in Con PROVE Inside[c] \in Nat /\ Inside[c] + 2 \in Nat \ {0}
  BY TcpStructAssumption DEF TcpStructAssumption, Con

LEMMA NoText == ASSUME NEW c \in Con PROVE TextIs(c, <<>>, 0)
  <1> DEFINE p == [j \in 1 .. 0 |-> 0]
  <1>1. Len(<<>>) = 0
    OBVIOUS
  <1>2. p \in [1 .. 0 -> 0 .. Inside[c] + 1]
    OBVIOUS
  <1> HIDE DEF p
  <1>3. PlacedAt(c, <<>>, p, 0)
    BY <1>1, <1>2 DEF PlacedAt
  <1> QED
    BY <1>3 DEF TextIs

(* The cells that the peer sends go on where the last ones ended.          *)
LEMMA CellsAre ==
    ASSUME NEW c \in Con, sent[c] \in 0 .. Inside[c] + 1, NEW n \in Nat
    PROVE  LET M == Inside[c] + 2
           IN  /\ CellsFrom(c, n) \in Seq(Cell) /\ Len(CellsFrom(c, n)) = n
               /\ \A j \in 1 .. n : /\ (sent[c] + j - 1) % M \in 0 .. Inside[c] + 1
                                    /\ CellsFrom(c, n)[j]
                                       = [con |-> c, part |-> PartAt(c, (sent[c] + j - 1) % M)]
  <1> DEFINE M == Inside[c] + 2
             k(j) == (sent[c] + j - 1) % M
             e(j) == [con |-> c, part |-> PartAt(c, k(j))]
             d == CellsFrom(c, n)
  <1>1. M \in Nat \ {0} /\ sent[c] \in Nat /\ M - 1 = Inside[c] + 1
    BY InsideIs
  <1>2. d = [j \in 1 .. n |-> e(j)]
    BY Zenon DEF CellsFrom, PartAt
  <1> HIDE DEF d
  <1>3. ASSUME NEW j \in 1 .. n PROVE k(j) \in 0 .. Inside[c] + 1
    <2> DEFINE x == sent[c] + j - 1
    <2>1. x \in Nat
      BY <1>1
    <2> HIDE DEF x, M
    <2>2. x % M \in 0 .. M - 1
      BY <1>1, <2>1, ModRange
    <2> QED
      BY <1>1, <2>2 DEF x, M
  <1>4. \A x : PartAt(c, x) \in Part
    BY DEF PartAt, Part
  <1>5. ASSUME NEW j \in 1 .. n PROVE e(j) \in Cell
    BY <1>4 DEF Cell
  <1> HIDE DEF k, e
  <1>6. d \in Seq(Cell) /\ Len(d) = n /\ \A j \in 1 .. n : d[j] = e(j)
    BY <1>2, <1>5
  <1> QED
    BY <1>3, <1>6, Zenon DEF d, k, e

(* What the peer sends after its text goes on with the text.               *)
LEMMA TextGrows ==
    ASSUME NEW c \in Con, sent[c] \in 0 .. Inside[c] + 1, NEW n \in Nat \ {0},
           NEW T \in Seq(Cell), TextIs(c, T, sent[c])
    PROVE  TextIs(c, T \o CellsFrom(c, n), (sent[c] + n) % (Inside[c] + 2))
  <1> DEFINE M == Inside[c] + 2
             I == Inside[c] + 1
             s == sent[c]
             d == CellsFrom(c, n)
             N == Len(T)
             U == T \o d
             k(j) == (s + j - 1) % M
             last == (s + n) % M
  <1>1. PICK p : PlacedAt(c, T, p, s)
    BY DEF TextIs
  <1>2. /\ d \in Seq(Cell) /\ Len(d) = n
        /\ \A j \in 1 .. n : k(j) \in 0 .. I /\ d[j] = [con |-> c, part |-> PartAt(c, k(j))]
    BY CellsAre
  <1>3. N \in Nat /\ n \in Nat /\ n >= 1 /\ I \in Nat /\ M \in Nat \ {0} /\ M - 1 = I /\ s \in 0 .. I
    BY InsideIs
  <1>4. /\ Len(U) = N + n
        /\ \A i \in 1 .. N : U[i] = T[i]
        /\ \A i \in 1 .. n : U[N + i] = d[i]
    <2> HIDE DEF d
    <2>1. T \in Seq(Cell) /\ d \in Seq(Cell)
      BY <1>2
    <2> QED
      <3>1. /\ Len(T \o d) = Len(T) + Len(d)
            /\ \A i \in 1 .. Len(T) : (T \o d)[i] = T[i]
            /\ \A i \in 1 .. Len(d) : (T \o d)[Len(T) + i] = d[i]
        BY <2>1, ConcatFacts
      <3>2. Len(d) = n
        BY <1>2
      <3> HIDE DEF N
      <3> QED
        BY <3>1, <3>2, Zenon DEF N
  <1>5. /\ p \in [1 .. N -> 0 .. I]
        /\ \A j \in 1 .. N : T[j] = [con |-> c, part |-> PartAt(c, p[j])]
        /\ \A j \in 1 .. N : p[j] = IF j = 1 THEN 0 ELSE Succ(c, p[j - 1])
        /\ s = IF N = 0 THEN 0 ELSE Succ(c, p[N])
    BY <1>1 DEF PlacedAt
  <1>6. k(1) = s
    <2>1. s + 1 - 1 = s /\ s = M * 0 + s /\ s \in 0 .. M - 1 /\ s \in Nat /\ 0 \in Int
      BY <1>3
    <2> HIDE DEF s, M
    <2>2. s % M = s
      BY <1>3, <2>1, ModIs
    <2> QED
      BY <2>1, <2>2
  <1>7. \A j \in 1 .. n : k(j + 1) = Succ(c, k(j))
    <2> TAKE j \in 1 .. n
    <2> DEFINE x == s + j - 1
    <2>1. x \in Nat /\ s + (j + 1) - 1 = x + 1
      BY <1>3
    <2> HIDE DEF x, M
    <2>2. (x + 1) % M = IF x % M = M - 1 THEN 0 ELSE (x % M) + 1
      BY <1>3, <2>1, ModSucc
    <2>3. k(j + 1) = (x + 1) % M /\ k(j) = x % M
      BY <2>1 DEF x
    <2> QED
      BY <1>3, <2>2, <2>3 DEF Succ
  <1>8. last = k(n + 1)
    <2>1. s + (n + 1) - 1 = s + n
      BY <1>3
    <2> HIDE DEF s, M
    <2> QED
      BY <2>1
  <1> HIDE DEF k, last, d, U, N, s, I, M
  <1> DEFINE Q == N + n
             r == [i \in 1 .. Q |-> IF i <= N THEN p[i] ELSE k(i - N)]
  <1>9. /\ Q \in Nat /\ Q = N + n /\ Q # 0
        /\ \A i \in 1 .. Q : (i <= N /\ i \in 1 .. N)
                             \/ (~(i <= N) /\ i - N \in 1 .. n /\ N + (i - N) = i)
    BY <1>3
  <1>10. \A i \in 1 .. N : r[i] = p[i] /\ i \in 1 .. Q
    BY <1>3
  <1>11. \A j \in 1 .. n : r[N + j] = k(j) /\ N + j \in 1 .. Q
    <2> TAKE j \in 1 .. n
    <2>1. N + j \in 1 .. Q /\ ~(N + j <= N) /\ (N + j) - N = j
      BY <1>3
    <2> QED
      BY <2>1
  <1>12. r \in [1 .. Q -> 0 .. I]
    <2>1. \A i \in 1 .. Q : (IF i <= N THEN p[i] ELSE k(i - N)) \in 0 .. I
      BY <1>2, <1>5, <1>9
    <2> HIDE DEF Q
    <2> QED
      BY <2>1
  <1> HIDE DEF Q, r
  <1>13. \A i \in 1 .. Q : U[i] = [con |-> c, part |-> PartAt(c, r[i])]
    <2> TAKE i \in 1 .. Q
    <2>1. CASE i \in 1 .. N
      BY <1>4, <1>5, <1>10, <2>1
    <2>2. CASE i - N \in 1 .. n /\ N + (i - N) = i
      <3>1. U[N + (i - N)] = d[i - N] /\ r[N + (i - N)] = k(i - N)
        BY <1>4, <1>11, <2>2
      <3> QED
        BY <1>2, <2>2, <3>1
    <2> QED
      BY <1>9, <2>1, <2>2
  <1>14. \A i \in 1 .. Q : r[i] = IF i = 1 THEN 0 ELSE Succ(c, r[i - 1])
    <2> TAKE i \in 1 .. Q
    <2>1. CASE i \in 1 .. N
      <3>1. i # 1 => i - 1 \in 1 .. N
        BY <1>3, <2>1
      <3> QED
        BY <1>5, <1>10, <2>1, <3>1
    <2>2. CASE i = N + 1
      <3>1. r[N + 1] = k(1)
        BY <1>3, <1>11
      <3>2. r[i] = s
        BY <1>6, <2>2, <3>1
      <3>3. CASE N = 0
        BY <1>5, <2>2, <3>2, <3>3
      <3>4. CASE N # 0
        <4>1. i # 1 /\ i - 1 = N /\ N \in 1 .. N
          BY <1>3, <2>2, <3>4
        <4> QED
          BY <1>5, <1>10, <3>2, <3>4, <4>1
      <3> QED
        BY <3>3, <3>4
    <2>3. ASSUME NEW j \in 1 .. n, j + 1 \in 1 .. n, i = N + (j + 1)
          PROVE  r[i] = IF i = 1 THEN 0 ELSE Succ(c, r[i - 1])
      <3>1. i - 1 = N + j /\ i # 1
        BY <1>3, <2>3
      <3>2. r[N + j] = k(j) /\ r[N + (j + 1)] = k(j + 1) /\ k(j + 1) = Succ(c, k(j))
        BY <1>7, <1>11, <2>3
      <3> QED
        BY <2>3, <3>1, <3>2
    <2>4. i \in 1 .. N \/ i = N + 1 \/ \E j \in 1 .. n : j + 1 \in 1 .. n /\ i = N + (j + 1)
      <3>1. ASSUME ~(i \in 1 .. N), i # N + 1
            PROVE  LET j == i - N - 1 IN j \in 1 .. n /\ j + 1 \in 1 .. n /\ i = N + (j + 1)
        BY <1>3, <1>9, <3>1
      <3> QED
        BY <3>1
    <2> QED
      BY <2>1, <2>2, <2>3, <2>4
  <1>15. last = IF Q = 0 THEN 0 ELSE Succ(c, r[Q])
    <2>1. n \in 1 .. n
      BY <1>3
    <2>2. r[N + n] = k(n) /\ k(n + 1) = Succ(c, k(n))
      BY <1>7, <1>11, <2>1
    <2> QED
      BY <1>8, <1>9, <2>2
  <1>16. PlacedAt(c, U, r, last)
    <2>1. Len(U) = Q
      BY <1>4, <1>9
    <2> QED
      BY <1>12, <1>13, <1>14, <1>15, <2>1, Zenon DEF PlacedAt, I
  <1> QED
    BY <1>16 DEF TextIs, U, d, last, s, M


FirstNewline(T, k) ==
    /\ k \in 1 .. Len(T) /\ T[k].part = "newline"
    /\ \A j \in 1 .. Len(T) : T[j].part = "newline" => k <= j

(* LineLen is the place of the first newline.                              *)
LEMMA LineLenIs ==
    ASSUME NEW c, Text(c) \in Seq(Cell), Newlines(c) # {}
    PROVE  FirstNewline(Text(c), LineLen(c))
  <1> DEFINE T == Text(c)
             I == Newlines(c)
             m == LineLen(c)
  <1>1. I = {k \in 1 .. Len(T) : T[k].part = "newline"}
    <2>1. DOMAIN T = 1 .. Len(T)
      OBVIOUS
    <2> HIDE DEF T
    <2> QED
      BY <2>1 DEF Newlines, T
  <1>2. I \in SUBSET Nat /\ I # {}
    BY <1>1
  <1>3. m = CHOOSE k \in I : \A j \in I : k <= j
    BY Zenon DEF LineLen
  <1> HIDE DEF T, I, m
  <1>4. \E k \in I : \A j \in I : k <= j
    BY <1>2, LeastNumber
  <1>5. m \in I /\ \A j \in I : m <= j
    BY <1>3, <1>4
  <1>6. FirstNewline(T, m)
    BY <1>1, <1>5 DEF FirstNewline
  <1> QED
    BY <1>6 DEF T, m

Whole(c, line) ==
    \A k \in 1 .. Len(line) :
        /\ line[k].con = c
        /\ (line[k].part = "first") <=> (k = 1)
        /\ (line[k].part = "newline") => (k = Len(line))

(* Up to the first newline the text is one whole line; behind it another   *)
(* line begins.                                                            *)
LEMMA LineIs ==
    ASSUME NEW c \in Con, NEW T \in Seq(Cell), NEW last, TextIs(c, T, last),
           NEW n, FirstNewline(T, n)
    PROVE  TextIs(c, SubSeq(T, n + 1, Len(T)), last) /\ Whole(c, SubSeq(T, 1, n))
  <1> DEFINE N == Len(T)
             I == Inside[c] + 1
             U == SubSeq(T, n + 1, N)
             V == SubSeq(T, 1, n)
             Q == N - n
  <1>1. PICK p : PlacedAt(c, T, p, last)
    BY DEF TextIs
  <1>2. /\ p \in [1 .. N -> 0 .. I]
        /\ \A j \in 1 .. N : T[j] = [con |-> c, part |-> PartAt(c, p[j])]
        /\ \A j \in 1 .. N : p[j] = IF j = 1 THEN 0 ELSE Succ(c, p[j - 1])
        /\ last = IF N = 0 THEN 0 ELSE Succ(c, p[N])
    BY <1>1 DEF PlacedAt
  <1>3. /\ n \in 1 .. N /\ T[n].part = "newline"
        /\ \A j \in 1 .. N : T[j].part = "newline" => n <= j
    BY DEF FirstNewline
  <1>4. N \in Nat /\ I \in Nat /\ I # 0 /\ n \in Nat /\ n >= 1 /\ n <= N /\ Q \in Nat
    <2>1. N \in Nat
      OBVIOUS
    <2>2. I \in Nat /\ I # 0
      BY InsideIs
    <2> HIDE DEF N, I
    <2>3. n \in Nat /\ n >= 1 /\ n <= N /\ Q \in Nat
      BY <1>3, <2>1
    <2> QED
      BY <2>1, <2>2, <2>3
  <1>5. /\ Len(U) = Q /\ \A i \in 1 .. Q : U[i] = T[n + i]
        /\ Len(V) = n /\ \A i \in 1 .. n : V[i] = T[i]
    <2>1. n \in 0 .. Len(T) /\ Len(T) \in n .. Len(T) /\ 0 \in 0 .. Len(T) /\ n \in 0 .. Len(T)
      BY <1>4
    <2>2. Len(SubSeq(T, n + 1, Len(T))) = Len(T) - n
          /\ \A i \in 1 .. Len(T) - n : SubSeq(T, n + 1, Len(T))[i] = T[n + i]
      BY <2>1, SliceFacts
    <2>3. Len(SubSeq(T, 0 + 1, n)) = n - 0 /\ \A i \in 1 .. n - 0 : SubSeq(T, 0 + 1, n)[i] = T[0 + i]
      BY <2>1, SliceFacts
    <2>4. 0 + 1 = 1 /\ n - 0 = n /\ \A i \in 1 .. n : 0 + i = i
      BY <1>4
    <2>5. Len(V) = n /\ \A i \in 1 .. n : V[i] = T[i]
      BY <2>3, <2>4
    <2> QED
      BY <2>2, <2>5
  <1>6. \A j \in 1 .. N : /\ T[j].con = c
                          /\ T[j].part = "newline" <=> p[j] = I
                          /\ T[j].part = "first" <=> p[j] = 0
    <2> TAKE j \in 1 .. N
    <2>1. T[j].con = c /\ T[j].part = PartAt(c, p[j])
      <3> DEFINE x == PartAt(c, p[j])
      <3>1. T[j] = [con |-> c, part |-> x]
        BY <1>2, Zenon
      <3> HIDE DEF x, N
      <3>2. T[j].con = c /\ T[j].part = x
        BY <3>1
      <3> QED
        BY <3>2 DEF x
    <2>2. /\ PartAt(c, p[j]) = "newline" <=> p[j] = I
          /\ PartAt(c, p[j]) = "first" <=> p[j] = 0
      BY <1>4 DEF PartAt
    <2> QED
      BY <2>1, <2>2
  <1> HIDE DEF U, V, Q, N, I
  <1>7. p[n] = I
    BY <1>3, <1>6
  <1>8. Succ(c, p[n]) = 0
    BY <1>7 DEF Succ, I
  <1>9. TextIs(c, U, last)
    <2> DEFINE r == [i \in 1 .. Q |-> p[n + i]]
    <2>1. Q = N - n
      BY DEF Q
    <2>2. \A i \in 1 .. Q : n + i \in 1 .. N /\ n + i # 1 /\ (n + i) - 1 = n + (i - 1)
                            /\ (i # 1 => i - 1 \in 1 .. Q)
      BY <1>4, <2>1
    <2>3. r \in [1 .. Q -> 0 .. I] /\ \A i \in 1 .. Q : r[i] = p[n + i]
      BY <1>2, <2>2
    <2> HIDE DEF r
    <2>4. \A i \in 1 .. Q : U[i] = [con |-> c, part |-> PartAt(c, r[i])]
      <3> TAKE i \in 1 .. Q
      <3>1. U[i] = T[n + i] /\ n + i \in 1 .. N /\ r[i] = p[n + i]
        BY <1>5, <2>2, <2>3
      <3> QED
        BY <1>2, <3>1
    <2>5. \A i \in 1 .. Q : r[i] = IF i = 1 THEN 0 ELSE Succ(c, r[i - 1])
      <3> TAKE i \in 1 .. Q
      <3>1. r[i] = Succ(c, p[n + (i - 1)])
        <4>1. n + i \in 1 .. N /\ n + i # 1 /\ (n + i) - 1 = n + (i - 1)
          BY <2>2
        <4>2. p[n + i] = Succ(c, p[(n + i) - 1])
          BY <1>2, <4>1
        <4> QED
          BY <2>3, <4>1, <4>2
      <3>2. CASE i = 1
        <4>1. n + (i - 1) = n
          BY <1>4, <3>2
        <4> QED
          BY <1>8, <3>1, <3>2, <4>1
      <3>3. CASE i # 1
        <4>1. i - 1 \in 1 .. Q
          BY <2>2, <3>3
        <4>2. r[i - 1] = p[n + (i - 1)]
          BY <2>3, <4>1
        <4> QED
          BY <3>1, <3>3, <4>2
      <3> QED
        BY <3>2, <3>3
    <2>6. last = IF Q = 0 THEN 0 ELSE Succ(c, r[Q])
      <3>1. last = Succ(c, p[N])
        BY <1>2, <1>4
      <3>2. CASE Q = 0
        <4>1. N = n
          BY <1>4, <2>1, <3>2
        <4> QED
          BY <1>8, <3>1, <3>2, <4>1
      <3>3. CASE Q # 0
        <4>1. Q \in 1 .. Q /\ n + Q = N
          BY <1>4, <2>1, <3>3
        <4>2. r[Q] = p[N]
          BY <2>3, <4>1
        <4> QED
          BY <3>1, <3>3, <4>2
      <3> QED
        BY <3>2, <3>3
    <2>7. PlacedAt(c, U, r, last)
      BY <1>5, <2>3, <2>4, <2>5, <2>6, Zenon DEF PlacedAt, I
    <2> QED
      BY <2>7 DEF TextIs
  <1>10. Whole(c, V)
    <2> SUFFICES ASSUME NEW k \in 1 .. n
                 PROVE  /\ V[k].con = c
                        /\ (V[k].part = "first") <=> (k = 1)
                        /\ (V[k].part = "newline") => (k = n)
      BY <1>5 DEF Whole
    <2>1. V[k] = T[k] /\ k \in 1 .. N
      BY <1>4, <1>5
    <2>2. T[k].part = "newline" => k = n
      <3>1. T[k].part = "newline" => n <= k
        BY <1>3, <2>1
      <3> QED
        BY <1>4, <3>1
    <2>3. k = 1 => p[k] = 0
      BY <1>2, <2>1
    <2>4. ASSUME k # 1 PROVE p[k] # 0
      <3>1. k - 1 \in 1 .. N /\ ~(n <= k - 1)
        BY <1>4, <2>4
      <3>2. p[k] = Succ(c, p[k - 1])
        BY <1>2, <2>1, <2>4
      <3>3. p[k - 1] # I /\ p[k - 1] \in 0 .. I
        BY <1>2, <1>3, <1>6, <3>1
      <3>4. p[k] = p[k - 1] + 1
        BY <3>2, <3>3 DEF Succ, I
      <3> QED
        BY <1>4, <3>3, <3>4
    <2> QED
      BY <1>6, <2>1, <2>2, <2>3, <2>4
  <1> QED
    BY <1>9, <1>10 DEF U, V, N


-----------------------------------------------------------------------------
(* The invariant                                                           *)

ConRec == [use : BOOLEAN, fd : BOOLEAN, closed : BOOLEAN,
           ri : Buf \union {None, EMBFULL}, wi : Buf \union {None, EMBFULL}]
PcRec == [at : {"select", "read", "write", "accept", "line", "answer", "undefined"},
          i : 0 .. MaxCon]
SentOK(ss) == ss \in [Con -> Nat] /\ \A c \in Con : ss[c] <= Inside[c] + 1
MemOK(m) == m \in Mem /\ NotOverfull(m)

(* TypeOK, in parts, in a state and in the next.                           *)
LEMMA TypeIs ==
    TypeOK <=> /\ MemOK(mb) /\ mbuse \in Int /\ con \in [Con -> ConRec] /\ gs \subseteq Con
               /\ pc \in PcRec /\ armed \subseteq Con /\ SentOK(sent) /\ faults \subseteq Event
  BY Zenon DEF TypeOK, MemOK, Mem, BufRec, NotOverfull, ConRec, PcRec, SentOK

LEMMA TypeIsThen ==
    TypeOK' <=> /\ MemOK(mb') /\ mbuse' \in Int /\ con' \in [Con -> ConRec] /\ gs' \subseteq Con
                /\ pc' \in PcRec /\ armed' \subseteq Con /\ SentOK(sent') /\ faults' \subseteq Event
  BY Zenon DEF TypeOK, MemOK, Mem, BufRec, NotOverfull, ConRec, PcRec, SentOK

(* The connections that have lists, and the buffers these start at.        *)
OwnIn(cc) == {c \in Con : cc[c].use /\ cc[c].wi \in Buf}
TopsIn(cc) == {cc[c].ri : c \in OwnIn(cc)} \union {cc[c].wi : c \in OwnIn(cc)}

(* What a slot of con is: free, or with two lists, or left without by a    *)
(* shortage of buffers.                                                    *)
SlotOK(r, s, ff) ==
    /\ ~r.use => r.ri = None /\ r.wi = None /\ ~r.fd /\ s = 0
    /\ r.use /\ r.wi \in Buf => r.ri \in Buf
    /\ r.use /\ r.wi \notin Buf => ~r.fd /\ "memory" \in ff /\ (r.wi = EMBFULL \/ r.ri = EMBFULL)
    /\ r.use /\ r.wi \in Buf /\ ~r.fd => "accept" \in ff

SlotsOK(cc, ss, ff) == \A c \in Con : SlotOK(cc[c], ss[c], ff)

TopsDiffer(cc) ==
    \A c, d \in OwnIn(cc) : /\ cc[c].ri # cc[d].wi
                            /\ c # d => cc[c].ri # cc[d].ri /\ cc[c].wi # cc[d].wi

Lost(ff) == IF "accept" \in ff THEN 1 ELSE 0

PoolOK(m, n, cc, ff) == Pool(m, TopsIn(cc)) /\ n = Cardinality(UsedIn(m)) - Lost(ff)

TextsOK(m, cc, ss) == \A c \in OwnIn(cc) : TextIs(c, TextIn(m, cc[c].ri), ss[c])

HeldIn(m, n, cc, ss, ff) ==
    /\ PoolOK(m, n, cc, ff) /\ SlotsOK(cc, ss, ff) /\ TopsDiffer(cc)
    /\ ff = {} => TextsOK(m, cc, ss)

Held == HeldIn(mb, mbuse, con, sent, faults)

ArmedOK ==
    /\ \A c \in armed : con[c].use /\ con[c].fd
    /\ pc.at \notin {"read", "write", "undefined"} => armed = {}

AnswerOK == pc.at = "answer" => pc.i \in OwnIn(con)

(* accept() failed, and lists have run together or left the arrays.        *)
Spoilt == pc.at = "undefined" /\ "accept" \in faults

ConnectionsInv ==
    /\ TypeOK /\ NeverUndefined /\ LineWhole
    /\ Spoilt \/ (Held /\ ArmedOK /\ AnswerOK)

(* The lists of connections start at buffers.                              *)
LEMMA TopsAre ==
    ASSUME NEW cc \in [Con -> ConRec], NEW ss, NEW ff, SlotsOK(cc, ss, ff)
    PROVE  /\ TopsIn(cc) \in SUBSET Buf
           /\ \A c \in OwnIn(cc) : /\ c \in Con /\ cc[c].ri \in Buf /\ cc[c].wi \in Buf
                                   /\ cc[c].ri \in TopsIn(cc) /\ cc[c].wi \in TopsIn(cc)
  <1>1. \A c \in OwnIn(cc) : c \in Con /\ cc[c].ri \in Buf /\ cc[c].wi \in Buf
    BY DEF OwnIn, SlotsOK, SlotOK
  <1>2. \A c \in OwnIn(cc) : cc[c].ri \in TopsIn(cc) /\ cc[c].wi \in TopsIn(cc)
    BY DEF TopsIn
  <1>3. TopsIn(cc) \in SUBSET Buf
    BY <1>1 DEF TopsIn
  <1> QED
    BY <1>1, <1>2, <1>3

(* Nothing but closed may differ.                                          *)
SameHeads(cc, dd) ==
    \A c \in Con : /\ dd[c].use = cc[c].use /\ dd[c].fd = cc[c].fd
                   /\ dd[c].ri = cc[c].ri /\ dd[c].wi = cc[c].wi

(* Only where lists start matters of a connection.                         *)
LEMMA HeadsStay ==
    ASSUME NEW cc, NEW dd, SameHeads(cc, dd)
    PROVE  OwnIn(dd) = OwnIn(cc) /\ TopsIn(dd) = TopsIn(cc)
  <1>1. OwnIn(dd) = OwnIn(cc)
    BY DEF OwnIn, SameHeads
  <1>2. \A c \in OwnIn(cc) : dd[c].ri = cc[c].ri /\ dd[c].wi = cc[c].wi
    BY DEF OwnIn, SameHeads
  <1>3. TopsIn(dd) = TopsIn(cc)
    BY <1>1, <1>2 DEF TopsIn
  <1> QED
    BY <1>1, <1>3

LEMMA HeldStays ==
    ASSUME NEW m, NEW n, NEW cc, NEW dd, NEW ss, NEW ff, SameHeads(cc, dd), HeldIn(m, n, cc, ss, ff)
    PROVE  HeldIn(m, n, dd, ss, ff)
  <1>1. OwnIn(dd) = OwnIn(cc) /\ TopsIn(dd) = TopsIn(cc)
    BY HeadsStay
  <1>2. \A c \in OwnIn(cc) : dd[c].ri = cc[c].ri /\ dd[c].wi = cc[c].wi
    BY DEF OwnIn, SameHeads
  <1>3. PoolOK(m, n, dd, ff)
    BY <1>1 DEF HeldIn, PoolOK
  <1>4. SlotsOK(dd, ss, ff)
    BY DEF HeldIn, SlotsOK, SlotOK, SameHeads
  <1>5. TopsDiffer(dd)
    BY <1>1, <1>2 DEF HeldIn, TopsDiffer
  <1>6. ff = {} => TextsOK(m, dd, ss)
    BY <1>1, <1>2 DEF HeldIn, TextsOK
  <1> QED
    BY <1>3, <1>4, <1>5, <1>6 DEF HeldIn

(* Cells leave a list.                                                     *)
LEMMA HeldTaken ==
    ASSUME MemOK(mb), mbuse \in Int, con \in [Con -> ConRec], Held,
           NEW h \in TopsIn(con), NEW n \in 0 .. Len(TextIn(mb, h)),
           consumeMemBufList(h, n),
           faults = {} => \A d \in OwnIn(con) : con[d].ri = h =>
               TextIs(d, SubSeq(TextIn(mb, h), n + 1, Len(TextIn(mb, h))), sent[d])
    PROVE  MemOK(mb') /\ mbuse' \in Int /\ HeldIn(mb', mbuse', con, sent, faults)
  <1> DEFINE H == TopsIn(con)
             g == Cardinality(Emptied(ListFrom(h), n))
  <1>1. PoolOK(mb, mbuse, con, faults) /\ SlotsOK(con, sent, faults) /\ TopsDiffer(con)
        /\ (faults = {} => TextsOK(mb, con, sent))
    BY DEF Held, HeldIn
  <1>2. H \in SUBSET Buf /\ Pool(mb, H)
    BY <1>1, TopsAre DEF PoolOK
  <1>3. mb' = Consumed(h, n) /\ mbuse' = mbuse - g
    BY DEF consumeMemBufList
  <1>4. /\ Taken(mb, mb', H, h, n)
        /\ Cardinality(UsedIn(mb')) = Cardinality(UsedIn(mb)) - g
    BY <1>2, <1>3, ConsumeKeeps DEF MemOK
  <1>5. /\ mb' \in Mem /\ Pool(mb', H)
        /\ TextIn(mb', h) = SubSeq(TextIn(mb, h), n + 1, Len(TextIn(mb, h)))
        /\ \A f \in H : f # h => TextIn(mb', f) = TextIn(mb, f)
        /\ \A b \in Buf : Len(mb'[b].buf) <= Len(mb[b].buf)
    BY <1>4 DEF Taken
  <1>6. MemOK(mb')
    <2> SUFFICES ASSUME NEW b \in Buf PROVE Len(mb'[b].buf) <= BufSize
      BY <1>5 DEF MemOK, NotOverfull
    <2>1. mb[b].buf \in Seq(Cell) /\ mb'[b].buf \in Seq(Cell)
      BY <1>5 DEF MemOK, Mem, BufRec
    <2>2. Len(mb[b].buf) \in Nat /\ Len(mb'[b].buf) \in Nat
      BY <2>1
    <2>3. Len(mb[b].buf) <= BufSize /\ Len(mb'[b].buf) <= Len(mb[b].buf)
      BY <1>5 DEF MemOK, NotOverfull
    <2> QED
      BY <2>2, <2>3
  <1>7. mbuse' = Cardinality(UsedIn(mb')) - Lost(faults) /\ mbuse' \in Int
    <2> DEFINE u == Cardinality(UsedIn(mb))
               v == Cardinality(UsedIn(mb'))
               z == Lost(faults)
    <2>1. u \in Nat /\ v \in Nat /\ z \in Nat
      BY UsedFinite DEF Lost
    <2>2. mbuse = u - z /\ v = u - g
      BY <1>1, <1>4 DEF PoolOK
    <2>3. g \in Int
      <3>1. IsFiniteSet(Emptied(ListFrom(h), n))
        <4>1. ListFrom(h) \in Seq(Buf)
          BY <1>2, ListsAre, ListFromIs DEF Pool, ListsIn, IsChain
        <4>2. Len(ListFrom(h)) \in Nat
          BY <4>1
        <4>3. IsFiniteSet(1 .. Len(ListFrom(h)))
          BY <4>2, CountTo
        <4>4. Emptied(ListFrom(h), n) \subseteq 1 .. Len(ListFrom(h))
          BY <4>2 DEF Emptied
        <4> QED
          BY <4>3, <4>4, FS_Subset
      <3> QED
        BY <3>1, FS_CardinalityType
    <2> HIDE DEF u, v, z, g
    <2>4. mbuse' = v - z /\ mbuse' \in Int
      BY <1>3, <2>1, <2>2, <2>3
    <2> QED
      BY <2>4 DEF v, z
  <1>8. ASSUME faults = {} PROVE TextsOK(mb', con, sent)
    <2> SUFFICES ASSUME NEW d \in OwnIn(con) PROVE TextIs(d, TextIn(mb', con[d].ri), sent[d])
      BY DEF TextsOK
    <2>1. CASE con[d].ri = h
      BY <1>5, <1>8, <2>1
    <2>2. CASE con[d].ri # h
      <3>1. con[d].ri \in H
        BY DEF TopsIn
      <3> QED
        BY <1>1, <1>5, <1>8, <2>2, <3>1 DEF TextsOK
    <2> QED
      BY <2>1, <2>2
  <1>9. PoolOK(mb', mbuse', con, faults)
    BY <1>5, <1>7 DEF PoolOK
  <1> QED
    BY <1>1, <1>6, <1>7, <1>8, <1>9, Zenon DEF HeldIn


(* Cells join a list.                                                      *)
LEMMA HeldAppended ==
    ASSUME MemOK(mb), mbuse \in Int, con \in [Con -> ConRec], Held,
           NEW h \in TopsIn(con), NEW d \in Seq(Cell), NEW next, appendMemBufList(h, d, next)
    PROVE  \/ ~Fits(d) /\ Undone(next)
           \/ Undefined /\ Fits(d) /\ "accept" \in faults
           \/ /\ Fits(d) /\ pc' = next
              /\ MemOK(mb') /\ mbuse' \in Int
              /\ PoolOK(mb', mbuse', con, faults) /\ Joins(mb, mb', TopsIn(con), h, d)
  <1> DEFINE H == TopsIn(con)
  <1>1. PoolOK(mb, mbuse, con, faults) /\ SlotsOK(con, sent, faults)
    BY DEF Held, HeldIn
  <1>2. H \in SUBSET Buf /\ Pool(mb, H) /\ mbuse = Cardinality(UsedIn(mb)) - Lost(faults)
    BY <1>1, TopsAre DEF PoolOK
  <1>3. mb \in Mem /\ NotOverfull(mb)
    BY DEF MemOK
  <1> HIDE DEF H
  <1>4. \/ ~Fits(d) /\ Undone(next)
        \/ Overrun(d)
        \/ Appended(H, h, d, next)
    BY <1>2, <1>3, AppendIs DEF H
  <1>5. CASE Overrun(d)
    <2>1. Fits(d) /\ Undefined /\ mbuse # Cardinality(UsedIn(mb))
      BY <1>5 DEF Overrun
    <2>2. Lost(faults) # 0
      <3>1. Cardinality(UsedIn(mb)) \in Nat
        BY UsedFinite
      <3> QED
        BY <1>2, <2>1, <3>1
    <2>3. "accept" \in faults
      BY <2>2 DEF Lost
    <2> QED
      BY <2>1, <2>3
  <1>6. CASE Appended(H, h, d, next)
    <2>1. /\ Fits(d) /\ pc' = next
          /\ Joins(mb, mb', H, h, d) /\ NotOverfull(mb')
          /\ \E q \in Nat : /\ mbuse' = mbuse + q
                            /\ Cardinality(UsedIn(mb')) = Cardinality(UsedIn(mb)) + q
      BY <1>6 DEF Appended
    <2>2. PICK q \in Nat : /\ mbuse' = mbuse + q
                           /\ Cardinality(UsedIn(mb')) = Cardinality(UsedIn(mb)) + q
      BY <2>1
    <2>3. Cardinality(UsedIn(mb)) \in Nat /\ Lost(faults) \in Nat
      BY UsedFinite DEF Lost
    <2>4. mbuse' = Cardinality(UsedIn(mb')) - Lost(faults) /\ mbuse' \in Int
      BY <1>2, <2>2, <2>3
    <2>5. MemOK(mb') /\ Pool(mb', H)
      BY <2>1 DEF MemOK, Joins
    <2>6. PoolOK(mb', mbuse', con, faults)
      BY <2>4, <2>5 DEF PoolOK, H
    <2> QED
      BY <2>1, <2>4, <2>5, <2>6 DEF H
  <1> QED
    BY <1>4, <1>5, <1>6

(* The text of a list.                                                     *)
LEMMA TextTyped ==
    ASSUME MemOK(mb), con \in [Con -> ConRec], Held, NEW h \in TopsIn(con)
    PROVE  TextIn(mb, h) \in Seq(Cell) /\ Contents(ListFrom(h)) = TextIn(mb, h)
  <1> DEFINE H == TopsIn(con)
             L == ListsIn(mb, H)
  <1>1. H \in SUBSET Buf /\ Pool(mb, H)
    BY TopsAre DEF Held, HeldIn, PoolOK
  <1>2. IsChain(mb, h, L[h]) /\ h \in Buf
    BY <1>1, ListsAre DEF Pool
  <1>3. IsJoined(Bufs(mb, L[h]), TextIn(mb, h))
    <2> HIDE DEF L
    <2> QED
      BY <1>2, TextOf DEF MemOK
  <1>4. TextIn(mb, h) \in Seq(Cell)
    BY <1>3 DEF IsJoined
  <1>5. Contents(ListFrom(h)) = FlattenSeq(Bufs(mb, ListIn(mb, h)))
    BY ContentsAre, ListFromIs
  <1> QED
    BY <1>4, <1>5, Zenon DEF TextIn

(* A connection handed to select() has its lists.                          *)
LEMMA ArmedOwn ==
    ASSUME Held, ArmedOK, armed \subseteq Con, NEW c \in armed
    PROVE  c \in OwnIn(con)
  <1>1. con[c].use /\ con[c].fd /\ c \in Con
    BY DEF ArmedOK
  <1>2. SlotOK(con[c], sent[c], faults)
    BY <1>1 DEF Held, HeldIn, SlotsOK
  <1> QED
    BY <1>1, <1>2 DEF SlotOK, OwnIn

(* A slot whose lists are looked at has them.                              *)
LEMMA UsedOwn ==
    ASSUME Held, NEW c \in Con, con[c].use, con[c].ri # EMBFULL, con[c].wi # EMBFULL
    PROVE  c \in OwnIn(con)
  <1>1. SlotOK(con[c], sent[c], faults)
    BY DEF Held, HeldIn, SlotsOK
  <1> QED
    BY <1>1 DEF SlotOK, OwnIn

(* No line is taken, or one is.                                            *)
LEMMA LineStays ==
    ASSUME LineWhole, faults \subseteq faults', got' = got \/ got' = NoLine
    PROVE  LineWhole'
  <1>1. CASE got' = NoLine
    BY <1>1 DEF LineWhole
  <1>2. CASE got' = got
    <2>1. faults' \intersect {"accept", "memory", "dropped"} = {}
          => faults \intersect {"accept", "memory", "dropped"} = {}
      OBVIOUS
    <2> QED
      BY <1>2, <2>1 DEF LineWhole
  <1> QED
    BY <1>1, <1>2

LEMMA LineGot ==
    ASSUME faults' \subseteq Event, NEW c, NEW l \in Seq(Cell), got' = [con |-> c, line |-> l],
           faults' = {} => Whole(c, l)
    PROVE  LineWhole'
  <1>1. got'.con = c /\ got'.line = l
    OBVIOUS
  <1>2. DOMAIN l = 1 .. Len(l)
    OBVIOUS
  <1>3. faults' \intersect {"accept", "memory", "dropped"} = {} => faults' = {}
    BY DEF Event
  <1> QED
    BY <1>1, <1>2, <1>3 DEF LineWhole, Whole

(* Where a line is taken, it is a whole one.                               *)
LEMMA LineFound ==
    ASSUME TypeOK, Held, NEW c \in Con, Defined(c), readline(c) = "line"
    PROVE  /\ c \in OwnIn(con) /\ con[c].use
           /\ LineLen(c) \in 0 .. Len(TextIn(mb, con[c].ri))
           /\ SubSeq(Text(c), 1, LineLen(c)) \in Seq(Cell)
           /\ faults = {} =>
                /\ TextIs(c, SubSeq(TextIn(mb, con[c].ri), LineLen(c) + 1,
                                    Len(TextIn(mb, con[c].ri))), sent[c])
                /\ Whole(c, SubSeq(Text(c), 1, LineLen(c)))
  <1> DEFINE T == TextIn(mb, con[c].ri)
             n == LineLen(c)
  <1>1. con[c].use /\ Newlines(c) # {}
    BY DEF readline
  <1>2. con[c].ri # EMBFULL /\ con[c].wi # EMBFULL
    BY <1>1 DEF Defined
  <1>3. c \in OwnIn(con)
    BY <1>1, <1>2, UsedOwn
  <1>4. con[c].ri \in TopsIn(con)
    BY <1>3 DEF TopsIn
  <1>5. T \in Seq(Cell) /\ Text(c) = T
    BY <1>4, TypeIs, TextTyped DEF Text
  <1>6. FirstNewline(T, n)
    BY <1>1, <1>5, LineLenIs
  <1> HIDE DEF T, n
  <1>7. Len(T) \in Nat /\ n \in 1 .. Len(T)
    BY <1>5, <1>6 DEF FirstNewline
  <1>8. n \in 0 .. Len(T)
    BY <1>7
  <1>9. SubSeq(T, 1, n) \in Seq(Cell)
    <2>1. 0 \in 0 .. Len(T) /\ n \in 0 .. Len(T) /\ 0 + 1 = 1
      BY <1>7
    <2>2. SubSeq(T, 0 + 1, n) \in Seq(Cell)
      BY <1>5, <2>1, SliceFacts
    <2> QED
      BY <2>1, <2>2
  <1>10. ASSUME faults = {} PROVE TextIs(c, SubSeq(T, n + 1, Len(T)), sent[c]) /\ Whole(c, SubSeq(T, 1, n))
    <2>1. TextIs(c, T, sent[c])
      BY <1>3, <1>10 DEF Held, HeldIn, TextsOK, T
    <2> QED
      BY <1>5, <1>6, <2>1, LineIs
  <1> QED
    BY <1>1, <1>3, <1>5, <1>8, <1>9, <1>10, Zenon DEF T, n


-----------------------------------------------------------------------------
(* The steps that leave buffers and connections as they are                *)

Good == TypeOK /\ LineWhole /\ Held /\ ArmedOK /\ AnswerOK

LEMMA PassedIs ==
    ASSUME pc \in PcRec, NEW c \in Con
    PROVE  [pc EXCEPT !.i = c] \in PcRec /\ [pc EXCEPT !.i = c].at = pc.at
  BY DEF PcRec, Con

LEMMA AtIs ==
    ASSUME pc \in PcRec, NEW a \in {"select", "read", "write", "accept", "line", "answer", "undefined"}
    PROVE  /\ Phase(a) \in PcRec /\ Phase(a).at = a
           /\ [pc EXCEPT !.at = a] \in PcRec /\ [pc EXCEPT !.at = a].at = a
  BY DEF PcRec, Phase

(* A step that moves no cell, nor begins or ends a connection.             *)
LEMMA QuietStep ==
    ASSUME TypeOK, LineWhole, Held, UNCHANGED <<mb, mbuse, sent, faults>>,
           con' \in [Con -> ConRec], SameHeads(con, con'), gs' \subseteq Con, pc' \in PcRec,
           armed' \subseteq Con, ArmedOK', AnswerOK', got' = got \/ got' = NoLine,
           pc'.at # "undefined" \/ "memory" \in faults
    PROVE  ConnectionsInv'
  <1>1. HeldIn(mb, mbuse, con', sent, faults)
    BY HeldStays DEF Held
  <1>2. Held'
    BY <1>1 DEF Held
  <1>3. TypeOK'
    BY TypeIs, TypeIsThen
  <1>4. LineWhole'
    BY LineStays
  <1>5. NeverUndefined'
    BY DEF NeverUndefined
  <1> QED
    BY <1>2, <1>3, <1>4, <1>5 DEF ConnectionsInv

LEMMA HeadsSame == SameHeads(con, con)
  BY DEF SameHeads

LEMMA SelectKeeps == ASSUME Good, Select PROVE ConnectionsInv'
  <1>1. TypeOK /\ LineWhole /\ Held
    BY DEF Good
  <1>2. /\ armed' = {c \in Con : con[c].use /\ con[c].fd /\ ~con[c].closed}
        /\ pc' = Phase("read") /\ got' = NoLine
        /\ UNCHANGED <<mb, mbuse, con, gs, sent, faults>>
    BY DEF Select, mem
  <1>3. pc' \in PcRec /\ pc'.at = "read"
    BY <1>1, <1>2, TypeIs, AtIs
  <1>4. armed' \subseteq Con /\ ArmedOK'
    BY <1>2, <1>3 DEF ArmedOK
  <1>5. AnswerOK'
    BY <1>3 DEF AnswerOK
  <1> QED
    BY <1>1, <1>2, <1>3, <1>4, <1>5, TypeIs, QuietStep, HeadsSame

LEMMA ClosedIs ==
    ASSUME con \in [Con -> ConRec], NEW c \in Con, NEW dd, dd = [con EXCEPT ![c].closed = TRUE]
    PROVE  dd \in [Con -> ConRec] /\ SameHeads(con, dd)
  <1>1. \A d \in Con : con[d] \in ConRec
    OBVIOUS
  <1>2. dd[c] = [con[c] EXCEPT !.closed = TRUE] /\ \A d \in Con : d # c => dd[d] = con[d]
    OBVIOUS
  <1> DEFINE r == con[c]
             s == dd[c]
  <1>3. r \in ConRec /\ s = [r EXCEPT !.closed = TRUE]
    BY <1>1, <1>2
  <1> HIDE DEF r, s
  <1>4. s \in ConRec /\ s.use = r.use /\ s.fd = r.fd /\ s.ri = r.ri /\ s.wi = r.wi
    BY <1>3 DEF ConRec
  <1>5. SameHeads(con, dd)
    BY <1>2, <1>4 DEF SameHeads, r, s
  <1>6. \A d \in Con : dd[d] \in ConRec
    BY <1>1, <1>2, <1>4 DEF s
  <1>7. dd = [d \in Con |-> dd[d]]
    OBVIOUS
  <1>8. dd \in [Con -> ConRec]
    BY <1>6, <1>7
  <1> QED
    BY <1>5, <1>8

LEMMA PeerGoneKeeps ==
    ASSUME Good, NEW c \in Con, pc.at \in {"read", "write"}, con' = [con EXCEPT ![c].closed = TRUE],
           Passed(c), UNCHANGED <<mem, gs, armed, sent, got, faults>>
    PROVE  ConnectionsInv'
  <1>1. TypeOK /\ LineWhole /\ Held /\ ArmedOK
    BY DEF Good
  <1>2. UNCHANGED <<mb, mbuse, gs, armed, sent, got, faults>>
    BY DEF mem
  <1>3. pc' \in PcRec /\ pc'.at = pc.at
    BY <1>1, TypeIs, PassedIs DEF Passed
  <1>4. con' \in [Con -> ConRec] /\ SameHeads(con, con')
    BY <1>1, TypeIs, ClosedIs
  <1>5. armed' \subseteq Con /\ ArmedOK'
    BY <1>1, <1>2, <1>3, <1>4, TypeIs DEF ArmedOK, SameHeads
  <1>6. AnswerOK'
    BY <1>3 DEF AnswerOK
  <1>7. gs' \subseteq Con /\ pc'.at # "undefined"
    BY <1>1, <1>2, <1>3, TypeIs
  <1> QED
    BY <1>1, <1>2, <1>3, <1>4, <1>5, <1>6, <1>7, QuietStep

LEMMA EndReadsKeeps == ASSUME Good, EndReads PROVE ConnectionsInv'
  <1>1. TypeOK /\ LineWhole /\ Held /\ ArmedOK
    BY DEF Good
  <1>2. pc' = Phase("write") /\ UNCHANGED <<mb, mbuse, con, gs, armed, sent, got, faults>>
    BY DEF EndReads, mem
  <1>3. pc' \in PcRec /\ pc'.at = "write"
    BY <1>1, <1>2, TypeIs, AtIs
  <1>4. armed' \subseteq Con /\ ArmedOK'
    BY <1>1, <1>2, <1>3, TypeIs DEF ArmedOK
  <1>5. AnswerOK'
    BY <1>3 DEF AnswerOK
  <1> QED
    BY <1>1, <1>2, <1>3, <1>4, <1>5, TypeIs, QuietStep, HeadsSame

(* armed is empty outside the two loops over it.                           *)
LEMMA CalmKeeps ==
    ASSUME Good, armed' = {}, UNCHANGED <<mb, mbuse, con, gs, sent, faults>>,
           got' = got \/ got' = NoLine, pc' \in PcRec,
           pc'.at # "answer", pc'.at # "undefined" \/ "memory" \in faults
    PROVE  ConnectionsInv'
  <1>1. TypeOK /\ LineWhole /\ Held
    BY DEF Good
  <1>2. armed' \subseteq Con /\ ArmedOK' /\ AnswerOK'
    BY DEF ArmedOK, AnswerOK
  <1> QED
    BY <1>1, <1>2, TypeIs, QuietStep, HeadsSame

LEMMA CalmIs == ASSUME Good, pc.at \notin {"read", "write", "undefined"} PROVE armed = {}
  BY DEF Good, ArmedOK

LEMMA EndWritesKeeps == ASSUME Good, EndWrites PROVE ConnectionsInv'
  <1>1. /\ armed' = {} /\ pc' = Phase("accept")
        /\ UNCHANGED <<mb, mbuse, con, gs, sent, got, faults>>
    BY DEF EndWrites, mem
  <1>2. pc' \in PcRec /\ pc'.at = "accept"
    BY <1>1, TypeIs, AtIs DEF Good
  <1> QED
    BY <1>1, <1>2, CalmKeeps

LEMMA AcceptNothingKeeps == ASSUME Good, AcceptNothing PROVE ConnectionsInv'
  <1>1. /\ pc.at = "accept" /\ pc' = Phase("line")
        /\ UNCHANGED <<mb, mbuse, con, gs, armed, sent, got, faults>>
    BY DEF AcceptNothing, mem
  <1>2. pc' \in PcRec /\ pc'.at = "line"
    BY <1>1, TypeIs, AtIs DEF Good
  <1>3. armed' = {}
    BY <1>1, CalmIs
  <1> QED
    BY <1>1, <1>2, <1>3, CalmKeeps

LEMMA EndLinesKeeps == ASSUME Good, EndLines PROVE ConnectionsInv'
  <1>1. /\ pc.at = "line" /\ pc' = Phase("select") /\ got' = NoLine
        /\ UNCHANGED <<mb, mbuse, con, gs, armed, sent, faults>>
    BY DEF EndLines, mem
  <1>2. pc' \in PcRec /\ pc'.at = "select"
    BY <1>1, TypeIs, AtIs DEF Good
  <1>3. armed' = {}
    BY <1>1, CalmIs
  <1> QED
    BY <1>1, <1>2, <1>3, CalmKeeps

LEMMA NoAnswerKeeps == ASSUME Good, NoAnswer PROVE ConnectionsInv'
  <1>1. /\ pc.at = "answer" /\ pc' = [pc EXCEPT !.at = "line"] /\ got' = NoLine
        /\ UNCHANGED <<mb, mbuse, con, gs, armed, sent, faults>>
    BY DEF NoAnswer, mem
  <1>2. pc' \in PcRec /\ pc'.at = "line"
    BY <1>1, TypeIs, AtIs DEF Good
  <1>3. armed' = {}
    BY <1>1, CalmIs
  <1> QED
    BY <1>1, <1>2, <1>3, CalmKeeps

LEMMA LineUndefinedKeeps == ASSUME Good, NEW c \in Con, LineUndefined(c) PROVE ConnectionsInv'
  <1>1. /\ pc.at = "line" /\ ~Defined(c) /\ pc' = [pc EXCEPT !.at = "undefined"]
        /\ UNCHANGED <<mb, mbuse, con, gs, armed, sent, got, faults>>
    BY DEF LineUndefined, AtLine, Undefined, mem
  <1>2. pc' \in PcRec /\ pc'.at = "undefined"
    BY <1>1, TypeIs, AtIs DEF Good
  <1>3. armed' = {}
    BY <1>1, CalmIs
  <1>4. "memory" \in faults
    <2>1. con[c].use /\ (con[c].ri = EMBFULL \/ con[c].wi = EMBFULL)
      BY <1>1 DEF Defined
    <2>2. SlotOK(con[c], sent[c], faults)
      BY DEF Good, Held, HeldIn, SlotsOK
    <2> QED
      BY <2>1, <2>2, NoneIsNoBuf DEF SlotOK
  <1> QED
    BY <1>1, <1>2, <1>3, <1>4, CalmKeeps

-----------------------------------------------------------------------------
(* The steps that take from lists and put to them                          *)

LEMMA WriteSomeKeeps == ASSUME Good, NEW c \in Con, WriteSome(c) PROVE ConnectionsInv'
  <1> DEFINE h == con[c].wi
             W == Len(Contents(ListFrom(h)))
             n == IF W > SendSize THEN SendSize ELSE W
  <1>1. TypeOK /\ LineWhole /\ Held /\ ArmedOK /\ MemOK(mb) /\ mbuse \in Int /\ con \in [Con -> ConRec]
        /\ armed \subseteq Con
    BY TypeIs DEF Good
  <1>2. /\ pc.at = "write" /\ c \in armed /\ consumeMemBufList(h, n)
        /\ Passed(c) /\ UNCHANGED <<con, gs, armed, sent, got, faults>>
    BY Zenon DEF WriteSome
  <1>3. c \in OwnIn(con)
    BY <1>1, <1>2, ArmedOwn
  <1>4. h \in TopsIn(con)
    BY <1>3 DEF TopsIn
  <1>5. TextIn(mb, h) \in Seq(Cell) /\ W = Len(TextIn(mb, h))
    BY <1>1, <1>4, TextTyped
  <1>6. n \in 0 .. Len(TextIn(mb, h))
    <2>1. W \in Nat
      BY <1>5
    <2>2. SendSize \in Nat
      BY TcpStructAssumption DEF TcpStructAssumption
    <2> HIDE DEF W
    <2> QED
      BY <1>5, <2>1, <2>2
  <1> HIDE DEF n
  <1>7. \A d \in OwnIn(con) : con[d].ri # h
    BY <1>1, <1>3 DEF Held, HeldIn, TopsDiffer
  <1>8. MemOK(mb') /\ mbuse' \in Int /\ HeldIn(mb', mbuse', con, sent, faults)
    <2> HIDE DEF h
    <2> QED
      BY <1>1, <1>2, <1>4, <1>6, <1>7, HeldTaken
  <1>9. Held'
    BY <1>2, <1>8 DEF Held
  <1>10. pc' \in PcRec /\ pc'.at = "write"
    BY <1>1, <1>2, TypeIs, PassedIs DEF Passed
  <1>11. TypeOK'
    BY <1>1, <1>2, <1>8, <1>10, TypeIs, TypeIsThen
  <1>12. ArmedOK' /\ AnswerOK' /\ NeverUndefined'
    BY <1>1, <1>2, <1>10 DEF ArmedOK, AnswerOK, NeverUndefined
  <1>13. LineWhole'
    BY <1>1, <1>2, LineStays
  <1> QED
    BY <1>9, <1>11, <1>12, <1>13 DEF ConnectionsInv

(* A line is taken, and what is next is another connection or the answer.  *)
LEMMA TakeLineKeeps ==
    ASSUME Good, NEW c \in Con, AtLine(c), Defined(c), readline(c) = "line", TakeLine(c),
           UNCHANGED <<con, gs, armed, sent, faults>>, pc' \in PcRec,
           pc'.at # "undefined", pc'.at = "answer" => pc'.i = c
    PROVE  ConnectionsInv'
  <1> DEFINE h == con[c].ri
             n == LineLen(c)
             l == SubSeq(Text(c), 1, n)
  <1>1. TypeOK /\ LineWhole /\ Held /\ ArmedOK /\ MemOK(mb) /\ mbuse \in Int /\ con \in [Con -> ConRec]
        /\ faults \subseteq Event
    BY TypeIs DEF Good
  <1>2. pc.at = "line" /\ consumeMemBufList(h, n) /\ got' = [con |-> c, line |-> l]
    BY Zenon DEF AtLine, TakeLine
  <1>3. /\ c \in OwnIn(con) /\ con[c].use
        /\ n \in 0 .. Len(TextIn(mb, h)) /\ l \in Seq(Cell)
        /\ faults = {} =>
             /\ TextIs(c, SubSeq(TextIn(mb, h), n + 1, Len(TextIn(mb, h))), sent[c])
             /\ Whole(c, l)
    BY <1>1, LineFound
  <1>4. h \in TopsIn(con)
    BY <1>3 DEF TopsIn
  <1>5. \A d \in OwnIn(con) : con[d].ri = h => d = c
    BY <1>1, <1>3 DEF Held, HeldIn, TopsDiffer
  <1>6. MemOK(mb') /\ mbuse' \in Int /\ HeldIn(mb', mbuse', con, sent, faults)
    <2> HIDE DEF h, n
    <2> QED
      BY <1>1, <1>2, <1>3, <1>4, <1>5, HeldTaken
  <1>7. Held'
    BY <1>6 DEF Held
  <1>8. armed' = {}
    BY <1>2, CalmIs
  <1>9. TypeOK'
    BY <1>1, <1>6, <1>8, TypeIs, TypeIsThen
  <1>10. ArmedOK' /\ NeverUndefined'
    BY <1>8 DEF ArmedOK, NeverUndefined
  <1>11. AnswerOK'
    BY <1>3 DEF AnswerOK
  <1>12. LineWhole'
    <2> HIDE DEF l
    <2> QED
      BY <1>1, <1>2, <1>3, LineGot
  <1> QED
    BY <1>7, <1>9, <1>10, <1>11, <1>12 DEF ConnectionsInv

LEMMA LineNoneKeeps == ASSUME Good, NEW c \in Con, LineNone(c) PROVE ConnectionsInv'
  <1>1. /\ AtLine(c) /\ Defined(c) /\ Passed(c)
        /\ UNCHANGED <<con, gs, armed, sent, faults>>
        /\ \/ readline(c) = "line" /\ TakeLine(c)
           \/ UNCHANGED <<mb, mbuse>> /\ got' = NoLine
    BY DEF LineNone, mem
  <1>2. pc.at = "line"
    BY <1>1 DEF AtLine
  <1>3. pc' \in PcRec /\ pc'.at = "line"
    BY <1>1, <1>2, TypeIs, PassedIs DEF Passed, Good
  <1>4. armed' = {}
    BY <1>1, <1>2, CalmIs
  <1>5. CASE readline(c) = "line" /\ TakeLine(c)
    BY <1>1, <1>3, <1>5, TakeLineKeeps
  <1>6. CASE UNCHANGED <<mb, mbuse>> /\ got' = NoLine
    BY <1>1, <1>3, <1>4, <1>6, CalmKeeps
  <1> QED
    BY <1>1, <1>5, <1>6

LEMMA ServeKeeps == ASSUME Good, NEW c \in Con, Serve(c) PROVE ConnectionsInv'
  <1>1. /\ AtLine(c) /\ Defined(c) /\ readline(c) = "line" /\ TakeLine(c)
        /\ pc' = [at |-> "answer", i |-> c]
        /\ UNCHANGED <<con, gs, armed, sent, faults>>
    BY DEF Serve, LineTaken
  <1>2. pc' \in PcRec /\ pc'.at = "answer" /\ pc'.i = c
    BY <1>1 DEF PcRec, Con
  <1> QED
    BY <1>1, <1>2, TakeLineKeeps


LEMMA SentGrows ==
    ASSUME SentOK(sent), NEW c \in Con, NEW n \in Nat
    PROVE  SentOK([sent EXCEPT ![c] = (@ + n) % (Inside[c] + 2)])
           /\ sent[c] \in 0 .. Inside[c] + 1
  <1> DEFINE x == sent[c] + n
             M == Inside[c] + 2
             y == x % M
             s2 == [sent EXCEPT ![c] = y]
  <1>1. sent[c] \in Nat /\ sent[c] <= Inside[c] + 1 /\ Inside[c] \in Nat /\ M \in Nat \ {0}
    BY InsideIs DEF SentOK
  <1>2. x \in Nat /\ M - 1 = Inside[c] + 1
    BY <1>1
  <1> HIDE DEF x, M
  <1>3. y \in 0 .. M - 1
    BY <1>1, <1>2, ModRange
  <1> HIDE DEF y
  <1>4. y \in Nat /\ y <= Inside[c] + 1
    BY <1>1, <1>2, <1>3
  <1>5. SentOK(s2)
    BY <1>4 DEF SentOK
  <1>6. sent[c] \in 0 .. Inside[c] + 1
    BY <1>1
  <1> QED
    BY <1>5, <1>6 DEF x, y, M

LEMMA ReadSomeKeeps == ASSUME Good, NEW c \in Con, ReadSome(c) PROVE ConnectionsInv'
  <1> DEFINE h == con[c].ri
             most == IF getFreeMem > TmpSize THEN TmpSize ELSE getFreeMem
             next == [pc EXCEPT !.i = c]
             H == TopsIn(con)
  <1>1. /\ TypeOK /\ LineWhole /\ Held /\ ArmedOK /\ MemOK(mb) /\ mbuse \in Int /\ con \in [Con -> ConRec]
        /\ armed \subseteq Con /\ SentOK(sent) /\ faults \subseteq Event
    BY TypeIs DEF Good
  <1>2. /\ pc.at = "read" /\ c \in armed
        /\ UNCHANGED <<con, gs, armed, got>>
        /\ \E n \in 1 .. most :
              LET d == CellsFrom(c, n)
              IN  /\ appendMemBufList(h, d, next)
                  /\ sent' = [sent EXCEPT ![c] = (@ + n) % (Inside[c] + 2)]
                  /\ IF Fits(d) THEN UNCHANGED faults ELSE Occurs("dropped")
    BY Zenon DEF ReadSome
  <1>3. PICK n \in 1 .. most :
              LET d == CellsFrom(c, n)
              IN  /\ appendMemBufList(h, d, next)
                  /\ sent' = [sent EXCEPT ![c] = (@ + n) % (Inside[c] + 2)]
                  /\ IF Fits(d) THEN UNCHANGED faults ELSE Occurs("dropped")
    BY <1>2
  <1> DEFINE d == CellsFrom(c, n)
             s2 == (sent[c] + n) % (Inside[c] + 2)
  <1>4. /\ appendMemBufList(h, d, next)
        /\ sent' = [sent EXCEPT ![c] = (@ + n) % (Inside[c] + 2)]
        /\ Fits(d) => faults' = faults
        /\ ~Fits(d) => faults' = faults \union {"dropped"}
    BY <1>3 DEF Occurs
  <1>5. n \in Nat \ {0}
    <2>0. TmpSize \in Int
      BY TcpStructAssumption DEF TcpStructAssumption
    <2>1. most \in Int
      BY <1>1, <2>0 DEF getFreeMem
    <2> HIDE DEF most
    <2> QED
      BY <2>1
  <1>6. SentOK(sent') /\ sent[c] \in 0 .. Inside[c] + 1
    BY <1>1, <1>4, <1>5, SentGrows
  <1>7. d \in Seq(Cell)
    BY <1>5, <1>6, CellsAre
  <1>8. c \in OwnIn(con)
    BY <1>1, <1>2, ArmedOwn
  <1>9. h \in H
    BY <1>8 DEF TopsIn
  <1>10. next \in PcRec /\ next.at = "read"
    BY <1>1, <1>2, TypeIs, PassedIs
  <1>11. /\ PoolOK(mb, mbuse, con, faults) /\ SlotsOK(con, sent, faults) /\ TopsDiffer(con)
         /\ faults = {} => TextsOK(mb, con, sent)
    BY <1>1 DEF Held, HeldIn
  <1>12. faults \subseteq faults' /\ faults' \subseteq Event /\ Lost(faults') = Lost(faults)
    BY <1>1, <1>4 DEF Event, Lost
  <1>13. sent'[c] = s2 /\ \A e \in Con : e # c => sent'[e] = sent[e]
    BY <1>1, <1>4 DEF SentOK
  <1>14. LineWhole'
    BY <1>1, <1>2, <1>12, LineStays
  <1> HIDE DEF d, next, s2, H, h
  <1>15. SlotsOK(con', sent', faults')
    <2> SUFFICES ASSUME NEW e \in Con PROVE SlotOK(con[e], sent'[e], faults')
      BY <1>2 DEF SlotsOK
    <2>1. SlotOK(con[e], sent[e], faults)
      BY <1>11 DEF SlotsOK
    <2>2. con[c].use
      BY <1>8 DEF OwnIn
    <2> QED
      BY <1>12, <1>13, <2>1, <2>2 DEF SlotOK
  <1>16. TopsDiffer(con')
    BY <1>2, <1>11
  <1>17. gs' \subseteq Con /\ armed' \subseteq Con
    BY <1>1, <1>2, TypeIs
  <1>18. \/ ~Fits(d) /\ Undone(next)
         \/ Undefined /\ Fits(d) /\ "accept" \in faults
         \/ /\ Fits(d) /\ pc' = next
            /\ MemOK(mb') /\ mbuse' \in Int
            /\ PoolOK(mb', mbuse', con, faults) /\ Joins(mb, mb', H, h, d)
    BY <1>1, <1>4, <1>7, <1>9, HeldAppended DEF H
  <1>19. CASE ~Fits(d) /\ Undone(next)
    <2>1. pc' = next /\ UNCHANGED <<mb, mbuse>> /\ faults' = faults \union {"dropped"}
      BY <1>4, <1>19 DEF Undone, mem
    <2>2. PoolOK(mb', mbuse', con', faults')
      BY <1>2, <1>11, <1>12, <2>1 DEF PoolOK
    <2>3. Held'
      BY <1>15, <1>16, <2>1, <2>2 DEF Held, HeldIn
    <2>4. TypeOK'
      BY <1>1, <1>2, <1>6, <1>10, <1>12, <1>17, <2>1, TypeIsThen
    <2>5. ArmedOK' /\ AnswerOK' /\ NeverUndefined'
      BY <1>1, <1>2, <1>10, <2>1 DEF ArmedOK, AnswerOK, NeverUndefined
    <2> QED
      BY <1>14, <2>3, <2>4, <2>5 DEF ConnectionsInv
  <1>20. CASE Undefined /\ Fits(d) /\ "accept" \in faults
    <2>1. pc' = [pc EXCEPT !.at = "undefined"] /\ UNCHANGED <<mb, mbuse>> /\ "accept" \in faults'
      BY <1>12, <1>20 DEF Undefined, mem
    <2>2. pc' \in PcRec /\ pc'.at = "undefined"
      BY <1>1, <2>1, TypeIs, AtIs
    <2>3. TypeOK'
      BY <1>1, <1>2, <1>6, <1>12, <1>17, <2>1, <2>2, TypeIsThen
    <2>4. Spoilt' /\ NeverUndefined'
      BY <2>1, <2>2 DEF Spoilt, NeverUndefined
    <2> QED
      BY <1>14, <2>3, <2>4 DEF ConnectionsInv
  <1>21. CASE /\ Fits(d) /\ pc' = next
              /\ MemOK(mb') /\ mbuse' \in Int
              /\ PoolOK(mb', mbuse', con, faults) /\ Joins(mb, mb', H, h, d)
    <2>1. faults' = faults
      BY <1>4, <1>21
    <2>2. TypeOK'
      BY <1>1, <1>2, <1>6, <1>10, <1>12, <1>17, <1>21, TypeIsThen
    <2>3. ArmedOK' /\ AnswerOK' /\ NeverUndefined'
      BY <1>1, <1>2, <1>10, <1>21 DEF ArmedOK, AnswerOK, NeverUndefined
    <2>4. PoolOK(mb', mbuse', con', faults')
      BY <1>2, <1>21, <2>1
    <2>5. ASSUME faults' = {} PROVE TextsOK(mb', con', sent')
      <3> SUFFICES ASSUME NEW e \in OwnIn(con) PROVE TextIs(e, TextIn(mb', con[e].ri), sent'[e])
        BY <1>2 DEF TextsOK
      <3>1. TextIs(e, TextIn(mb, con[e].ri), sent[e])
        BY <1>11, <2>1, <2>5 DEF TextsOK
      <3>2. e \in Con
        BY DEF OwnIn
      <3>3. CASE e = c
        <4>1. TextIn(mb', h) = TextIn(mb, h) \o d
          BY <1>21 DEF Joins
        <4>2. TextIn(mb, h) \in Seq(Cell)
          BY <1>1, <1>9, TextTyped DEF H
        <4>3. TextIs(c, TextIn(mb, h), sent[c])
          BY <3>1, <3>3 DEF h
        <4>4. TextIs(c, TextIn(mb, h) \o d, s2)
          BY <1>5, <1>6, <4>2, <4>3, TextGrows DEF d, s2
        <4> QED
          BY <1>13, <3>3, <4>1, <4>4 DEF h
      <3>4. CASE e # c
        <4>1. con[e].ri # h /\ con[e].ri \in H
          BY <1>8, <1>11, <3>4 DEF TopsDiffer, TopsIn, H, h
        <4>2. TextIn(mb', con[e].ri) = TextIn(mb, con[e].ri)
          BY <1>21, <4>1 DEF Joins
        <4> QED
          BY <1>13, <3>1, <3>2, <3>4, <4>2
      <3> QED
        BY <3>3, <3>4
    <2>6. Held'
      BY <1>15, <1>16, <2>4, <2>5 DEF Held, HeldIn
    <2> QED
      BY <1>14, <2>2, <2>3, <2>6 DEF ConnectionsInv
  <1> QED
    BY <1>18, <1>19, <1>20, <1>21

LEMMA AnswerKeeps == ASSUME Good, Answer PROVE ConnectionsInv'
  <1> DEFINE c == pc.i
             h == con[c].wi
             next == [pc EXCEPT !.at = "line"]
             H == TopsIn(con)
             d == <<Reply>>
  <1>1. /\ TypeOK /\ LineWhole /\ Held /\ MemOK(mb) /\ mbuse \in Int /\ con \in [Con -> ConRec]
        /\ faults \subseteq Event
    BY TypeIs DEF Good
  <1>2. /\ pc.at = "answer" /\ appendMemBufList(h, d, next) /\ got' = NoLine
        /\ UNCHANGED <<con, gs, armed, sent, faults>>
    BY Zenon DEF Answer
  <1>3. armed' = {}
    BY <1>2, CalmIs
  <1>4. c \in OwnIn(con)
    BY <1>2 DEF Good, AnswerOK
  <1>5. h \in H /\ c \in Con
    BY <1>4 DEF TopsIn, OwnIn
  <1>6. d \in Seq(Cell)
    <2>1. Reply \in Cell
      BY <1>5 DEF Reply, Cell, Part
    <2> QED
      BY <2>1
  <1>7. next \in PcRec /\ next.at = "line"
    BY <1>1, TypeIs, AtIs
  <1>8. /\ PoolOK(mb, mbuse, con, faults) /\ SlotsOK(con, sent, faults) /\ TopsDiffer(con)
        /\ faults = {} => TextsOK(mb, con, sent)
    BY <1>1 DEF Held, HeldIn
  <1>9. LineWhole'
    BY <1>1, <1>2, LineStays
  <1>10. \A e \in OwnIn(con) : con[e].ri # h /\ con[e].ri \in H
    BY <1>4, <1>8 DEF TopsDiffer, TopsIn
  <1> HIDE DEF d, next, H, h, c
  <1>11. \/ ~Fits(d) /\ Undone(next)
         \/ Undefined /\ Fits(d) /\ "accept" \in faults
         \/ /\ Fits(d) /\ pc' = next
            /\ MemOK(mb') /\ mbuse' \in Int
            /\ PoolOK(mb', mbuse', con, faults) /\ Joins(mb, mb', H, h, d)
    BY <1>1, <1>2, <1>5, <1>6, HeldAppended DEF H
  <1>12. CASE ~Fits(d) /\ Undone(next)
    <2>1. pc' = next /\ UNCHANGED <<mb, mbuse>>
      BY <1>12 DEF Undone, mem
    <2> QED
      BY <1>2, <1>3, <1>7, <2>1, CalmKeeps
  <1>13. CASE Undefined /\ Fits(d) /\ "accept" \in faults
    <2>1. pc' = [pc EXCEPT !.at = "undefined"] /\ UNCHANGED <<mb, mbuse>> /\ "accept" \in faults'
      BY <1>2, <1>13 DEF Undefined, mem
    <2>2. pc' \in PcRec /\ pc'.at = "undefined"
      BY <1>1, <2>1, TypeIs, AtIs
    <2>3. TypeOK'
      BY <1>1, <1>2, <1>3, <2>1, <2>2, TypeIs, TypeIsThen
    <2>4. Spoilt' /\ NeverUndefined'
      BY <2>1, <2>2 DEF Spoilt, NeverUndefined
    <2> QED
      BY <1>9, <2>3, <2>4 DEF ConnectionsInv
  <1>14. CASE /\ Fits(d) /\ pc' = next
              /\ MemOK(mb') /\ mbuse' \in Int
              /\ PoolOK(mb', mbuse', con, faults) /\ Joins(mb, mb', H, h, d)
    <2>1. TypeOK'
      BY <1>1, <1>2, <1>3, <1>7, <1>14, TypeIs, TypeIsThen
    <2>2. ArmedOK' /\ AnswerOK' /\ NeverUndefined'
      BY <1>3, <1>7, <1>14 DEF ArmedOK, AnswerOK, NeverUndefined
    <2>3. ASSUME faults' = {} PROVE TextsOK(mb', con', sent')
      <3> SUFFICES ASSUME NEW e \in OwnIn(con) PROVE TextIs(e, TextIn(mb', con[e].ri), sent[e])
        BY <1>2 DEF TextsOK
      <3>1. TextIs(e, TextIn(mb, con[e].ri), sent[e])
        BY <1>2, <1>8, <2>3 DEF TextsOK
      <3>2. TextIn(mb', con[e].ri) = TextIn(mb, con[e].ri)
        BY <1>10, <1>14 DEF Joins
      <3> QED
        BY <3>1, <3>2
    <2>4. PoolOK(mb', mbuse', con', faults') /\ SlotsOK(con', sent', faults') /\ TopsDiffer(con')
      BY <1>2, <1>8, <1>14
    <2>5. Held'
      BY <2>3, <2>4 DEF Held, HeldIn
    <2> QED
      BY <1>9, <2>1, <2>2, <2>5 DEF ConnectionsInv
  <1> QED
    BY <1>11, <1>12, <1>13, <1>14


-----------------------------------------------------------------------------
(* The steps that begin and end connections                                *)

Opened(f, a, b) == [use |-> TRUE, fd |-> f, closed |-> FALSE, ri |-> a, wi |-> b]

NewTops(a, b) == /\ a \in Buf /\ b \in Buf /\ a # b
                 /\ a \notin TopsIn(con) /\ b \notin TopsIn(con)
Explained(f, ff) == f \in BOOLEAN /\ faults \subseteq ff /\ (f \/ "accept" \in ff)

SlotTaken(dd, c, a, b, ff) ==
    /\ dd \in [Con -> ConRec]
    /\ OwnIn(dd) = OwnIn(con) \union {c} /\ TopsIn(dd) = TopsIn(con) \union {a, b}
    /\ SlotsOK(dd, sent, ff) /\ TopsDiffer(dd)
    /\ dd[c].ri = a /\ sent[c] = 0 /\ \A e \in OwnIn(con) : e # c /\ dd[e] = con[e]

(* A slot is taken for a connection with two new lists.                    *)
LEMMA NewSlot ==
    ASSUME con \in [Con -> ConRec], SlotsOK(con, sent, faults), TopsDiffer(con),
           NEW c \in Con, ~con[c].use, NEW a, NEW b, NewTops(a, b),
           NEW f, NEW ff, Explained(f, ff),
           NEW dd, dd = [con EXCEPT ![c] = Opened(f, a, b)]
    PROVE  SlotTaken(dd, c, a, b, ff)
  <1> DEFINE r == Opened(f, a, b)
  <1>0. /\ a \in Buf /\ b \in Buf /\ a # b /\ a \notin TopsIn(con) /\ b \notin TopsIn(con)
        /\ f \in BOOLEAN /\ faults \subseteq ff /\ (f \/ "accept" \in ff)
    BY DEF NewTops, Explained
  <1>1. r \in ConRec /\ r.use /\ r.fd = f /\ r.ri = a /\ r.wi = b
    BY <1>0 DEF ConRec, Opened
  <1> HIDE DEF r
  <1>2. dd[c] = r /\ (\A e \in Con : e # c => dd[e] = con[e]) /\ dd \in [Con -> ConRec]
    BY <1>1 DEF r
  <1>3. OwnIn(dd) = OwnIn(con) \union {c} /\ c \notin OwnIn(con)
    BY <1>0, <1>1, <1>2 DEF OwnIn
  <1>4. \A e \in OwnIn(con) : e # c /\ dd[e] = con[e]
    BY <1>2, <1>3 DEF OwnIn
  <1>5. TopsIn(dd) = TopsIn(con) \union {a, b}
    <2>1. \A x : x \in TopsIn(dd) => x \in TopsIn(con) \/ x = a \/ x = b
      <3> TAKE x
      <3> HAVE x \in TopsIn(dd)
      <3>1. PICK e \in OwnIn(dd) : x = dd[e].ri \/ x = dd[e].wi
        BY DEF TopsIn
      <3>2. CASE e = c
        BY <1>1, <1>2, <3>1, <3>2
      <3>3. CASE e \in OwnIn(con)
        <4>1. x = con[e].ri \/ x = con[e].wi
          BY <1>4, <3>1, <3>3
        <4> QED
          BY <3>3, <4>1 DEF TopsIn
      <3> QED
        BY <1>3, <3>2, <3>3
    <2>2. \A x : x \in TopsIn(con) => x \in TopsIn(dd)
      <3> TAKE x
      <3> HAVE x \in TopsIn(con)
      <3>1. PICK e \in OwnIn(con) : x = con[e].ri \/ x = con[e].wi
        BY DEF TopsIn
      <3>2. e \in OwnIn(dd) /\ (x = dd[e].ri \/ x = dd[e].wi)
        BY <1>3, <1>4, <3>1
      <3> QED
        BY <3>2 DEF TopsIn
    <2>3. a \in TopsIn(dd) /\ b \in TopsIn(dd)
      BY <1>1, <1>2, <1>3 DEF TopsIn
    <2> QED
      BY <2>1, <2>2, <2>3
  <1>6. SlotsOK(dd, sent, ff)
    <2> SUFFICES ASSUME NEW e \in Con PROVE SlotOK(dd[e], sent[e], ff)
      BY DEF SlotsOK
    <2>1. CASE e = c
      BY <1>0, <1>1, <1>2, <2>1 DEF SlotOK
    <2>2. CASE e # c
      BY <1>0, <1>2, <2>2 DEF SlotOK, SlotsOK
    <2> QED
      BY <2>1, <2>2
  <1>7. TopsDiffer(dd)
    <2>1. \A e \in OwnIn(con) : con[e].ri \in TopsIn(con) /\ con[e].wi \in TopsIn(con)
      BY DEF TopsIn
    <2> SUFFICES ASSUME NEW d \in OwnIn(dd), NEW e \in OwnIn(dd)
                 PROVE  dd[d].ri # dd[e].wi /\ (d # e => dd[d].ri # dd[e].ri /\ dd[d].wi # dd[e].wi)
      BY DEF TopsDiffer
    <2>2. CASE d \in OwnIn(con) /\ e \in OwnIn(con)
      BY <1>4, <2>2 DEF TopsDiffer
    <2>3. CASE d = c /\ e \in OwnIn(con)
      BY <1>0, <1>1, <1>2, <1>4, <2>1, <2>3
    <2>4. CASE d \in OwnIn(con) /\ e = c
      BY <1>0, <1>1, <1>2, <1>4, <2>1, <2>4
    <2>5. CASE d = c /\ e = c
      BY <1>0, <1>1, <1>2, <2>5
    <2> QED
      BY <1>3, <2>2, <2>3, <2>4, <2>5
  <1>8. sent[c] = 0
    BY DEF SlotsOK, SlotOK
  <1> QED
    BY <1>1, <1>2, <1>3, <1>4, <1>5, <1>6, <1>7, <1>8 DEF SlotTaken

(* Two free buffers become the lists of a new connection.                  *)
LEMMA HeldBegun ==
    ASSUME MemOK(mb), mbuse \in Int, con \in [Con -> ConRec], Held, Len(FreeInOrder) >= 2,
           NEW c \in Con, ~con[c].use, NEW f, NEW ff, Explained(f, ff),
           NEW dd, dd = [con EXCEPT ![c] = Opened(f, FreeInOrder[1], FreeInOrder[2])],
           NEW m2, m2 = WithHeads(FreeInOrder),
           NEW n2, n2 = mbuse + 2 + Lost(faults) - Lost(ff)
    PROVE  MemOK(m2) /\ n2 \in Int /\ dd \in [Con -> ConRec] /\ HeldIn(m2, n2, dd, sent, ff)
  <1> DEFINE a == FreeInOrder[1]
             b == FreeInOrder[2]
             H == TopsIn(con)
  <1>1. /\ PoolOK(mb, mbuse, con, faults) /\ SlotsOK(con, sent, faults) /\ TopsDiffer(con)
        /\ faults = {} => TextsOK(mb, con, sent)
    BY DEF Held, HeldIn
  <1>2. H \in SUBSET Buf /\ Pool(mb, H) /\ mbuse = Cardinality(UsedIn(mb)) - Lost(faults)
        /\ mb \in Mem /\ NotOverfull(mb)
    BY <1>1, TopsAre DEF PoolOK, MemOK
  <1>3. a \in Buf /\ b \in Buf /\ a # b /\ ~mb[a].use /\ ~mb[b].use
    <2> DEFINE N == Len(FreeInOrder)
    <2>1. N \in Nat /\ N >= 2 /\ (\A i \in 1 .. N : FreeInOrder[i] \in Buf /\ ~mb[FreeInOrder[i]].use)
          /\ \A i, j \in 1 .. N : FreeInOrder[i] = FreeInOrder[j] => i = j
      BY FreeFacts
    <2> HIDE DEF N
    <2>2. 1 \in 1 .. N /\ 2 \in 1 .. N
      BY <2>1
    <2> QED
      BY <2>1, <2>2
  <1>4. m2 = [mb EXCEPT ![a] = NewHead, ![b] = NewHead]
    BY NewHeadIs, Zenon DEF WithHeads
  <1> HIDE DEF a, b, H
  <1>5. a \notin H /\ b \notin H /\ Begun(mb, m2, H, a, b)
    BY <1>2, <1>3, <1>4, ListsBegin
  <1>6. /\ m2 \in Mem /\ Pool(m2, H \union {a, b}) /\ NotOverfull(m2)
        /\ TextIn(m2, a) = <<>>
        /\ \A g \in H : TextIn(m2, g) = TextIn(mb, g)
        /\ Cardinality(UsedIn(m2)) = Cardinality(UsedIn(mb)) + 2
    BY <1>2, <1>5 DEF Begun
  <1>7. dd = [con EXCEPT ![c] = Opened(f, a, b)]
    BY DEF a, b
  <1>8. /\ dd \in [Con -> ConRec]
        /\ OwnIn(dd) = OwnIn(con) \union {c} /\ TopsIn(dd) = H \union {a, b}
        /\ SlotsOK(dd, sent, ff) /\ TopsDiffer(dd)
        /\ dd[c].ri = a /\ sent[c] = 0 /\ \A e \in OwnIn(con) : e # c /\ dd[e] = con[e]
    <2>1. NewTops(a, b)
      BY <1>3, <1>5 DEF H, NewTops
    <2>2. SlotTaken(dd, c, a, b, ff)
      BY <1>1, <1>7, <2>1, NewSlot
    <2> QED
      BY <2>2 DEF SlotTaken, H
  <1>9. n2 = Cardinality(UsedIn(m2)) - Lost(ff) /\ n2 \in Int
    <2>1. Cardinality(UsedIn(mb)) \in Nat /\ Lost(faults) \in Int /\ Lost(ff) \in Int
      BY UsedFinite DEF Lost
    <2> QED
      <3> DEFINE u == Cardinality(UsedIn(mb))
                 v == Cardinality(UsedIn(m2))
                 x == Lost(faults)
                 y == Lost(ff)
      <3>1. u \in Nat /\ x \in Int /\ y \in Int /\ mbuse = u - x /\ v = u + 2 /\ n2 = mbuse + 2 + x - y
        BY <1>2, <1>6, <2>1
      <3> HIDE DEF u, v, x, y
      <3>2. n2 = v - y /\ n2 \in Int
        BY <3>1
      <3> QED
        BY <3>2 DEF v, y
  <1>10. ASSUME ff = {} PROVE TextsOK(m2, dd, sent)
    <2>1. TextsOK(mb, con, sent)
      BY <1>1, <1>10 DEF Explained
    <2> SUFFICES ASSUME NEW e \in OwnIn(dd) PROVE TextIs(e, TextIn(m2, dd[e].ri), sent[e])
      BY DEF TextsOK
    <2>2. CASE e = c
      BY <1>6, <1>8, <2>2, NoText
    <2>3. CASE e \in OwnIn(con)
      <3>1. con[e].ri \in H
        BY <2>3 DEF TopsIn, H
      <3> QED
        BY <1>6, <1>8, <2>1, <2>3, <3>1 DEF TextsOK
    <2> QED
      BY <1>8, <2>2, <2>3
  <1>11. PoolOK(m2, n2, dd, ff)
    BY <1>6, <1>8, <1>9 DEF PoolOK
  <1>12. HeldIn(m2, n2, dd, sent, ff)
    BY <1>8, <1>10, <1>11 DEF HeldIn
  <1> QED
    BY <1>6, <1>8, <1>9, <1>12 DEF MemOK

LEMMA AcceptKeeps == ASSUME Good, Accept PROVE ConnectionsInv'
  <1>1. /\ TypeOK /\ LineWhole /\ Held /\ MemOK(mb) /\ mbuse \in Int /\ con \in [Con -> ConRec]
        /\ faults \subseteq Event /\ SentOK(sent) /\ gs \subseteq Con
    BY TypeIs DEF Good
  <1>2. /\ pc.at = "accept" /\ Len(FreeInOrder) >= 2
        /\ mb' = WithHeads(FreeInOrder) /\ mbuse' = mbuse + 2
        /\ pc' = Phase("line") /\ UNCHANGED <<armed, sent, got, faults>>
    BY DEF Accept
  <1>3. PICK c \in Con : /\ ~con[c].use
                         /\ con' = [con EXCEPT ![c] = Opened(TRUE, FreeInOrder[1], FreeInOrder[2])]
                         /\ gs' = gs \union {c}
    BY DEF Accept, IsBlankCon, Opened
  <1>4. mbuse' = mbuse + 2 + Lost(faults) - Lost(faults)
    <2>1. Lost(faults) \in Int
      BY DEF Lost
    <2> QED
      BY <1>1, <1>2, <2>1
  <1>5. MemOK(mb') /\ mbuse' \in Int /\ con' \in [Con -> ConRec] /\ HeldIn(mb', mbuse', con', sent, faults)
    <2>1. Explained(TRUE, faults)
      BY DEF Explained
    <2> QED
      BY <1>1, <1>2, <1>3, <1>4, <2>1, HeldBegun
  <1>6. Held'
    BY <1>2, <1>5 DEF Held
  <1>7. pc' \in PcRec /\ pc'.at = "line"
    BY <1>1, <1>2, TypeIs, AtIs
  <1>8. armed' = {}
    BY <1>2, CalmIs
  <1>9. TypeOK'
    BY <1>1, <1>2, <1>3, <1>5, <1>7, <1>8, TypeIsThen
  <1>10. ArmedOK' /\ AnswerOK' /\ NeverUndefined'
    BY <1>7, <1>8 DEF ArmedOK, AnswerOK, NeverUndefined
  <1>11. LineWhole'
    BY <1>1, <1>2, LineStays
  <1> QED
    BY <1>6, <1>9, <1>10, <1>11 DEF ConnectionsInv

LEMMA AcceptFailsKeeps == ASSUME Good, AcceptFails PROVE ConnectionsInv'
  <1> DEFINE ff == faults \union {"accept"}
             m2 == WithHeads(FreeInOrder)
             n2 == mbuse + 1
  <1>1. /\ TypeOK /\ LineWhole /\ Held /\ MemOK(mb) /\ mbuse \in Int /\ con \in [Con -> ConRec]
        /\ faults \subseteq Event /\ SentOK(sent) /\ gs \subseteq Con
    BY TypeIs DEF Good
  <1>2. /\ pc.at = "accept" /\ Len(FreeInOrder) >= 2
        /\ "accept" \notin faults /\ faults' = ff
        /\ UNCHANGED <<gs, armed, sent, got>>
        /\ Undefined \/ (mb' = m2 /\ mbuse' = n2 /\ pc' = Phase("line"))
    BY DEF AcceptFails, Occurs
  <1>3. PICK c \in Con : /\ ~con[c].use
                         /\ con' = [con EXCEPT ![c] = Opened(FALSE, FreeInOrder[1], FreeInOrder[2])]
    BY DEF AcceptFails, IsBlankCon, Opened
  <1>4. n2 = mbuse + 2 + Lost(faults) - Lost(ff)
    <2>1. Lost(faults) = 0 /\ Lost(ff) = 1
      BY <1>2 DEF Lost
    <2> HIDE DEF ff
    <2> QED
      BY <1>1, <2>1
  <1>5. MemOK(m2) /\ n2 \in Int /\ con' \in [Con -> ConRec] /\ HeldIn(m2, n2, con', sent, ff)
    <2>1. Explained(FALSE, ff)
      BY DEF Explained
    <2> DEFINE m == m2
    <2>2. m = WithHeads(FreeInOrder)
      OBVIOUS
    <2> HIDE DEF ff, m, n2
    <2>3. MemOK(m) /\ n2 \in Int /\ con' \in [Con -> ConRec] /\ HeldIn(m, n2, con', sent, ff)
      BY <1>1, <1>2, <1>3, <1>4, <2>1, <2>2, HeldBegun
    <2> QED
      BY <2>3 DEF m
  <1>6. armed' = {}
    BY <1>2, CalmIs
  <1>7. ff \subseteq Event /\ "accept" \in ff
    BY <1>1 DEF Event
  <1>8. LineWhole'
    BY <1>1, <1>2, LineStays
  <1> HIDE DEF m2, n2, ff
  <1>9. CASE Undefined
    <2>1. pc' = [pc EXCEPT !.at = "undefined"] /\ UNCHANGED <<mb, mbuse>>
      BY <1>9 DEF Undefined, mem
    <2>2. pc' \in PcRec /\ pc'.at = "undefined"
      BY <1>1, <2>1, TypeIs, AtIs
    <2>3. TypeOK'
      BY <1>1, <1>2, <1>5, <1>6, <1>7, <2>1, <2>2, TypeIsThen
    <2>4. Spoilt' /\ NeverUndefined'
      BY <1>2, <1>7, <2>2 DEF Spoilt, NeverUndefined
    <2> QED
      BY <1>8, <2>3, <2>4 DEF ConnectionsInv
  <1>10. CASE mb' = m2 /\ mbuse' = n2 /\ pc' = Phase("line")
    <2>1. pc' \in PcRec /\ pc'.at = "line"
      BY <1>1, <1>10, TypeIs, AtIs
    <2>2. TypeOK'
      BY <1>1, <1>2, <1>5, <1>6, <1>7, <1>10, <2>1, TypeIsThen
    <2>3. ArmedOK' /\ AnswerOK' /\ NeverUndefined'
      BY <1>6, <2>1 DEF ArmedOK, AnswerOK, NeverUndefined
    <2>4. Held'
      BY <1>2, <1>5, <1>10 DEF Held
    <2> QED
      BY <1>8, <2>2, <2>3, <2>4 DEF ConnectionsInv
  <1> QED
    BY <1>2, <1>9, <1>10

LEMMA AcceptNoMemoryKeeps == ASSUME Good, AcceptNoMemory PROVE ConnectionsInv'
  <1> DEFINE free == FreeInOrder
             ff == faults \union {"memory"}
  <1>1. /\ TypeOK /\ LineWhole /\ Held /\ MemOK(mb) /\ mbuse \in Int /\ con \in [Con -> ConRec]
        /\ faults \subseteq Event /\ SentOK(sent) /\ gs \subseteq Con
    BY TypeIs DEF Good
  <1>2. /\ pc.at = "accept" /\ Len(free) < 2 /\ faults' = ff /\ pc' = Phase("line")
        /\ UNCHANGED <<mb, mbuse, gs, armed, sent, got>>
    BY DEF AcceptNoMemory, Occurs
  <1>3. PICK c \in Con :
           /\ ~con[c].use
           /\ con' = [con EXCEPT ![c].use = TRUE, ![c].fd = FALSE,
                       ![c].ri = IF free = <<>> THEN EMBFULL ELSE free[1],
                       ![c].wi = IF free = <<>> THEN @ ELSE EMBFULL]
    BY DEF AcceptNoMemory, IsBlankCon
  <1>4. free # <<>> => free[1] \in Buf
    <2>1. free \in Seq(Buf) /\ Len(free) \in Nat
      BY FreeFacts
    <2> HIDE DEF free
    <2>2. free # <<>> => Len(free) >= 1
      BY <2>1
    <2> QED
      BY <2>1, <2>2
  <1> HIDE DEF free
  <1> DEFINE r == con[c]
             ri == IF free = <<>> THEN EMBFULL ELSE free[1]
             wi == IF free = <<>> THEN r.wi ELSE EMBFULL
             s == con'[c]
  <1>5. r \in ConRec /\ r.wi = None
    BY <1>1, <1>3 DEF Held, HeldIn, SlotsOK, SlotOK
  <1>6. ri \in Buf \union {None, EMBFULL} /\ wi \in {None, EMBFULL} /\ (wi = EMBFULL \/ ri = EMBFULL)
    BY <1>4, <1>5
  <1>7. s = [r EXCEPT !.use = TRUE, !.fd = FALSE, !.ri = ri, !.wi = wi]
        /\ \A e \in Con : e # c => con'[e] = con[e]
    BY <1>1, <1>3
  <1> HIDE DEF r, ri, wi, s
  <1>8. s \in ConRec /\ s.use /\ ~s.fd /\ s.ri = ri /\ s.wi = wi
    BY <1>5, <1>6, <1>7 DEF ConRec
  <1>9. con' \in [Con -> ConRec]
    <2>1. \A e \in Con : con'[e] \in ConRec
      BY <1>1, <1>7, <1>8 DEF s
    <2>2. con' = [e \in Con |-> con'[e]]
      BY <1>1, <1>3
    <2> QED
      BY <2>1, <2>2
  <1>10. OwnIn(con') = OwnIn(con) /\ \A e \in OwnIn(con) : con'[e] = con[e]
    <2>1. ~con[c].use /\ con'[c].wi \notin Buf
      BY <1>3, <1>6, <1>8, NoneIsNoBuf DEF s
    <2> QED
      BY <1>7, <2>1 DEF OwnIn
  <1>11. TopsIn(con') = TopsIn(con)
    BY <1>10 DEF TopsIn
  <1>12. ff \subseteq Event /\ "memory" \in ff /\ Lost(ff) = Lost(faults) /\ faults \subseteq ff /\ ff # {}
    BY <1>1 DEF Event, Lost
  <1> HIDE DEF ff
  <1>13. /\ PoolOK(mb, mbuse, con, faults) /\ SlotsOK(con, sent, faults) /\ TopsDiffer(con)
    BY <1>1 DEF Held, HeldIn
  <1>14. PoolOK(mb, mbuse, con', ff)
    BY <1>11, <1>12, <1>13 DEF PoolOK
  <1>15. SlotsOK(con', sent, ff)
    <2> SUFFICES ASSUME NEW e \in Con PROVE SlotOK(con'[e], sent[e], ff)
      BY DEF SlotsOK
    <2>1. CASE e = c
      BY <1>6, <1>8, <1>12, <2>1, NoneIsNoBuf DEF SlotOK, s
    <2>2. CASE e # c
      BY <1>7, <1>12, <1>13, <2>2 DEF SlotOK, SlotsOK
    <2> QED
      BY <2>1, <2>2
  <1>16. TopsDiffer(con')
    BY <1>10, <1>13 DEF TopsDiffer
  <1>17. Held'
    BY <1>2, <1>12, <1>14, <1>15, <1>16 DEF Held, HeldIn
  <1>18. pc' \in PcRec /\ pc'.at = "line"
    BY <1>1, <1>2, TypeIs, AtIs
  <1>19. armed' = {}
    BY <1>2, CalmIs
  <1>20. TypeOK'
    BY <1>1, <1>2, <1>9, <1>12, <1>18, <1>19, TypeIsThen
  <1>21. ArmedOK' /\ AnswerOK' /\ NeverUndefined'
    BY <1>18, <1>19 DEF ArmedOK, AnswerOK, NeverUndefined
  <1>22. LineWhole'
    BY <1>1, <1>2, <1>12, LineStays
  <1> QED
    BY <1>17, <1>20, <1>21, <1>22 DEF ConnectionsInv

SlotFreed(dd, ss, c) ==
    /\ dd \in [Con -> ConRec] /\ SentOK(ss)
    /\ OwnIn(dd) = OwnIn(con) \ {c}
    /\ TopsIn(dd) = TopsIn(con) \ {con[c].ri, con[c].wi}
    /\ SlotsOK(dd, ss, faults) /\ TopsDiffer(dd)
    /\ \A e \in OwnIn(con) : e # c => dd[e] = con[e] /\ ss[e] = sent[e]

(* The slot of a connection is given back.                                 *)
LEMMA SlotGivenBack ==
    ASSUME con \in [Con -> ConRec], SentOK(sent), SlotsOK(con, sent, faults), TopsDiffer(con),
           NEW c \in OwnIn(con),
           NEW dd, dd = [con EXCEPT ![c].use = FALSE, ![c].fd = FALSE,
                                    ![c].ri = None, ![c].wi = None],
           NEW ss, ss = [sent EXCEPT ![c] = 0]
    PROVE  SlotFreed(dd, ss, c)
  <1> DEFINE r == con[c]
             s == dd[c]
  <1>1. c \in Con /\ r \in ConRec
    BY DEF OwnIn
  <1>2. s = [r EXCEPT !.use = FALSE, !.fd = FALSE, !.ri = None, !.wi = None]
        /\ \A e \in Con : e # c => dd[e] = con[e]
    BY <1>1
  <1> HIDE DEF r, s
  <1>3. s \in ConRec /\ ~s.use /\ ~s.fd /\ s.ri = None /\ s.wi = None
    BY <1>1, <1>2, NoneIsNoBuf DEF ConRec
  <1>4. dd \in [Con -> ConRec]
    <2>1. \A e \in Con : dd[e] \in ConRec
      BY <1>2, <1>3 DEF s
    <2>2. dd = [e \in Con |-> dd[e]]
      OBVIOUS
    <2> QED
      BY <2>1, <2>2
  <1>5. ss[c] = 0 /\ \A e \in Con : e # c => ss[e] = sent[e]
    BY <1>1 DEF SentOK
  <1>6. SentOK(ss)
    <2>1. sent \in [Con -> Nat] /\ \A e \in Con : sent[e] <= Inside[e] + 1
      BY DEF SentOK
    <2>2. ss \in [Con -> Nat]
      BY <2>1
    <2>3. \A e \in Con : ss[e] <= Inside[e] + 1
      <3> SUFFICES ASSUME NEW e \in Con PROVE ss[e] <= Inside[e] + 1
        OBVIOUS
      <3>1. Inside[e] \in Nat
        BY InsideIs
      <3>2. ss[e] = 0 \/ ss[e] = sent[e]
        BY <1>5
      <3> QED
        BY <2>1, <3>1, <3>2
    <2> QED
      BY <2>2, <2>3 DEF SentOK
  <1>7. OwnIn(dd) = OwnIn(con) \ {c}
    BY <1>2, <1>3 DEF OwnIn, s
  <1>8. \A e \in OwnIn(con) : e # c => dd[e] = con[e] /\ ss[e] = sent[e]
    BY <1>2, <1>5 DEF OwnIn
  <1>9. TopsIn(dd) = TopsIn(con) \ {con[c].ri, con[c].wi}
    <2>1. \A x : x \in TopsIn(dd) => x \in TopsIn(con) /\ x # con[c].ri /\ x # con[c].wi
      <3> TAKE x
      <3> HAVE x \in TopsIn(dd)
      <3>1. PICK e \in OwnIn(dd) : x = dd[e].ri \/ x = dd[e].wi
        BY DEF TopsIn
      <3>2. e \in OwnIn(con) /\ e # c /\ (x = con[e].ri \/ x = con[e].wi)
        BY <1>7, <1>8, <3>1
      <3>3. x \in TopsIn(con)
        BY <3>2 DEF TopsIn
      <3>4. /\ con[e].ri # con[c].wi /\ con[c].ri # con[e].wi
            /\ con[e].ri # con[c].ri /\ con[e].wi # con[c].wi
        BY <3>2 DEF TopsDiffer
      <3> QED
        BY <3>2, <3>3, <3>4
    <2>2. \A x : x \in TopsIn(con) /\ x # con[c].ri /\ x # con[c].wi => x \in TopsIn(dd)
      <3> TAKE x
      <3> HAVE x \in TopsIn(con) /\ x # con[c].ri /\ x # con[c].wi
      <3>1. PICK e \in OwnIn(con) : x = con[e].ri \/ x = con[e].wi
        BY DEF TopsIn
      <3>2. e \in OwnIn(dd) /\ (x = dd[e].ri \/ x = dd[e].wi)
        BY <1>7, <1>8, <3>1
      <3> QED
        BY <3>2 DEF TopsIn
    <2> QED
      BY <2>1, <2>2
  <1>10. SlotsOK(dd, ss, faults)
    <2> SUFFICES ASSUME NEW e \in Con PROVE SlotOK(dd[e], ss[e], faults)
      BY DEF SlotsOK
    <2>1. CASE e = c
      BY <1>3, <1>5, <2>1 DEF SlotOK, s
    <2>2. CASE e # c
      BY <1>2, <1>5, <2>2 DEF SlotsOK
    <2> QED
      BY <2>1, <2>2
  <1>11. TopsDiffer(dd)
    <2> SUFFICES ASSUME NEW d \in OwnIn(dd), NEW e \in OwnIn(dd)
                 PROVE  dd[d].ri # dd[e].wi /\ (d # e => dd[d].ri # dd[e].ri /\ dd[d].wi # dd[e].wi)
      BY DEF TopsDiffer
    <2>1. d \in OwnIn(con) /\ e \in OwnIn(con) /\ dd[d] = con[d] /\ dd[e] = con[e]
      BY <1>7, <1>8
    <2> QED
      BY <2>1 DEF TopsDiffer
  <1> QED
    BY <1>4, <1>6, <1>7, <1>8, <1>9, <1>10, <1>11 DEF SlotFreed

(* tcpstruct_close frees the buffers of both lists and counts them.        *)
LEMMA HeldEnded ==
    ASSUME MemOK(mb), mbuse \in Int, con \in [Con -> ConRec], SentOK(sent), Held,
           NEW c \in OwnIn(con), tcpstruct_close(c)
    PROVE  /\ MemOK(mb') /\ mbuse' \in Int /\ con' \in [Con -> ConRec] /\ SentOK(sent')
           /\ HeldIn(mb', mbuse', con', sent', faults)
  <1> DEFINE a == con[c].ri
             b == con[c].wi
             H == TopsIn(con)
  <1>1. /\ PoolOK(mb, mbuse, con, faults) /\ SlotsOK(con, sent, faults) /\ TopsDiffer(con)
        /\ faults = {} => TextsOK(mb, con, sent)
    BY DEF Held, HeldIn
  <1>2. H \in SUBSET Buf /\ Pool(mb, H) /\ mbuse = Cardinality(UsedIn(mb)) - Lost(faults)
        /\ mb \in Mem /\ NotOverfull(mb)
    BY <1>1, TopsAre DEF PoolOK, MemOK
  <1>3. /\ mb' = [d \in Buf |-> IF d \in Range(ListFrom(a)) \union Range(ListFrom(b))
                                THEN FreeBuf ELSE mb[d]]
        /\ mbuse' = mbuse - Len(ListFrom(a)) - Len(ListFrom(b))
        /\ con' = [con EXCEPT ![c].use = FALSE, ![c].fd = FALSE, ![c].ri = None, ![c].wi = None]
        /\ sent' = [sent EXCEPT ![c] = 0]
    <2>1. con[c].use
      BY DEF OwnIn
    <2> QED
      BY <2>1, Zenon DEF tcpstruct_close
  <1>4. SlotFreed(con', sent', c)
    BY <1>1, <1>3, SlotGivenBack
  <1>5. a \in H /\ b \in H /\ a # b
    BY <1>1 DEF TopsIn, TopsDiffer
  <1> HIDE DEF a, b, H
  <1>6. Ended(mb, mb', H, a, b)
    BY <1>2, <1>3, <1>5, ListsEnd
  <1>7. /\ mb' \in Mem /\ Pool(mb', H \ {a, b}) /\ NotOverfull(mb')
        /\ \A g \in H \ {a, b} : TextIn(mb', g) = TextIn(mb, g)
        /\ Cardinality(UsedIn(mb'))
           = Cardinality(UsedIn(mb)) - Len(ListIn(mb, a)) - Len(ListIn(mb, b))
    BY <1>2, <1>6 DEF Ended
  <1>8. Len(ListIn(mb, a)) \in Nat /\ Len(ListIn(mb, b)) \in Nat
    <2>1. IsChain(mb, a, ListIn(mb, a)) /\ IsChain(mb, b, ListIn(mb, b))
      BY <1>2, <1>5 DEF Pool, Lists, ListsIn
    <2> QED
      BY <2>1 DEF IsChain
  <1>9. mbuse' = Cardinality(UsedIn(mb')) - Lost(faults) /\ mbuse' \in Int
    <2> DEFINE u == Cardinality(UsedIn(mb))
               v == Cardinality(UsedIn(mb'))
               x == Lost(faults)
               p == Len(ListIn(mb, a))
               q == Len(ListIn(mb, b))
    <2>1. u \in Nat /\ x \in Int
      BY UsedFinite DEF Lost
    <2>2. mbuse' = mbuse - p - q
      BY <1>3, ListFromIs
    <2>3. mbuse = u - x /\ v = u - p - q /\ p \in Nat /\ q \in Nat
      BY <1>2, <1>7, <1>8
    <2> HIDE DEF u, v, x, p, q
    <2>4. mbuse' = v - x /\ mbuse' \in Int
      BY <2>1, <2>2, <2>3
    <2> QED
      BY <2>4 DEF v, x
  <1>10. PoolOK(mb', mbuse', con', faults)
    BY <1>4, <1>7, <1>9 DEF PoolOK, SlotFreed, H, a, b
  <1>11. ASSUME faults = {} PROVE TextsOK(mb', con', sent')
    <2> SUFFICES ASSUME NEW e \in OwnIn(con')
                 PROVE  TextIs(e, TextIn(mb', con'[e].ri), sent'[e])
      BY DEF TextsOK
    <2>1. e \in OwnIn(con) /\ e # c /\ con'[e] = con[e] /\ sent'[e] = sent[e]
      BY <1>4 DEF SlotFreed
    <2>2. con[e].ri \in H /\ con[e].ri # a /\ con[e].ri # b
      BY <1>1, <2>1 DEF TopsDiffer, TopsIn, H, a, b
    <2>3. TextIs(e, TextIn(mb, con[e].ri), sent[e])
      BY <1>1, <1>11, <2>1 DEF TextsOK
    <2> QED
      BY <1>7, <2>1, <2>2, <2>3
  <1>12. HeldIn(mb', mbuse', con', sent', faults)
    BY <1>4, <1>10, <1>11 DEF HeldIn, SlotFreed
  <1> QED
    BY <1>4, <1>7, <1>9, <1>12 DEF MemOK, SlotFreed

(* A step in which a connection with lists ends.                           *)
LEMMA EndedKeeps ==
    ASSUME Good, NEW c \in OwnIn(con), tcpstruct_close(c), pc.at = "line",
           UNCHANGED <<armed, faults>>, gs' \subseteq Con, Passed(c), LineWhole'
    PROVE  ConnectionsInv'
  <1>1. /\ TypeOK /\ Held /\ MemOK(mb) /\ mbuse \in Int /\ con \in [Con -> ConRec]
        /\ faults \subseteq Event /\ SentOK(sent) /\ pc \in PcRec /\ c \in Con
    BY TypeIs DEF Good, OwnIn
  <1>2. /\ MemOK(mb') /\ mbuse' \in Int /\ con' \in [Con -> ConRec] /\ SentOK(sent')
        /\ HeldIn(mb', mbuse', con', sent', faults)
    BY <1>1, HeldEnded
  <1>3. pc' \in PcRec /\ pc'.at = "line"
    BY <1>1, PassedIs DEF Passed
  <1>4. armed' = {}
    BY CalmIs
  <1>5. TypeOK'
    BY <1>1, <1>2, <1>3, <1>4, TypeIsThen
  <1>6. ArmedOK' /\ AnswerOK' /\ NeverUndefined'
    BY <1>3, <1>4 DEF ArmedOK, AnswerOK, NeverUndefined
  <1>7. Held'
    BY <1>2 DEF Held
  <1> QED
    BY <1>5, <1>6, <1>7 DEF ConnectionsInv

LEMMA LogoutKeeps == ASSUME Good, NEW c \in Con, Logout(c) PROVE ConnectionsInv'
  <1>1. /\ pc.at = "line" /\ Defined(c) /\ readline(c) = "line" /\ tcpstruct_close(c) /\ Passed(c)
        /\ gs' = gs \ {c} /\ got' = [con |-> c, line |-> SubSeq(Text(c), 1, LineLen(c))]
        /\ UNCHANGED <<armed, faults>>
    BY DEF Logout, AtLine, logout_game_server
  <1>2. TypeOK /\ Held /\ faults \subseteq Event /\ gs \subseteq Con
    BY TypeIs DEF Good
  <1>3. /\ c \in OwnIn(con) /\ SubSeq(Text(c), 1, LineLen(c)) \in Seq(Cell)
        /\ faults = {} => Whole(c, SubSeq(Text(c), 1, LineLen(c)))
    BY <1>1, <1>2, LineFound
  <1>4. LineWhole'
    BY <1>1, <1>2, <1>3, LineGot
  <1>5. gs' \subseteq Con
    BY <1>1, <1>2
  <1> QED
    BY <1>1, <1>3, <1>4, <1>5, EndedKeeps

LEMMA DispatchFailsKeeps == ASSUME Good, NEW c \in Con, DispatchFails(c) PROVE ConnectionsInv'
  <1>1. /\ pc.at = "line" /\ Defined(c) /\ readline(c) = "line" /\ tcpstruct_close(c) /\ Passed(c)
        /\ got' = [con |-> c, line |-> SubSeq(Text(c), 1, LineLen(c))]
        /\ UNCHANGED <<gs, armed, faults>>
    BY DEF DispatchFails, AtLine
  <1>2. TypeOK /\ Held /\ faults \subseteq Event /\ gs \subseteq Con
    BY TypeIs DEF Good
  <1>3. /\ c \in OwnIn(con) /\ SubSeq(Text(c), 1, LineLen(c)) \in Seq(Cell)
        /\ faults = {} => Whole(c, SubSeq(Text(c), 1, LineLen(c)))
    BY <1>1, <1>2, LineFound
  <1>4. LineWhole'
    BY <1>1, <1>2, <1>3, LineGot
  <1>5. gs' \subseteq Con
    BY <1>1, <1>2
  <1> QED
    BY <1>1, <1>3, <1>4, <1>5, EndedKeeps

LEMMA CloseKeeps == ASSUME Good, NEW c \in Con, Close(c) PROVE ConnectionsInv'
  <1>1. /\ pc.at = "line" /\ Defined(c) /\ c \in gs /\ readline(c) \in {"toolong", "invalid", "fin"}
        /\ tcpstruct_close(c) /\ Passed(c) /\ gs' = gs \ {c} /\ got' = NoLine
        /\ UNCHANGED <<armed, faults>>
    BY DEF Close, AtLine, logout_game_server
  <1>2. /\ TypeOK /\ LineWhole /\ Held /\ faults \subseteq Event /\ gs \subseteq Con
        /\ con \in [Con -> ConRec] /\ pc \in PcRec
    BY TypeIs DEF Good
  <1>3. gs' \subseteq Con
    BY <1>1, <1>2
  <1>4. CASE con[c].use
    <2>1. con[c].ri # EMBFULL /\ con[c].wi # EMBFULL
      BY <1>1, <1>4 DEF Defined
    <2>2. c \in OwnIn(con)
      BY <1>2, <1>4, <2>1, UsedOwn
    <2>3. LineWhole'
      BY <1>1, <1>2, LineStays
    <2> QED
      BY <1>1, <1>3, <2>2, <2>3, EndedKeeps
  <1>5. CASE ~con[c].use
    <2>1. UNCHANGED <<mb, mbuse, con, sent>>
      BY <1>1, <1>5 DEF tcpstruct_close, mem
    <2>2. pc' \in PcRec /\ pc'.at = "line"
      BY <1>1, <1>2, PassedIs DEF Passed
    <2>3. armed' = {}
      BY <1>1, CalmIs
    <2>4. ArmedOK' /\ AnswerOK' /\ armed' \subseteq Con
      BY <2>2, <2>3 DEF ArmedOK, AnswerOK
    <2>5. SameHeads(con, con')
      BY <2>1, HeadsSame
    <2>6. con' \in [Con -> ConRec]
      BY <1>2, <2>1
    <2> QED
      BY <1>1, <1>2, <1>3, <2>1, <2>2, <2>4, <2>5, <2>6, QuietStep
  <1> QED
    BY <1>4, <1>5

-----------------------------------------------------------------------------
(* The beginning, and every step                                           *)

LEMMA StartHolds == Init => ConnectionsInv
  <1> SUFFICES ASSUME Init PROVE ConnectionsInv
    OBVIOUS
  <1>1. /\ mb = [b \in Buf |-> FreeBuf] /\ mbuse = 0 /\ gs = {} /\ pc = [at |-> "select", i |-> 0]
        /\ con = [c \in Con |-> [use |-> FALSE, fd |-> FALSE, closed |-> FALSE,
                                 ri |-> None, wi |-> None]]
        /\ armed = {} /\ sent = [c \in Con |-> 0] /\ got = NoLine /\ faults = {}
    BY DEF Init
  <1>2. MemOK(mb)
    <2>1. FreeBuf \in BufRec /\ Len(FreeBuf.buf) = 0 /\ BufSize \in Nat
      BY DEF FreeBuf, BufRec
    <2> HIDE DEF FreeBuf
    <2>2. mb \in Mem
      BY <1>1, <2>1 DEF Mem
    <2>3. NotOverfull(mb)
      BY <1>1, <2>1 DEF NotOverfull
    <2> QED
      BY <2>2, <2>3 DEF MemOK
  <1>3. con \in [Con -> ConRec]
    BY <1>1 DEF ConRec
  <1>4. pc \in PcRec
    BY <1>1 DEF PcRec
  <1>5. SentOK(sent)
    <2>1. \A c \in Con : Inside[c] \in Nat
      BY InsideIs
    <2> QED
      BY <1>1, <2>1 DEF SentOK
  <1>6. TypeOK
    <2>1. mbuse \in Int /\ gs \subseteq Con /\ armed \subseteq Con /\ faults \subseteq Event
      BY <1>1
    <2> QED
      BY <1>2, <1>3, <1>4, <1>5, <2>1, TypeIs
  <1>7. OwnIn(con) = {} /\ TopsIn(con) = {}
    BY <1>1 DEF OwnIn, TopsIn
  <1>8. PoolOK(mb, mbuse, con, faults)
    <2>1. \A b \in Buf : ~mb[b].use /\ mb[b] = FreeBuf
      BY <1>1 DEF FreeBuf
    <2>2. UsedIn(mb) = {}
      BY <2>1 DEF UsedIn
    <2>3. Cardinality({}) = 0
      BY FS_EmptySet
    <2>4. Lists(mb, {}, ListsIn(mb, {}))
      BY <2>1 DEF Lists
    <2>5. mbuse = Cardinality(UsedIn(mb)) - Lost(faults)
      <3>1. Lost(faults) = 0 /\ mbuse = 0
        BY <1>1 DEF Lost
      <3> QED
        BY <2>2, <2>3, <3>1
    <2> QED
      BY <1>7, <2>4, <2>5 DEF PoolOK, Pool
  <1>9. SlotsOK(con, sent, faults)
    BY <1>1 DEF SlotsOK, SlotOK
  <1>10. TopsDiffer(con) /\ TextsOK(mb, con, sent)
    BY <1>7 DEF TopsDiffer, TextsOK
  <1>11. Held
    BY <1>8, <1>9, <1>10 DEF Held, HeldIn
  <1>12. ArmedOK /\ AnswerOK /\ NeverUndefined /\ LineWhole
    BY <1>1 DEF ArmedOK, AnswerOK, NeverUndefined, LineWhole
  <1> QED
    BY <1>6, <1>11, <1>12 DEF ConnectionsInv

(* An undefined state has no step.                                         *)
LEMMA SpoiltStops == ASSUME pc.at = "undefined" PROVE ~Next
  <1> SUFFICES ASSUME Next PROVE FALSE
    OBVIOUS
  <1>1. ~Select /\ ~EndReads /\ ~EndWrites /\ ~EndLines
    BY DEF Select, EndReads, EndWrites, EndLines
  <1>2. ~AcceptNothing /\ ~Accept /\ ~AcceptNoMemory /\ ~AcceptFails
    BY DEF AcceptNothing, Accept, AcceptNoMemory, AcceptFails
  <1>3. ~Answer /\ ~NoAnswer
    BY DEF Answer, NoAnswer
  <1>4. ASSUME NEW c \in Con PROVE ~(ReadSome(c) \/ ReadClosed(c) \/ WriteSome(c) \/ WriteFails(c))
    BY DEF ReadSome, ReadClosed, WriteSome, WriteFails
  <1>5. ASSUME NEW c \in Con PROVE ~Line(c)
    BY DEF Line, LineUndefined, LineNone, Serve, Logout, DispatchFails, Close, LineTaken, AtLine
  <1> QED
    BY <1>1, <1>2, <1>3, <1>4, <1>5 DEF Next

LEMMA InvIsGood ==
    ASSUME ConnectionsInv, pc.at # "undefined"
    PROVE  Good
  BY DEF ConnectionsInv, Spoilt, Good

(* ConnectionsInv is inductive.                                            *)
LEMMA NextKeeps == ASSUME ConnectionsInv, Next PROVE ConnectionsInv'
  <1>1. Good
    BY SpoiltStops, InvIsGood
  <1>2. ASSUME NEW c \in Con, ReadClosed(c) \/ WriteFails(c) PROVE ConnectionsInv'
    BY <1>1, <1>2, PeerGoneKeeps DEF ReadClosed, WriteFails
  <1>3. ASSUME NEW c \in Con, Line(c) PROVE ConnectionsInv'
    BY <1>1, <1>3, LineUndefinedKeeps, LineNoneKeeps, ServeKeeps, LogoutKeeps,
       DispatchFailsKeeps, CloseKeeps DEF Line
  <1> QED
    BY <1>1, <1>2, <1>3, SelectKeeps, ReadSomeKeeps, EndReadsKeeps, WriteSomeKeeps, EndWritesKeeps,
       AcceptNothingKeeps, AcceptKeeps, AcceptNoMemoryKeeps, AcceptFailsKeeps, AnswerKeeps,
       NoAnswerKeeps, EndLinesKeeps DEF Next

LEMMA StutterKeeps == ASSUME ConnectionsInv, UNCHANGED vars PROVE ConnectionsInv'
  <1>1. UNCHANGED <<mb, mbuse, con, gs, pc, armed, sent, got, faults>>
    BY DEF vars
  <1>2. TypeOK <=> TypeOK'
    BY <1>1, TypeIs, TypeIsThen
  <1>3. (NeverUndefined <=> NeverUndefined') /\ (LineWhole <=> LineWhole') /\ (Spoilt <=> Spoilt')
    BY <1>1 DEF NeverUndefined, LineWhole, Spoilt
  <1>4. (Held <=> Held') /\ (ArmedOK <=> ArmedOK') /\ (AnswerOK <=> AnswerOK')
    BY <1>1 DEF Held, ArmedOK, AnswerOK
  <1> QED
    BY <1>2, <1>3, <1>4 DEF ConnectionsInv

-----------------------------------------------------------------------------
(* What the lists say of the buffers in use                                *)

PlacesOn(H) == UNION {{h} \X DOMAIN ListFrom(h) : h \in H}
BufAt(p) == ListFrom(p[1])[p[2]]
EachOnce(P) == Cardinality(P) = Cardinality(UsedIn(mb)) /\ {BufAt(p) : p \in P} = UsedIn(mb)

(* Each buffer in use is at one place of one list.                         *)
LEMMA PlacesAre ==
    ASSUME mb \in Mem, NEW H \in SUBSET Buf, Pool(mb, H)
    PROVE  EachOnce(PlacesOn(H))
  <1> DEFINE P == PlacesOn(H)
             L == ListsIn(mb, H)
  <1>1. Lists(mb, H, L)
    BY DEF Pool
  <1>2. \A h \in H : ListFrom(h) = L[h]
    BY ListFromIs DEF ListsIn
  <1> HIDE DEF L
  <1>3. \A h \in H : IsChain(mb, h, L[h])
    BY <1>1 DEF Lists
  <1>4. \A h \in H : Len(L[h]) \in Nat /\ Len(L[h]) <= MbSize /\ DOMAIN ListFrom(h) = 1 .. Len(L[h])
    <2> SUFFICES ASSUME NEW h \in H
                 PROVE  Len(L[h]) \in Nat /\ Len(L[h]) <= MbSize
                        /\ DOMAIN ListFrom(h) = 1 .. Len(L[h])
      OBVIOUS
    <2>1. L[h] \in Seq(Buf) /\ \A i, j \in 1 .. Len(L[h]) : L[h][i] = L[h][j] => i = j
      BY <1>3 DEF IsChain
    <2>2. Len(L[h]) \in 0 .. MbSize
      BY <2>1, ChainIsShort
    <2> QED
      BY <1>2, <2>1, <2>2
  <1>5. \A p : p \in P <=> \E h \in H : \E k \in 1 .. Len(L[h]) : p = <<h, k>>
    <2>1. \A p : p \in P <=> \E h \in H : p \in {h} \X DOMAIN ListFrom(h)
      BY DEF PlacesOn
    <2>2. \A h \in H : \A p : p \in {h} \X (1 .. Len(L[h])) <=> \E k \in 1 .. Len(L[h]) : p = <<h, k>>
      OBVIOUS
    <2> QED
      BY <1>4, <2>1, <2>2
  <1> HIDE DEF P
  <1>6. IsFiniteSet(P)
    <2>1. IsFiniteSet(1 .. MbSize)
      BY CountTo
    <2>2. IsFiniteSet(Buf \X (1 .. MbSize))
      BY <2>1, BufFinite, FS_Product
    <2>3. P \in SUBSET (Buf \X (1 .. MbSize))
      <3> SUFFICES ASSUME NEW p \in P PROVE p \in Buf \X (1 .. MbSize)
        OBVIOUS
      <3>1. PICK h \in H : \E k \in 1 .. Len(L[h]) : p = <<h, k>>
        BY <1>5
      <3>2. PICK k \in 1 .. Len(L[h]) : p = <<h, k>>
        BY <3>1
      <3>3. k \in 1 .. MbSize /\ h \in Buf
        BY <1>4
      <3> QED
        BY <3>2, <3>3
    <2> QED
      BY <2>2, <2>3, FS_Subset
  <1>7. \A h \in H : \A k \in 1 .. Len(L[h]) : BufAt(<<h, k>>) = L[h][k]
    BY <1>2 DEF BufAt
  <1>8. \A p \in P : BufAt(p) \in UsedIn(mb)
    <2> SUFFICES ASSUME NEW p \in P PROVE BufAt(p) \in UsedIn(mb)
      OBVIOUS
    <2>1. PICK h \in H : \E k \in 1 .. Len(L[h]) : p = <<h, k>>
      BY <1>5
    <2>2. PICK k \in 1 .. Len(L[h]) : p = <<h, k>>
      BY <2>1
    <2>3. BufAt(p) = L[h][k]
      BY <1>7, <2>2
    <2>4. L[h][k] \in Buf
      BY <1>3 DEF IsChain
    <2> QED
      BY <1>1, <2>3, <2>4 DEF Lists, UsedIn
  <1>9. \A b \in UsedIn(mb) : \E p \in P : BufAt(p) = b
    <2> SUFFICES ASSUME NEW b \in UsedIn(mb) PROVE \E p \in P : BufAt(p) = b
      OBVIOUS
    <2>1. PICK h \in H : \E k \in 1 .. Len(L[h]) : L[h][k] = b
      BY <1>1 DEF Lists, UsedIn
    <2>2. PICK k \in 1 .. Len(L[h]) : L[h][k] = b
      BY <2>1
    <2>3. <<h, k>> \in P /\ BufAt(<<h, k>>) = b
      BY <1>5, <1>7, <2>2
    <2> QED
      BY <2>3
  <1>10. \A p, q \in P : BufAt(p) = BufAt(q) => p = q
    <2> SUFFICES ASSUME NEW p \in P, NEW q \in P, BufAt(p) = BufAt(q) PROVE p = q
      OBVIOUS
    <2>1. PICK h \in H : \E k \in 1 .. Len(L[h]) : p = <<h, k>>
      BY <1>5
    <2>2. PICK k \in 1 .. Len(L[h]) : p = <<h, k>>
      BY <2>1
    <2>3. PICK g \in H : \E j \in 1 .. Len(L[g]) : q = <<g, j>>
      BY <1>5
    <2>4. PICK j \in 1 .. Len(L[g]) : q = <<g, j>>
      BY <2>3
    <2>5. L[h][k] = L[g][j]
      BY <1>7, <2>2, <2>4
    <2>6. h = g
      BY <1>1, <2>5 DEF Lists
    <2>7. k = j
      BY <1>3, <2>5, <2>6 DEF IsChain
    <2> QED
      BY <2>2, <2>4, <2>6, <2>7
  <1>11. Cardinality(UsedIn(mb)) = Cardinality(P)
    <2> DEFINE f == [p \in P |-> BufAt(p)]
    <2>1. f \in [P -> UsedIn(mb)]
      BY <1>8
    <2>2. \A p \in P : f[p] = BufAt(p)
      OBVIOUS
    <2> HIDE DEF f
    <2>3. (\A p, q \in P : f[p] = f[q] => p = q) /\ \A b \in UsedIn(mb) : \E p \in P : f[p] = b
      BY <1>9, <1>10, <2>2
    <2> QED
      BY <1>6, <2>1, <2>3, SameSize
  <1>12. {BufAt(p) : p \in P} = UsedIn(mb)
    BY <1>8, <1>9
  <1> QED
    BY <1>11, <1>12 DEF EachOnce, P

(* No two lists start at one buffer.                                       *)
LEMMA TopsCount ==
    ASSUME TopsDiffer(con)
    PROVE  Cardinality(TopsIn(con)) = 2 * Cardinality(OwnIn(con))
  <1> DEFINE Own == OwnIn(con)
             R == {con[c].ri : c \in Own}
             W == {con[c].wi : c \in Own}
             f == [c \in Own |-> con[c].ri]
             g == [c \in Own |-> con[c].wi]
  <1>1. IsFiniteSet(Own)
    <2>1. IsFiniteSet(Con)
      BY CountTo DEF Con
    <2> QED
      BY <2>1, FS_Subset DEF OwnIn
  <1>2. f \in [Own -> R] /\ g \in [Own -> W]
    OBVIOUS
  <1>3. /\ \A c, d \in Own : f[c] = f[d] => c = d
        /\ \A c, d \in Own : g[c] = g[d] => c = d
    BY DEF TopsDiffer
  <1>4. (\A x \in R : \E c \in Own : f[c] = x) /\ (\A x \in W : \E c \in Own : g[c] = x)
    OBVIOUS
  <1>5. R \intersect W = {}
    BY DEF TopsDiffer
  <1>6. TopsIn(con) = R \union W
    BY DEF TopsIn
  <1> HIDE DEF R, W, f, g, Own
  <1>7. /\ IsFiniteSet(R) /\ Cardinality(R) = Cardinality(Own)
        /\ IsFiniteSet(W) /\ Cardinality(W) = Cardinality(Own)
    <2>1. IsFiniteSet(R) /\ Cardinality(R) = Cardinality(Own)
      <3>1. /\ f \in [Own -> R] /\ \A c, d \in Own : f[c] = f[d] => c = d
            /\ \A x \in R : \E c \in Own : f[c] = x
        BY <1>2, <1>3, <1>4
      <3> QED
        BY <1>1, <3>1, SameSize
    <2>2. IsFiniteSet(W) /\ Cardinality(W) = Cardinality(Own)
      <3>1. /\ g \in [Own -> W] /\ \A c, d \in Own : g[c] = g[d] => c = d
            /\ \A x \in W : \E c \in Own : g[c] = x
        BY <1>2, <1>3, <1>4
      <3> QED
        BY <1>1, <3>1, SameSize
    <2> QED
      BY <2>1, <2>2
  <1>8. Cardinality(R \union W) = Cardinality(R) + Cardinality(W) - Cardinality(R \intersect W)
    BY <1>7, FS_Union
  <1>9. Cardinality({}) = 0 /\ Cardinality(Own) \in Nat
    BY <1>1, FS_EmptySet, FS_CardinalityType
  <1>10. Cardinality(R \intersect W) = 0
    BY <1>5, <1>9
  <1>11. Cardinality(R \union W) = 2 * Cardinality(Own)
    BY <1>7, <1>8, <1>9, <1>10
  <1> QED
    BY <1>6, <1>11 DEF Own

(* PoolExact is what the invariant says of a pool that accept() has not    *)
(* spoilt.                                                                 *)
LEMMA PoolIs == ConnectionsInv => PoolExact
  <1> SUFFICES ASSUME ConnectionsInv, "accept" \notin faults
               PROVE  /\ mbuse = Cardinality(Used)
                      /\ Cardinality(Heads) = 2 * Cardinality(Live)
                      /\ Cardinality(Places) = Cardinality(Used)
                      /\ {ListFrom(p[1])[p[2]] : p \in Places} = Used
    BY DEF PoolExact
  <1>1. Held /\ MemOK(mb) /\ mbuse \in Int /\ con \in [Con -> ConRec]
    BY TypeIs DEF ConnectionsInv, Spoilt
  <1>2. PoolOK(mb, mbuse, con, faults) /\ SlotsOK(con, sent, faults) /\ TopsDiffer(con)
    BY <1>1 DEF Held, HeldIn
  <1>3. Live = OwnIn(con)
    <2>1. \A c \in Con : SlotOK(con[c], sent[c], faults)
      BY <1>2 DEF SlotsOK
    <2>2. \A c \in Con : con[c].use /\ con[c].fd <=> con[c].use /\ con[c].wi \in Buf
      <3> TAKE c \in Con
      <3>1. con[c].use \in BOOLEAN /\ con[c].fd \in BOOLEAN
        BY <1>1 DEF ConRec
      <3> QED
        BY <2>1, <3>1 DEF SlotOK
    <2> QED
      BY <2>2 DEF Live, OwnIn
  <1>4. Heads = TopsIn(con)
    BY <1>3 DEF Heads, TopsIn
  <1>5. Used = UsedIn(mb) /\ Places = PlacesOn(TopsIn(con))
    BY <1>4 DEF Used, UsedIn, Places, PlacesOn
  <1>6. TopsIn(con) \in SUBSET Buf
    BY <1>1, <1>2, TopsAre
  <1>7. EachOnce(PlacesOn(TopsIn(con)))
    BY <1>1, <1>2, <1>6, PlacesAre DEF MemOK, PoolOK
  <1>8. mbuse = Cardinality(Used)
    <2>1. mbuse = Cardinality(UsedIn(mb)) - 0 /\ Cardinality(UsedIn(mb)) \in Int
      BY <1>2, UsedFinite DEF PoolOK, Lost
    <2> QED
      BY <1>5, <2>1
  <1>9. Cardinality(Heads) = 2 * Cardinality(Live)
    BY <1>2, <1>3, <1>4, TopsCount
  <1>10. Cardinality(Places) = Cardinality(Used) /\ {ListFrom(p[1])[p[2]] : p \in Places} = Used
    BY <1>5, <1>7 DEF EachOnce, BufAt
  <1> QED
    BY <1>8, <1>9, <1>10

-----------------------------------------------------------------------------
(* The theorems                                                            *)

(* In every state the types are right, lines are whole, and either the     *)
(* lists that open connections start partition the buffers in use, which   *)
(* mbuse counts but for the one that a failed accept() gave away, and hold *)
(* what their peers sent in order, or a failed accept() has left the       *)
(* arrays.                                                                 *)
THEOREM ConnectionsInvAlways == Spec => []ConnectionsInv
  <1>1. Init => ConnectionsInv
    BY StartHolds
  <1>2. ConnectionsInv /\ [Next]_vars => ConnectionsInv'
    BY NextKeeps, StutterKeeps
  <1> QED
    BY <1>1, <1>2, PTL DEF Spec

(* Buffers, connections and the place in the turn always have their types. *)
THEOREM TypeOKAlways == Spec => []TypeOK
  <1>1. ConnectionsInv => TypeOK
    BY DEF ConnectionsInv
  <1> QED
    BY <1>1, ConnectionsInvAlways, PTL

(* Until accept() fails, mbuse counts the buffers in use and each of them  *)
(* is at one place of one list of an open connection: getFreeMem, on which *)
(* reading and appending rest, is exact.                                   *)
THEOREM PoolExactAlways == Spec => []PoolExact
  <1>1. ConnectionsInv => PoolExact
    BY PoolIs
  <1> QED
    BY <1>1, ConnectionsInvAlways, PTL

(* Only after accept() failed, or a connection got no buffer, does the     *)
(* account server leave its arrays or have lists that run together.        *)
THEOREM NeverUndefinedAlways == Spec => []NeverUndefined
  <1>1. ConnectionsInv => NeverUndefined
    BY DEF ConnectionsInv
  <1> QED
    BY <1>1, ConnectionsInvAlways, PTL

(* While nothing exceptional happened, a line that is taken is one line,   *)
(* whole, of the peer it is taken from.                                    *)
THEOREM LineWholeAlways == Spec => []LineWhole
  <1>1. ConnectionsInv => LineWhole
    BY DEF ConnectionsInv
  <1> QED
    BY <1>1, ConnectionsInvAlways, PTL

-----------------------------------------------------------------------------
(* The table of game servers                                               *)

HIDE Sizes
USE GameServersAssumption DEF GameServersAssumption

(* A slot not in use has no name, no two slots have one name, and a slot   *)
(* bears the name its process was let in under.                            *)
NamesInUse    == \A c \in Slot : slot[c].name # NoName => slot[c].use
NamesUnique   == \A c, d \in Slot : slot[c].name = slot[d].name /\ slot[c].name # NoName => c = d
PeerHasName   == \A c \in Slot : peer[c] # NoName => slot[c].name = peer[c]
PeerConnected == \A c \in Slot : peer[c] # NoName => link[c] \in {"open", "gone"}

(* Without an exceptional event no slot is left with another's name.       *)
NameHasPeer == odd = {} => \A c \in Slot : slot[c].name = peer[c]

SlotInv ==
    /\ SlotTypes
    /\ NamesInUse /\ NamesUnique
    /\ PeerHasName /\ PeerConnected /\ NameHasPeer
    /\ LocksHaveServer

-----------------------------------------------------------------------------
(* The turn is always that of the accept or of a slot.                     *)
LEMMA GoOnType == ASSUME NEW c \in Slot, GoOn(c)
                  PROVE  turn' \in 0 .. MaxSlot /\ turn' # c
  BY DEF GoOn, Slot

(* A name not taken by a slot in use is the name of no slot.               *)
LEMMA NotDuplicate == ASSUME NamesInUse, NEW n \in Name, ~Duplicate(n)
                      PROVE  \A d \in Slot : slot[d].name # {n}
  <1> SUFFICES ASSUME NEW d \in Slot, slot[d].name = {n} PROVE FALSE
    OBVIOUS
  <1>1. slot[d].use
    BY DEF NamesInUse, NoName
  <1> QED
    BY <1>1 DEF Duplicate

LEMMA SlotInitInv == SlotInit => SlotInv
  <1> SUFFICES ASSUME SlotInit PROVE SlotInv
    OBVIOUS
  <1> USE DEF SlotInit, Blank, NoName
  <1>2. SlotTypes
    BY DEF SlotTypes, Link, NameOrNone, Odd
  <1>3. NamesInUse /\ NamesUnique /\ PeerHasName /\ PeerConnected /\ NameHasPeer
    BY DEF NamesInUse, NamesUnique, PeerHasName, PeerConnected, NameHasPeer
  <1>4. LocksHaveServer
    BY DEF LocksHaveServer
  <1> QED
    BY <1>2, <1>3, <1>4 DEF SlotInv
(***************************************************************************)
(* One step                                                                *)
(***************************************************************************)
(* What the accept of a turn does.                                         *)
LEMMA ConnectKeeps ==
  ASSUME SlotInv, NEW c \in Slot, Connect(c) \/ ConnectFails(c)
  PROVE  SlotInv'
  <1> USE DEF Connect, ConnectFails, FirstFreeSlot, SlotInv
  <1>1. peer[c] = NoName /\ (odd = {} => slot[c].name = NoName)
    BY DEF PeerConnected, NameHasPeer
  <1>2. \A d \in Slot : slot'[d].name = slot[d].name /\ peer'[d] = peer[d]
    BY <1>1 DEF SlotTypes
  <1>3. SlotTypes'
    <2>1. NoName \in NameOrNone /\ slot[c].name \in NameOrNone
      BY DEF SlotTypes, NameOrNone
    <2>2. [use |-> TRUE, name |-> slot[c].name] \in [use : BOOLEAN, name : NameOrNone]
      BY <2>1
    <2>3. turn' \in 0 .. MaxSlot /\ link' \in [Slot -> Link]
      BY DEF SlotTypes, Link, Slot
    <2>4. slot' \in [Slot -> [use : BOOLEAN, name : NameOrNone]]
      BY <2>2 DEF SlotTypes
    <2> QED
      BY <2>1, <2>3, <2>4 DEF SlotTypes
  <1>4. NamesInUse' /\ NamesUnique'
    <2>1. \A d \in Slot : slot[d].use => slot'[d].use
      BY DEF SlotTypes
    <2>2. NamesInUse'
      BY <1>2, <2>1 DEF NamesInUse
    <2> QED
      BY <1>2, <2>2 DEF NamesUnique
  <1>5. PeerHasName' /\ NameHasPeer'
    BY <1>2 DEF PeerHasName, NameHasPeer
  <1>6. PeerConnected'
    BY <1>1, <1>2 DEF PeerConnected, SlotTypes
  <1>7. LocksHaveServer'
    BY <1>2 DEF LocksHaveServer
  <1> QED
    BY <1>3, <1>4, <1>5, <1>6, <1>7

(* A server is let in.                                                     *)
LEMMA LoginKeeps ==
  ASSUME SlotInv, NEW c \in Slot, NEW n \in Name, LoginServer(c, n)
  PROVE  SlotInv'
  <1> USE DEF LoginServer, HasLine, SlotInv
  <1>1. \A d \in Slot : slot[d].name # {n}
    BY NotDuplicate
  <1>2. /\ slot'[c] = [use |-> TRUE, name |-> {n}] /\ peer'[c] = {n}
        /\ \A d \in Slot \ {c} : slot'[d] = slot[d] /\ peer'[d] = peer[d]
    BY DEF SlotTypes
  <1>3. SlotTypes'
    <2>1. {n} \in NameOrNone
      BY DEF NameOrNone
    <2>2. [use |-> slot[c].use, name |-> {n}] \in [use : BOOLEAN, name : NameOrNone]
      BY <2>1 DEF SlotTypes
    <2>3. slot' \in [Slot -> [use : BOOLEAN, name : NameOrNone]] /\ peer' \in [Slot -> NameOrNone]
      BY <2>1, <2>2 DEF SlotTypes
    <2> QED
      BY <2>3, GoOnType DEF SlotTypes
  <1>4. NamesInUse' /\ NamesUnique'
    BY <1>1, <1>2 DEF NamesInUse, NamesUnique
  <1>5. PeerHasName' /\ NameHasPeer'
    <2>1. \A d \in Slot : slot[d].name = peer[d] => slot'[d].name = peer'[d]
      BY <1>2
    <2>2. slot'[c].name = peer'[c]
      BY <1>2
    <2> QED
      BY <1>2, <2>1, <2>2 DEF PeerHasName, NameHasPeer
  <1>6. PeerConnected'
    BY <1>2 DEF PeerConnected
  <1>7. LocksHaveServer'
    <2> SUFFICES ASSUME odd = {}, NEW m \in locks \ {n} PROVE \E d \in Slot : peer'[d] = {m}
      BY DEF LocksHaveServer
    <2>1. PICK d \in Slot : peer[d] = {m}
      BY DEF LocksHaveServer
    <2>2. d # c
      BY <2>1 DEF NoName
    <2> QED
      BY <1>2, <2>1, <2>2
  <1> QED
    BY <1>3, <1>4, <1>5, <1>6, <1>7

(* Accounts are locked and unlocked.                                       *)
LEMMA LocksKeep ==
  ASSUME SlotInv, NEW c \in Slot, LoadGranted(c) \/ LastUnlocked(c)
  PROVE  SlotInv'
  <1> USE DEF LoadGranted, LastUnlocked, HasLine, SlotInv
  <1>1. SlotTypes'
    <2>1. slot[c].name \subseteq Name
      BY DEF SlotTypes, NameOrNone, NoName
    <2> QED
      BY <2>1, GoOnType DEF SlotTypes
  <1>2. LocksHaveServer'
    <2> SUFFICES ASSUME odd = {}, NEW m \in locks' PROVE \E d \in Slot : peer[d] = {m}
      BY DEF LocksHaveServer
    <2>1. CASE m \in locks
      BY <2>1 DEF LocksHaveServer
    <2>2. CASE m \in slot[c].name
      <3>1. slot[c].name = {m}
        BY <2>2 DEF SlotTypes, NameOrNone, NoName
      <3> QED
        BY <3>1 DEF NameHasPeer
    <2> QED
      BY <2>1, <2>2
  <1>3. (NamesInUse /\ NamesUnique /\ PeerHasName /\ PeerConnected /\ NameHasPeer)'
    BY DEF NamesInUse, NamesUnique, PeerHasName, PeerConnected, NameHasPeer
  <1> QED
    BY <1>1, <1>2, <1>3

(* A slot is given up, with its locks at the end of the stream.            *)
LEMMA LogoutServerKeeps ==
  ASSUME SlotInv, NEW c \in Slot, TooLong(c) \/ EndOfStream(c)
  PROVE  SlotInv'
  <1> USE DEF TooLong, EndOfStream, LogoutSlot, SlotInv
  <1>1. /\ slot'[c] = Blank /\ peer'[c] = NoName
        /\ \A d \in Slot \ {c} : slot'[d] = slot[d] /\ peer'[d] = peer[d] /\ link'[d] = link[d]
    BY DEF SlotTypes
  <1>2. SlotTypes'
    <2>1. NoName \in NameOrNone /\ "free" \in Link
      BY DEF NameOrNone, Link
    <2>2. Blank \in [use : BOOLEAN, name : NameOrNone]
      BY <2>1 DEF Blank
    <2>3. slot' \in [Slot -> [use : BOOLEAN, name : NameOrNone]] /\ peer' \in [Slot -> NameOrNone]
      BY <2>1, <2>2 DEF SlotTypes
    <2>4. link' \in [Slot -> Link]
      BY <2>1 DEF SlotTypes
    <2>5. odd' \subseteq Odd /\ locks' \subseteq Name
      BY DEF SlotTypes, Odd
    <2> QED
      BY <2>3, <2>4, <2>5, GoOnType DEF SlotTypes
  <1>3. NamesInUse' /\ NamesUnique'
    BY <1>1 DEF NamesInUse, NamesUnique, Blank
  <1>4. PeerHasName' /\ PeerConnected'
    BY <1>1 DEF PeerHasName, PeerConnected
  <1>5. NameHasPeer'
    BY <1>1 DEF NameHasPeer, Blank
  <1>6. LocksHaveServer'
    <2>1. CASE TooLong(c)
      BY <2>1 DEF LocksHaveServer
    <2>2. CASE EndOfStream(c)
      <3> SUFFICES ASSUME odd = {}, NEW m \in locks, m \notin slot[c].name
                   PROVE \E d \in Slot : peer'[d] = {m}
        BY <2>2 DEF LocksHaveServer
      <3>1. PICK d \in Slot : peer[d] = {m}
        BY DEF LocksHaveServer
      <3>2. slot[d].name = {m}
        BY <3>1 DEF PeerHasName, NoName
      <3>3. d # c
        BY <3>2
      <3> QED
        BY <1>1, <3>1, <3>3
    <2> QED
      BY <2>1, <2>2
  <1> QED
    BY <1>2, <1>3, <1>4, <1>5, <1>6

(* A connection is closed under its entry.                                 *)
LEMMA UndispatchedKeeps ==
  ASSUME SlotInv, NEW c \in Slot, Undispatched(c)
  PROVE  SlotInv'
  <1> USE DEF Undispatched, SlotInv
  <1>1. peer'[c] = NoName /\ \A d \in Slot \ {c} : peer'[d] = peer[d] /\ link'[d] = link[d]
    BY DEF SlotTypes
  <1>2. odd' # {}
    OBVIOUS
  <1>3. SlotTypes'
    BY GoOnType DEF SlotTypes, Link, NameOrNone, Odd
  <1>4. (NamesInUse /\ NamesUnique /\ PeerHasName /\ PeerConnected)'
    BY <1>1 DEF NamesInUse, NamesUnique, PeerHasName, PeerConnected
  <1>5. NameHasPeer' /\ LocksHaveServer'
    BY <1>2 DEF NameHasPeer, LocksHaveServer
  <1> QED
    BY <1>3, <1>4, <1>5

(* Nothing but the turn changes, or a peer stops.                          *)
LEMMA TurnKeeps ==
  ASSUME SlotInv, turn' \in 0 .. MaxSlot, UNCHANGED <<slot, peer, locks, odd>>,
         UNCHANGED link \/ \E c \in Slot : PeerStops(c)
  PROVE  SlotInv'
  <1> USE DEF SlotInv, PeerStops
  <1>1. SlotTypes'
    BY DEF SlotTypes, Link
  <1>2. PeerConnected'
    BY DEF PeerConnected, SlotTypes
  <1>3. (NamesInUse /\ NamesUnique /\ PeerHasName /\ NameHasPeer /\ LocksHaveServer)'
    BY DEF NamesInUse, NamesUnique, PeerHasName, NameHasPeer, LocksHaveServer
  <1> QED
    BY <1>1, <1>2, <1>3

LEMMA SlotStepInv == SlotInv /\ [SlotNext]_slotVars => SlotInv'
  <1> SUFFICES ASSUME SlotInv, [SlotNext]_slotVars PROVE SlotInv'
    OBVIOUS
  <1>1. CASE UNCHANGED slotVars
    BY <1>1, TurnKeeps DEF slotVars, SlotInv, SlotTypes
  <1>2. CASE NobodyConnects
    BY <1>2, TurnKeeps DEF NobodyConnects
  <1> SUFFICES ASSUME NEW c \in Slot,
                      \/ Connect(c) \/ ConnectFails(c) \/ PeerStops(c)
                      \/ NoLineAt(c) \/ LoadGranted(c) \/ LastUnlocked(c)
                      \/ Undispatched(c) \/ TooLong(c) \/ EndOfStream(c)
                      \/ \E n \in Name : LoginServer(c, n) \/ LoginRefused(c, n)
               PROVE  SlotInv'
    BY <1>1, <1>2 DEF SlotNext
  <1>3. CASE Connect(c) \/ ConnectFails(c)
    BY <1>3, ConnectKeeps
  <1>4. CASE PeerStops(c)
    BY <1>4, TurnKeeps DEF PeerStops, SlotInv, SlotTypes
  <1>5. CASE NoLineAt(c)
    BY <1>5, TurnKeeps, GoOnType DEF NoLineAt
  <1>6. CASE LoadGranted(c) \/ LastUnlocked(c)
    BY <1>6, LocksKeep
  <1>7. CASE Undispatched(c)
    BY <1>7, UndispatchedKeeps
  <1>8. CASE TooLong(c) \/ EndOfStream(c)
    BY <1>8, LogoutServerKeeps
  <1>9. CASE \E n \in Name : LoginServer(c, n)
    BY <1>9, LoginKeeps
  <1>10. CASE \E n \in Name : LoginRefused(c, n)
    BY <1>10, TurnKeeps, GoOnType DEF LoginRefused
  <1> QED
    BY <1>3, <1>4, <1>5, <1>6, <1>7, <1>8, <1>9, <1>10

(* Names in the table and processes let in under them belong together.     *)
THEOREM SlotInvAlways == SlotSpec => []SlotInv
  BY SlotInitInv, SlotStepInv, PTL DEF SlotSpec

(* The table keeps its types.                                              *)
THEOREM SlotTypesAlways == SlotSpec => []SlotTypes
  <1>1. SlotInv => SlotTypes
    BY DEF SlotInv
  <1> QED
    BY <1>1, SlotInvAlways, PTL

(* No two connections are let in under one name, and each slot bears the   *)
(* name its process was let in under: login_game_server looks at slots in  *)
(* use, and that is enough because a name never outlives the use.          *)
THEOREM OneServerPerNameAlways == SlotSpec => []OneServerPerName
  <1>1. SlotInv => OneServerPerName
    <2> SUFFICES ASSUME SlotInv PROVE OneServerPerName
      OBVIOUS
    <2>1. ASSUME NEW c \in Slot, peer[c] # NoName
          PROVE  slot[c] = [use |-> TRUE, name |-> peer[c]]
      <3>1. slot[c].name = peer[c] /\ slot[c].use
        BY <2>1 DEF SlotInv, PeerHasName, NamesInUse
      <3>2. slot[c] \in [use : BOOLEAN, name : NameOrNone]
        BY DEF SlotInv, SlotTypes
      <3> QED
        BY <3>1, <3>2
    <2>2. ASSUME NEW c \in Slot, NEW d \in Slot, peer[c] = peer[d], peer[c] # NoName
          PROVE  c = d
      BY <2>2 DEF SlotInv, PeerHasName, NamesUnique
    <2> QED
      BY <2>1, <2>2 DEF OneServerPerName
  <1> QED
    BY <1>1, SlotInvAlways, PTL

(* While no line was too long or impossible, every account lock has the    *)
(* server that will release it.                                            *)
THEOREM LocksHaveServerAlways == SlotSpec => []LocksHaveServer
  <1>1. SlotInv => LocksHaveServer
    BY DEF SlotInv
  <1> QED
    BY <1>1, SlotInvAlways, PTL

(* Only its own lines release the locks of a server that stays in.         *)
THEOREM ReleasedByOwnerAlways == SlotSpec => ReleasedByOwner
  <1> DEFINE Own == \A c \in Slot : \A n \in locks \ locks' :
                      (peer[c] = {n} /\ peer'[c] = {n}) => (turn = c /\ turn' # c)
  <1>1. SlotInv /\ [SlotNext]_slotVars => [Own]_slotVars
    <2> SUFFICES ASSUME SlotInv, SlotNext, NEW c \in Slot, NEW n \in locks \ locks',
                        peer[c] = {n}, peer'[c] = {n}
                 PROVE  turn = c /\ turn' # c
      OBVIOUS
    <2>1. slot[c].name = {n} /\ slot[c].use /\ n \in Name
      BY DEF SlotInv, PeerHasName, NamesInUse, NoName, SlotTypes
    <2>2. ASSUME NEW d \in Slot, n \in slot[d].name PROVE d = c
      <3>1. slot[d].name = {n}
        BY <2>2 DEF SlotInv, SlotTypes, NameOrNone, NoName
      <3> QED
        BY <2>1, <3>1 DEF SlotInv, NamesUnique, NoName
    <2>3. PICK d \in Slot : \/ \E m \in Name : LoginServer(d, m)
                           \/ LastUnlocked(d) \/ EndOfStream(d)
      BY DEF SlotNext, NobodyConnects, Connect, ConnectFails, PeerStops, NoLineAt,
             LoadGranted, Undispatched, TooLong, LoginRefused
    <2>4. ASSUME NEW m \in Name, LoginServer(d, m) PROVE FALSE
      <3>1. m = n
        BY <2>4 DEF LoginServer
      <3> QED
        BY <2>1, <2>4, <3>1 DEF LoginServer, Duplicate
    <2>5. CASE LastUnlocked(d)
      <3>1. d = c
        BY <2>2, <2>5 DEF LastUnlocked
      <3> QED
        BY <2>5, <3>1, GoOnType DEF LastUnlocked, HasLine
    <2>6. CASE EndOfStream(d)
      <3>1. d = c
        BY <2>2, <2>6 DEF EndOfStream
      <3>2. peer'[c] = NoName
        BY <2>6, <3>1 DEF EndOfStream, LogoutSlot, SlotInv, SlotTypes
      <3> QED
        BY <3>2 DEF NoName
    <2> QED
      BY <2>3, <2>4, <2>5, <2>6
  <1> QED
    BY <1>1, SlotInvAlways, PTL DEF SlotSpec, ReleasedByOwner
=============================================================================
