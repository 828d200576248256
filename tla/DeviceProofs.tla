------------------------------ MODULE DeviceProofs ------------------------------
(***************************************************************************)
(* Proofs about the server on the device (MCDevice), for any number of     *)
(* fingers and pointers, display properties, changes, resizes, resets,     *)
(* failures of the encoder, settings and messages: its types; the pointers *)
(* that it remembers and the gestures that the application receives; the   *)
(* sessions that are announced to the client.                              *)
(*                                                                         *)
(* Each part has its own inductive invariant (TouchInv, CaptureInv,        *)
(* CleanUpInv), kept by the steps of the part; the last theorems combine   *)
(* them.                                                                   *)
(***************************************************************************)
EXTENDS MCDevice, SequenceTheorems, FiniteSetTheorems, WellFoundedInduction, TLAPS

--------------------------------------------------------------------------------
(* Touch: the pointers, and what the application believes                  *)

Slot == 0..MaxPointers - 1
Point == [id : Pointer, local : Slot, up : BOOLEAN]

(* No two pointers of a list share an id, theirs or the local one.         *)
Distinct(list) ==
    \A i, j \in 1..Len(list) :
        i # j => list[i].id # list[j].id /\ list[i].local # list[j].local

TouchTypes ==
    /\ held \subseteq Finger /\ buttons \subseteq MouseButton
    /\ pointers \in Seq(Point) /\ Len(pointers) <= MaxPointers
    /\ \A i \in 1..Len(pointers) : ~pointers[i].up
    /\ tools \in [1..MaxPointers -> {"finger", "mouse"}]
    /\ last \in [Pointer -> {"up", "down"}]
    /\ excused \in BOOLEAN

PointersInv ==
    /\ Distinct(pointers)
    /\ \A id \in Pointer : last[id] = "down" <=> \E i \in 1..Len(pointers) : pointers[i].id = id

AppState == [touch : SUBSET Slot, mouse : SUBSET MouseButton, down : BOOLEAN, legal : BOOLEAN]

(* What the application believes: that there are fingers, or a mouse.      *)
FingersShown ==
    /\ app \in AppState /\ app.legal /\ ~app.down
    /\ app.touch = LocalIds(pointers) /\ app.mouse = {}
    /\ \A i \in 1..Len(pointers) : tools[i] = "finger"
MouseShown ==
    /\ app \in AppState /\ app.legal /\ app.down
    /\ app.touch = {} /\ app.mouse = buttons
    /\ Len(pointers) = 1 /\ pointers[1].id = Mouse

(* As long as nothing was lost or mixed, what is down on the device is what*)
(* is down on the client, and a mouse that shows no button but its primary *)
(* one is a finger.                                                        *)
GestureInv ==
    ~excused =>
      /\ \A f \in Finger : f \in held <=> last[f] = "down"
      /\ buttons # {} <=> last[Mouse] = "down"
      /\ MouseShown \/ (FingersShown /\ "secondary" \notin buttons)

TouchInv == TouchTypes /\ PointersInv /\ GestureInv
(* The least element of a set of numbers.                                  *)
LEMMA Least ==
    ASSUME NEW T \in SUBSET Nat, T # {}
    PROVE  \E m \in T : \A n \in T : m <= n
<1>1. \E m \in T : \A n \in T : ~(<<n, m>> \in OpToRel(<, Nat))
  BY NatLessThanWellFounded, WFMin
<1>2. PICK m \in T : \A n \in T : ~(<<n, m>> \in OpToRel(<, Nat))
  BY <1>1
<1>3. ASSUME NEW n \in T PROVE m <= n
  <2>1. ~(n < m)
    BY <1>2 DEF OpToRel
  <2> QED BY <2>1
<1> QED BY <1>3

(* Induction, for a set in place of a predicate.                           *)
LEMMA Induction ==
    ASSUME NEW T, 0 \in T, \A n \in Nat : n \in T => n + 1 \in T
    PROVE  Nat \subseteq T
<1> SUFFICES ASSUME Nat \ T # {} PROVE FALSE
  OBVIOUS
<1>1. PICK m \in Nat \ T : \A n \in Nat \ T : m <= n
  BY Least
<1>2. m # 0 /\ m - 1 \in Nat
  BY <1>1
<1>3. m - 1 \in T
  BY <1>1, <1>2
<1>4. (m - 1) + 1 \in T
  BY <1>2, <1>3
<1> QED BY <1>1, <1>4

--------------------------------------------------------------------------------
(* Lists of pointers                                                       *)

LEMMA RemoveAtIs ==
    ASSUME NEW S, NEW s \in Seq(S), NEW i \in 1..Len(s)
    PROVE  /\ RemoveAt(s, i) \in Seq(S)
           /\ Len(RemoveAt(s, i)) = Len(s) - 1
           /\ \A j \in 1..(Len(s) - 1) : RemoveAt(s, i)[j] = IF j < i THEN s[j] ELSE s[j + 1]
<1> DEFINE a == SubSeq(s, 1, i - 1)
           b == SubSeq(s, i + 1, Len(s))
<1>0. Len(s) \in Nat /\ i \in Nat
  BY LenProperties
<1>1. /\ a \in Seq(S) /\ Len(a) = i - 1
      /\ \A j \in 1..(i - 1) : a[j] = s[j]
  BY <1>0, SubSeqProperties
<1>2. /\ b \in Seq(S) /\ Len(b) = Len(s) - i
      /\ \A j \in 1..(Len(s) - i) : b[j] = s[i + j]
  <2>1. CASE i = Len(s)
    BY <1>0, <2>1, SubSeqProperties
  <2>2. CASE i # Len(s)
    <3>1. i + 1 \in 1..Len(s) + 1 /\ Len(s) \in i..Len(s)
      BY <1>0, <2>2
    <3> QED BY <1>0, <2>2, <3>1, SubSeqProperties
  <2> QED BY <2>1, <2>2
<1>3. /\ a \o b \in Seq(S) /\ Len(a \o b) = Len(s) - 1
      /\ \A j \in 1..(Len(s) - 1) : (a \o b)[j] = IF j < i THEN s[j] ELSE s[j + 1]
  <2> HIDE DEF a, b
  <2>1. a \o b \in Seq(S) /\ Len(a \o b) = Len(s) - 1
    <3>1. a \o b \in Seq(S) /\ Len(a \o b) = Len(a) + Len(b)
      BY <1>1, <1>2, ConcatProperties
    <3>2. Len(a) + Len(b) = Len(s) - 1
      BY <1>0, <1>1, <1>2
    <3> QED BY <3>1, <3>2
  <2>2. ASSUME NEW j \in 1..(Len(s) - 1) PROVE (a \o b)[j] = IF j < i THEN s[j] ELSE s[j + 1]
    <3>1. CASE j < i
      <4>1. (a \o b)[j] = a[j] /\ j \in 1..(i - 1)
        BY <1>0, <1>1, <1>2, <3>1, ConcatProperties
      <4> QED BY <1>1, <3>1, <4>1
    <3>2. CASE ~(j < i)
      <4>1. (a \o b)[j] = b[j - (i - 1)] /\ j - (i - 1) \in 1..(Len(s) - i)
        BY <1>0, <1>1, <1>2, <3>2, ConcatProperties
      <4>2. i + (j - (i - 1)) = j + 1
        BY <1>0, <2>2
      <4>3. b[j - (i - 1)] = s[i + (j - (i - 1))]
        BY <1>2, <4>1
      <4> QED BY <3>2, <4>1, <4>2, <4>3
    <3> QED BY <3>1, <3>2
  <2> QED BY <2>1, <2>2
<1> QED BY <1>3 DEF RemoveAt

(* cleanUp() removes the pointer that is up, if only one can be.           *)
Left(f, list) ==
    f = [n \in 0..Len(list) |->
            IF n = 0 THEN list
            ELSE IF f[n - 1][Len(list) - n + 1].up THEN RemoveAt(f[n - 1], Len(list) - n + 1)
                 ELSE f[n - 1]]

LEMMA CleanUpIs ==
    ASSUME NEW list \in Seq(Point), NEW k \in 1..Len(list),
           \A i \in 1..Len(list) : i # k => ~list[i].up
    PROVE  CleanUpPointers(list) = IF list[k].up THEN RemoveAt(list, k) ELSE list
<1> DEFINE L == Len(list)
           v(n) == IF n >= L - k + 1 /\ list[k].up THEN RemoveAt(list, k) ELSE list
           w == [n \in 0..L |-> v(n)]
           step(x, n) == IF x[L - n + 1].up THEN RemoveAt(x, L - n + 1) ELSE x
<1>0. L \in Nat /\ k \in 1..L
  BY LenProperties
<1>1. ASSUME NEW n \in 1..L PROVE step(v(n - 1), n) = v(n)
  <2>1. L - n + 1 \in 1..L /\ n \in Nat
    BY <1>0
  <2>2. CASE n < L - k + 1
    <3>1. v(n - 1) = list /\ v(n) = list
      BY <1>0, <2>1, <2>2
    <3>2. L - n + 1 # k
      BY <1>0, <2>1, <2>2
    <3>3. ~list[L - n + 1].up
      BY <2>1, <3>2
    <3> QED BY <3>1, <3>3
  <2>3. CASE n = L - k + 1
    <3>1. v(n - 1) = list /\ L - n + 1 = k
      BY <1>0, <2>1, <2>3
    <3>2. v(n) = IF list[k].up THEN RemoveAt(list, k) ELSE list
      BY <1>0, <2>1, <2>3
    <3> HIDE DEF v
    <3> QED BY <3>1, <3>2
  <2>4. CASE n > L - k + 1
    <3> DEFINE j == L - n + 1
    <3>1. v(n - 1) = v(n) /\ j \in 1..(L - 1) /\ j < k
      BY <1>0, <2>1, <2>4
    <3>2. ~list[j].up
      BY <1>0, <3>1
    <3>3. RemoveAt(list, k)[j] = list[j]
      BY <1>0, <3>1, RemoveAtIs
    <3>4. ~v(n)[j].up
      BY <3>2, <3>3
    <3> HIDE DEF v, j
    <3>5. step(v(n), n) = v(n)
      BY <3>4 DEF j
    <3> QED BY <3>1, <3>5
  <2> QED BY <1>0, <2>1, <2>2, <2>3, <2>4
<1>2. v(0) = list
  BY <1>0
<1> HIDE DEF v
<1>3. Left(w, list)
  <2>1. ASSUME NEW n \in 0..L
        PROVE  w[n] = IF n = 0 THEN list
                      ELSE IF w[n - 1][L - n + 1].up THEN RemoveAt(w[n - 1], L - n + 1)
                           ELSE w[n - 1]
    <3>1. CASE n = 0
      BY <1>2, <3>1
    <3>2. CASE n # 0
      <4>1. n \in 1..L /\ n - 1 \in 0..L
        BY <1>0, <3>2
      <4>2. w[n] = v(n) /\ w[n - 1] = v(n - 1)
        BY <4>1
      <4> QED BY <1>1, <3>2, <4>1, <4>2
    <3> QED BY <3>1, <3>2
  <2> QED BY <2>1 DEF Left
<1>4. PICK f : Left(f, list) /\ CleanUpPointers(list) = f[L]
  BY <1>3 DEF Left, CleanUpPointers
<1> DEFINE T == {n \in Nat : n \in 0..L => f[n] = v(n)}
<1>5. 0 \in T
  BY <1>0, <1>2, <1>4 DEF Left
<1>6. ASSUME NEW n \in Nat, n \in T PROVE n + 1 \in T
  <2> SUFFICES ASSUME n + 1 \in 0..L PROVE f[n + 1] = v(n + 1)
    OBVIOUS
  <2>1. n \in 0..L /\ n + 1 # 0 /\ n + 1 \in 1..L /\ (n + 1) - 1 = n
    BY <1>0
  <2>2. f[n + 1] = step(f[n], n + 1)
    BY <1>4, <2>1 DEF Left
  <2>3. f[n] = v(n)
    BY <1>6, <2>1
  <2>4. step(v(n), n + 1) = v(n + 1)
    BY <1>1, <2>1
  <2> QED BY <2>2, <2>3, <2>4
<1>7. L \in T
  <2> HIDE DEF T
  <2> QED BY <1>0, <1>5, <1>6, Induction
<1>8. f[L] = v(L)
  BY <1>0, <1>7
<1>9. v(L) = IF list[k].up THEN RemoveAt(list, k) ELSE list
  BY <1>0 DEF v
<1> QED BY <1>4, <1>8, <1>9

(* Pointers with different local ids have as many of them.                 *)
LEMMA LocalsCount ==
    ASSUME NEW list \in Seq(Point), Distinct(list)
    PROVE  IsFiniteSet(LocalIds(list)) /\ Cardinality(LocalIds(list)) = Len(list)
<1>0. Len(list) \in Nat /\ DOMAIN list = 1..Len(list)
  BY LenProperties
<1> DEFINE f == [i \in 1..Len(list) |-> list[i].local]
<1>1. f \in [1..Len(list) -> LocalIds(list)]
  BY <1>0 DEF LocalIds
<1>2. ASSUME NEW i \in 1..Len(list), NEW j \in 1..Len(list), f[i] = f[j] PROVE i = j
  BY <1>2 DEF Distinct
<1>3. ASSUME NEW l \in LocalIds(list) PROVE \E i \in 1..Len(list) : f[i] = l
  BY <1>0 DEF LocalIds
<1>4. f \in Bijection(1..Len(list), LocalIds(list))
  <2>1. f \in Injection(1..Len(list), LocalIds(list))
    BY <1>1, <1>2 DEF Injection, IsInjective
  <2>2. f \in Surjection(1..Len(list), LocalIds(list))
    BY <1>1, <1>3 DEF Surjection
  <2> QED BY <2>1, <2>2 DEF Bijection
<1>5. ExistsBijection(1..Len(list), LocalIds(list))
  BY <1>4 DEF ExistsBijection
<1> QED BY <1>0, <1>5, FS_CountingElements, FS_NatBijection

LEMMA SlotsCount == IsFiniteSet(Slot) /\ Cardinality(Slot) = MaxPointers
<1>1. MaxPointers \in Nat \ {0}
  BY TouchOK
<1>2. IsFiniteSet(0..MaxPointers - 1) /\ Cardinality(0..MaxPointers - 1) = MaxPointers
  <2>1. 0 \in Int /\ MaxPointers - 1 \in Int /\ ~(0 > MaxPointers - 1)
    BY <1>1
  <2> QED BY <1>1, <2>1, FS_Interval
<1> QED BY <1>2 DEF Slot

LEMMA LocalsAreSlots ==
    ASSUME NEW list \in Seq(Point)
    PROVE  LocalIds(list) \subseteq Slot
<1>1. ASSUME NEW i \in DOMAIN list PROVE list[i].local \in Slot
  <2>1. i \in 1..Len(list)
    BY LenProperties
  <2>2. list[i] \in Point
    BY <2>1, ElementOfSeq
  <2> QED BY <2>2 DEF Point
<1> QED BY <1>1 DEF LocalIds

(* "pointers.size() < maxFingers implies that a local id is available"     *)
(* (PointersState.java:57).                                                *)
LEMMA LocalIsFree ==
    ASSUME TouchTypes, PointersInv, Len(pointers) < MaxPointers
    PROVE  NextUnusedLocalId \in Slot \ LocalIds(pointers)
<1> DEFINE free == Slot \ LocalIds(pointers)
<1>0. pointers \in Seq(Point) /\ Distinct(pointers)
  BY DEF TouchTypes, PointersInv
<1>1. free # {}
  <2> SUFFICES ASSUME free = {} PROVE FALSE
    OBVIOUS
  <2>1. LocalIds(pointers) = Slot
    BY <1>0, LocalsAreSlots
  <2>2. Cardinality(LocalIds(pointers)) = Len(pointers) /\ Cardinality(Slot) = MaxPointers
    BY <1>0, LocalsCount, SlotsCount
  <2>3. Len(pointers) \in Nat /\ MaxPointers \in Nat
    BY <1>0, LenProperties, TouchOK
  <2> QED BY <2>1, <2>2, <2>3
<1>2. free \in SUBSET Nat
  BY TouchOK DEF Slot
<1>3. PICK m \in free : \A n \in free : m <= n
  <2> HIDE DEF free
  <2> QED BY <1>1, <1>2, Least
<1>4. Min(free) \in free
  BY <1>3 DEF Min
<1>5. NextUnusedLocalId = Min(free)
  BY <1>1 DEF NextUnusedLocalId, Slot
<1> QED BY <1>4, <1>5

LEMMA KnownIs ==
    ASSUME TouchTypes, NEW id
    PROVE  \/ Known(id) = 0 /\ \A i \in 1..Len(pointers) : pointers[i].id # id
           \/ Known(id) \in 1..Len(pointers) /\ pointers[Known(id)].id = id
<1> DEFINE I == {i \in 1..Len(pointers) : pointers[i].id = id}
<1>0. Len(pointers) \in Nat
  BY LenProperties DEF TouchTypes
<1>1. Known(id) = IF I # {} THEN Min(I) ELSE 0
  BY DEF Known, SelectInSeq
<1>2. CASE I = {}
  BY <1>1, <1>2
<1>3. CASE I # {}
  <2>1. I \in SUBSET Nat
    BY <1>0
  <2>2. PICK m \in I : \A n \in I : m <= n
    <3> HIDE DEF I
    <3> QED BY <1>3, <2>1, Least
  <2>3. Min(I) \in I
    BY <2>2 DEF Min
  <2> QED BY <1>1, <1>3, <2>3
<1> QED BY <1>2, <1>3

(* The list while an event is made: the pointer is in it, new or not.      *)
Listed(id, up) == [WithPointer(id) EXCEPT ![PointerIndex(id)].up = up]

LEMMA ListedIs ==
    ASSUME TouchTypes, PointersInv, NEW id \in Pointer, NEW up \in BOOLEAN,
           PointerIndex(id) # 0
    PROVE  LET list == Listed(id, up)
               k == PointerIndex(id)
               n == Len(pointers)
           IN /\ list \in Seq(Point) /\ k \in 1..Len(list) /\ Distinct(list)
              /\ list[k].id = id /\ list[k].up = up
              /\ \A i \in 1..Len(list) : i # k => i \in 1..n /\ list[i] = pointers[i]
              /\ \/ k \in 1..n /\ Len(list) = n /\ pointers[k].id = id
                    /\ list[k].local = pointers[k].local
                 \/ k = n + 1 /\ Len(list) = n + 1 /\ n < MaxPointers
                    /\ (\A i \in 1..n : pointers[i].id # id)
                    /\ list[k].local \notin LocalIds(pointers)
<1> DEFINE list == Listed(id, up)
           k == PointerIndex(id)
           n == Len(pointers)
<1>0. /\ pointers \in Seq(Point) /\ n \in Nat /\ n <= MaxPointers /\ MaxPointers \in Nat
      /\ DOMAIN pointers = 1..n /\ \A i \in 1..n : pointers[i] \in Point
  BY LenProperties, ElementOfSeq, TouchOK DEF TouchTypes
<1>d. Distinct(pointers)
  BY DEF PointersInv
<1>1. CASE Known(id) # 0
  <2>1. k = Known(id) /\ k \in 1..n /\ pointers[k].id = id /\ WithPointer(id) = pointers
    BY <1>1, KnownIs DEF PointerIndex, WithPointer
  <2>2. list = [pointers EXCEPT ![k].up = up]
    BY <2>1 DEF Listed
  <2>3. [pointers[k] EXCEPT !.up = up] \in Point
    BY <1>0, <2>1 DEF Point
  <2>4. /\ list \in Seq(Point) /\ Len(list) = n
        /\ list[k] = [pointers[k] EXCEPT !.up = up]
        /\ \A i \in 1..n : i # k => list[i] = pointers[i]
    <3> HIDE DEF list, k
    <3> QED BY <1>0, <2>1, <2>2, <2>3, ExceptSeq
  <2>5. list[k].id = id /\ list[k].up = up /\ list[k].local = pointers[k].local
    BY <1>0, <2>1, <2>4 DEF Point
  <2>6. \A i \in 1..n : list[i].id = pointers[i].id /\ list[i].local = pointers[i].local
    <3> HIDE DEF list, k
    <3> QED BY <2>1, <2>4, <2>5
  <2>7. Distinct(list)
    <3> HIDE DEF list, k
    <3> QED BY <1>d, <2>4, <2>6 DEF Distinct
  <2> HIDE DEF list, k, n
  <2>8. /\ list \in Seq(Point) /\ k \in 1..Len(list) /\ Distinct(list)
        /\ list[k].id = id /\ list[k].up = up
        /\ \A i \in 1..Len(list) : i # k => i \in 1..n /\ list[i] = pointers[i]
        /\ k \in 1..n /\ Len(list) = n /\ pointers[k].id = id
        /\ list[k].local = pointers[k].local
    BY <2>1, <2>4, <2>5, <2>7
  <2> QED BY <2>8 DEF list, k, n
<1>2. CASE Known(id) = 0
  <2>1. n < MaxPointers
    BY <1>0, <1>2 DEF PointerIndex
  <2> DEFINE l == NextUnusedLocalId
             p == [id |-> id, local |-> l, up |-> FALSE]
             q == [id |-> id, local |-> l, up |-> up]
  <2>2. k = n + 1 /\ WithPointer(id) = Append(pointers, p)
    BY <1>0, <1>2, <2>1 DEF PointerIndex, WithPointer
  <2>3. l \in Slot \ LocalIds(pointers)
    BY <2>1, LocalIsFree
  <2>4. p \in Point /\ q \in Point
    BY <2>3 DEF Point
  <2>5. /\ Append(pointers, p) \in Seq(Point) /\ Len(Append(pointers, p)) = n + 1
        /\ Append(pointers, p)[n + 1] = p
        /\ \A i \in 1..n : Append(pointers, p)[i] = pointers[i]
    <3> HIDE DEF p
    <3> QED BY <1>0, <2>4, AppendProperties
  <2>6. list = [Append(pointers, p) EXCEPT ![n + 1].up = up]
    BY <2>2 DEF Listed
  <2>7. [p EXCEPT !.up = up] = q
    OBVIOUS
  <2>8. /\ list \in Seq(Point) /\ Len(list) = n + 1 /\ list[n + 1] = q
        /\ \A i \in 1..(n + 1) : i # n + 1 => list[i] = Append(pointers, p)[i]
    <3>1. list = [Append(pointers, p) EXCEPT ![n + 1] = [Append(pointers, p)[n + 1] EXCEPT !.up = up]]
      BY <2>6
    <3>2. list = [Append(pointers, p) EXCEPT ![n + 1] = q]
      BY <2>5, <2>7, <3>1
    <3> DEFINE s == Append(pointers, p)
    <3>3. s \in Seq(Point) /\ Len(s) = n + 1 /\ n + 1 \in 1..Len(s)
      BY <1>0, <2>5
    <3>4. list = [s EXCEPT ![n + 1] = q]
      BY <3>2
    <3> HIDE DEF list, p, q, s, n
    <3>5. /\ list \in Seq(Point) /\ Len(list) = Len(s)
          /\ \A j \in 1..Len(s) : list[j] = IF j = n + 1 THEN q ELSE s[j]
      BY <2>4, <3>3, <3>4, ExceptSeq
    <3>6. list[n + 1] = q
      BY <3>3, <3>5
    <3>7. \A i \in 1..(n + 1) : i # n + 1 => list[i] = s[i]
      BY <3>3, <3>5
    <3> QED BY <3>3, <3>5, <3>6, <3>7 DEF s
  <2>9. \A i \in 1..n : list[i] = pointers[i] /\ i # n + 1 /\ i \in 1..(n + 1)
    <3> HIDE DEF list, p, q
    <3> QED BY <1>0, <2>5, <2>8
  <2>10. \A i \in 1..n : pointers[i].id # id /\ pointers[i].local # l
    BY <1>0, <1>2, <2>3, KnownIs DEF LocalIds
  <2>11. list[n + 1].id = id /\ list[n + 1].up = up /\ list[n + 1].local = l
    <3> HIDE DEF list
    <3> QED BY <2>8
  <2>12. Distinct(list)
    <3> HIDE DEF list, l
    <3> SUFFICES ASSUME NEW i \in 1..(n + 1), NEW j \in 1..(n + 1), i # j
                 PROVE  list[i].id # list[j].id /\ list[i].local # list[j].local
      BY <2>8 DEF Distinct
    <3>1. CASE i \in 1..n /\ j \in 1..n
      BY <1>d, <2>9, <3>1 DEF Distinct
    <3>2. CASE i = n + 1 /\ j \in 1..n
      BY <2>9, <2>10, <2>11, <3>2
    <3>3. CASE j = n + 1 /\ i \in 1..n
      BY <2>9, <2>10, <2>11, <3>3
    <3> QED BY <1>0, <3>1, <3>2, <3>3
  <2> HIDE DEF list, l, p, q
  <2>13. /\ list \in Seq(Point) /\ k \in 1..Len(list) /\ Distinct(list)
         /\ list[k].id = id /\ list[k].up = up
         /\ \A i \in 1..Len(list) : i # k => i \in 1..n /\ list[i] = pointers[i]
         /\ k = n + 1 /\ Len(list) = n + 1 /\ n < MaxPointers
         /\ (\A i \in 1..n : pointers[i].id # id)
         /\ list[k].local \notin LocalIds(pointers)
    BY <1>0, <2>1, <2>2, <2>3, <2>8, <2>9, <2>10, <2>11, <2>12
  <2> HIDE DEF k, n
  <2> QED BY <2>13 DEF list, k, n
<1> QED BY <1>1, <1>2

--------------------------------------------------------------------------------
(* What becomes of the list when the event is made                         *)

LEMMA RemovedIs ==
    ASSUME NEW list \in Seq(Point), NEW k \in 1..Len(list), Distinct(list)
    PROVE  LET r == RemoveAt(list, k)
           IN /\ Distinct(r)
              /\ \A i \in 1..Len(r) : \E j \in 1..Len(list) : j # k /\ r[i] = list[j]
              /\ \A j \in 1..Len(list) : j # k => \E i \in 1..Len(r) : r[i] = list[j]
              /\ LocalIds(r) = LocalIds(list) \ {list[k].local}
<1> DEFINE r == RemoveAt(list, k)
           n == Len(list)
<1>0. n \in Nat /\ DOMAIN list = 1..n
  BY LenProperties
<1>1. r \in Seq(Point) /\ Len(r) = n - 1 /\ DOMAIN r = 1..(n - 1)
  <2>1. r \in Seq(Point) /\ Len(r) = n - 1
    BY RemoveAtIs
  <2> HIDE DEF r
  <2> QED BY <2>1, LenProperties
<1>2. \A j \in 1..(n - 1) : r[j] = IF j < k THEN list[j] ELSE list[j + 1]
  BY RemoveAtIs
<1> HIDE DEF r
<1>3. ASSUME NEW i \in 1..(n - 1) PROVE \E j \in 1..n : j # k /\ r[i] = list[j]
  <2>1. CASE i < k
    BY <1>0, <1>2, <2>1
  <2>2. CASE ~(i < k)
    <3>1. i + 1 \in 1..n /\ i + 1 # k /\ r[i] = list[i + 1]
      BY <1>0, <1>2, <2>2
    <3> QED BY <3>1
  <2> QED BY <2>1, <2>2
<1>4. ASSUME NEW j \in 1..n, j # k PROVE \E i \in 1..(n - 1) : r[i] = list[j]
  <2>1. CASE j < k
    <3>1. j \in 1..(n - 1) /\ r[j] = list[j]
      BY <1>0, <1>2, <2>1
    <3> QED BY <3>1
  <2>2. CASE ~(j < k)
    <3>1. j - 1 \in 1..(n - 1) /\ ~(j - 1 < k) /\ (j - 1) + 1 = j
      BY <1>0, <1>4, <2>2
    <3>2. r[j - 1] = list[j]
      BY <1>2, <3>1
    <3> QED BY <3>1, <3>2
  <2> QED BY <2>1, <2>2
<1>5. Distinct(r)
  <2> SUFFICES ASSUME NEW i \in 1..(n - 1), NEW j \in 1..(n - 1), i # j
               PROVE  r[i].id # r[j].id /\ r[i].local # r[j].local
    BY <1>1 DEF Distinct
  <2> DEFINE at(m) == IF m < k THEN m ELSE m + 1
  <2>1. at(i) \in 1..n /\ at(j) \in 1..n /\ at(i) # at(j)
    BY <1>0
  <2>2. r[i] = list[at(i)] /\ r[j] = list[at(j)]
    BY <1>2
  <2> HIDE DEF at
  <2> QED BY <2>1, <2>2 DEF Distinct
<1>6. LocalIds(r) = LocalIds(list) \ {list[k].local}
  <2>1. ASSUME NEW l \in LocalIds(r) PROVE l \in LocalIds(list) \ {list[k].local}
    <3>1. PICK i \in 1..(n - 1) : r[i].local = l
      BY <1>1 DEF LocalIds
    <3>2. PICK j \in 1..n : j # k /\ r[i] = list[j]
      BY <1>3
    <3>3. list[j].local # list[k].local
      BY <3>2 DEF Distinct
    <3> QED BY <1>0, <3>1, <3>2, <3>3 DEF LocalIds
  <2>2. ASSUME NEW l \in LocalIds(list) \ {list[k].local} PROVE l \in LocalIds(r)
    <3>1. PICK j \in 1..n : list[j].local = l
      BY <1>0 DEF LocalIds
    <3>2. j # k
      BY <2>2, <3>1
    <3>3. PICK i \in 1..(n - 1) : r[i] = list[j]
      BY <1>4, <3>2
    <3> QED BY <1>1, <3>1, <3>3 DEF LocalIds
  <2> QED BY <2>1, <2>2
<1>7. /\ Distinct(r)
      /\ \A i \in 1..Len(r) : \E j \in 1..n : j # k /\ r[i] = list[j]
      /\ \A j \in 1..n : j # k => \E i \in 1..Len(r) : r[i] = list[j]
      /\ LocalIds(r) = LocalIds(list) \ {list[k].local}
  BY <1>1, <1>3, <1>4, <1>5, <1>6
<1> QED BY <1>7 DEF r

(* A message of the mouse that is injected as such, and what it lifts.     *)
IsReal(action, id, button, pressed) ==
    id = Mouse /\ (action = "HOVER_MOVE" \/ ({button} \cup pressed) \cap {"secondary"} # {})
Lifts(action, id, button, pressed) ==
    IF IsReal(action, id, button, pressed) THEN pressed = {} ELSE action = "UP"

LEMMA ListAfter ==
    ASSUME TouchTypes, PointersInv, NEW id \in Pointer, NEW up \in BOOLEAN,
           PointerIndex(id) # 0, pointers' = CleanUpPointers(Listed(id, up))
    PROVE  LET list == Listed(id, up)
               k == PointerIndex(id)
           IN /\ pointers' \in Seq(Point) /\ Distinct(pointers')
              /\ \A i \in 1..Len(pointers') : ~pointers'[i].up
              /\ Len(pointers') = IF up THEN Len(list) - 1 ELSE Len(list)
              /\ Len(list) <= MaxPointers /\ Len(list) \in Nat
              /\ LocalIds(list) = LocalIds(pointers) \cup {list[k].local}
              /\ LocalIds(pointers') = LocalIds(list) \ (IF up THEN {list[k].local} ELSE {})
              /\ \A x \in Pointer : (\E i \in 1..Len(pointers') : pointers'[i].id = x) <=>
                    IF x = id THEN ~up ELSE \E i \in 1..Len(pointers) : pointers[i].id = x
              /\ ~up => pointers' = list
<1> DEFINE list == Listed(id, up)
           k == PointerIndex(id)
           n == Len(pointers)
<1>0. /\ pointers \in Seq(Point) /\ n \in Nat /\ n <= MaxPointers /\ MaxPointers \in Nat
      /\ DOMAIN pointers = 1..n /\ \A i \in 1..n : ~pointers[i].up
  BY LenProperties, TouchOK DEF TouchTypes
<1>1. /\ list \in Seq(Point) /\ k \in 1..Len(list) /\ Distinct(list)
      /\ list[k].id = id /\ list[k].up = up
      /\ \A i \in 1..Len(list) : i # k => i \in 1..n /\ list[i] = pointers[i]
      /\ \/ k \in 1..n /\ Len(list) = n /\ pointers[k].id = id
            /\ list[k].local = pointers[k].local
         \/ k = n + 1 /\ Len(list) = n + 1 /\ n < MaxPointers
            /\ (\A i \in 1..n : pointers[i].id # id)
            /\ list[k].local \notin LocalIds(pointers)
  BY ListedIs
<1> HIDE DEF list, k
<1>2. pointers' = IF up THEN RemoveAt(list, k) ELSE list
  <2>1. \A i \in 1..Len(list) : i # k => ~list[i].up
    BY <1>0, <1>1
  <2>2. CleanUpPointers(list) = IF list[k].up THEN RemoveAt(list, k) ELSE list
    BY <1>1, <2>1, CleanUpIs
  <2> QED BY <1>1, <2>2 DEF list
<1>3. Len(list) \in Nat /\ DOMAIN list = 1..Len(list) /\ Len(list) <= MaxPointers
  BY <1>0, <1>1, LenProperties
<1>4. LocalIds(list) = LocalIds(pointers) \cup {list[k].local}
  <2>1. \A i \in 1..n : i \in 1..Len(list) /\ list[i].local = pointers[i].local
    BY <1>0, <1>1
  <2>2. ASSUME NEW i \in 1..Len(list)
        PROVE  list[i].local \in LocalIds(pointers) \cup {list[k].local}
    <3>1. CASE i = k
      BY <3>1
    <3>2. CASE i # k
      <4>1. i \in 1..n /\ list[i].local = pointers[i].local
        BY <1>1, <3>2
      <4> QED BY <1>0, <4>1 DEF LocalIds
    <3> QED BY <3>1, <3>2
  <2>3. ASSUME NEW i \in 1..n PROVE pointers[i].local \in LocalIds(list)
    BY <1>3, <2>1 DEF LocalIds
  <2>4. list[k].local \in LocalIds(list)
    BY <1>1, <1>3 DEF LocalIds
  <2> QED BY <1>0, <1>3, <2>2, <2>3, <2>4 DEF LocalIds
<1>5. \A x \in Pointer : x # id =>
          ((\E j \in 1..Len(list) : j # k /\ list[j].id = x) <=> \E i \in 1..n : pointers[i].id = x)
  <2> SUFFICES ASSUME NEW x \in Pointer, x # id
               PROVE  (\E j \in 1..Len(list) : j # k /\ list[j].id = x)
                         <=> \E i \in 1..n : pointers[i].id = x
    OBVIOUS
  <2>1. ASSUME NEW j \in 1..Len(list), j # k, list[j].id = x
        PROVE  \E i \in 1..n : pointers[i].id = x
    BY <1>1, <2>1
  <2>2. ASSUME NEW i \in 1..n, pointers[i].id = x
        PROVE  \E j \in 1..Len(list) : j # k /\ list[j].id = x
    <3>1. i # k /\ i \in 1..Len(list)
      BY <1>0, <1>1, <2>2
    <3> QED BY <1>1, <2>2, <3>1
  <2> QED BY <2>1, <2>2
<1>6. CASE up
  <2> DEFINE r == RemoveAt(list, k)
  <2>1. /\ r \in Seq(Point) /\ Len(r) = Len(list) - 1
    BY <1>1, RemoveAtIs
  <2>2. /\ Distinct(r)
        /\ \A i \in 1..Len(r) : \E j \in 1..Len(list) : j # k /\ r[i] = list[j]
        /\ \A j \in 1..Len(list) : j # k => \E i \in 1..Len(r) : r[i] = list[j]
        /\ LocalIds(r) = LocalIds(list) \ {list[k].local}
    BY <1>1, RemovedIs
  <2> HIDE DEF r
  <2>3. pointers' = r
    BY <1>2, <1>6 DEF r
  <2>4. \A i \in 1..Len(r) : ~r[i].up
    <3> SUFFICES ASSUME NEW i \in 1..Len(r) PROVE ~r[i].up
      OBVIOUS
    <3>1. PICK j \in 1..Len(list) : j # k /\ r[i] = list[j]
      BY <2>2
    <3>2. j \in 1..n /\ list[j] = pointers[j]
      BY <1>1, <3>1
    <3> QED BY <1>0, <3>1, <3>2
  <2>5. ASSUME NEW x \in Pointer
        PROVE  (\E i \in 1..Len(r) : r[i].id = x) <=>
                  (x # id /\ \E i \in 1..n : pointers[i].id = x)
    <3>1. ASSUME NEW i \in 1..Len(r), r[i].id = x
          PROVE  x # id /\ \E j \in 1..n : pointers[j].id = x
      <4>1. PICK j \in 1..Len(list) : j # k /\ r[i] = list[j]
        BY <2>2
      <4>2. list[j].id # id
        BY <1>1, <4>1 DEF Distinct
      <4> QED BY <1>5, <3>1, <4>1, <4>2
    <3>2. ASSUME x # id, NEW i \in 1..n, pointers[i].id = x
          PROVE  \E j \in 1..Len(r) : r[j].id = x
      <4>1. PICK j \in 1..Len(list) : j # k /\ list[j].id = x
        BY <1>5, <3>2
      <4>2. PICK m \in 1..Len(r) : r[m] = list[j]
        BY <2>2, <4>1
      <4> QED BY <4>1, <4>2
    <3> QED BY <3>1, <3>2
  <2>6. /\ pointers' \in Seq(Point) /\ Distinct(pointers')
        /\ (\A i \in 1..Len(pointers') : ~pointers'[i].up)
        /\ Len(pointers') = Len(list) - 1
        /\ LocalIds(pointers') = LocalIds(list) \ {list[k].local}
        /\ \A x \in Pointer : (\E i \in 1..Len(pointers') : pointers'[i].id = x) <=>
              (x # id /\ \E i \in 1..n : pointers[i].id = x)
    <3>1. /\ pointers' \in Seq(Point) /\ Distinct(pointers')
          /\ Len(pointers') = Len(list) - 1
          /\ LocalIds(pointers') = LocalIds(list) \ {list[k].local}
      BY <2>1, <2>2, <2>3
    <3>2. \A i \in 1..Len(pointers') : ~pointers'[i].up
      BY <2>3, <2>4
    <3>3. \A x \in Pointer : (\E i \in 1..Len(pointers') : pointers'[i].id = x) <=>
             (x # id /\ \E i \in 1..n : pointers[i].id = x)
      BY <2>3, <2>5
    <3> QED BY <3>1, <3>2, <3>3
  <2> QED BY <1>3, <1>4, <1>6, <2>6 DEF list, k
<1>7. CASE ~up
  <2>1. pointers' = list
    BY <1>2, <1>7
  <2>2. \A i \in 1..Len(list) : ~list[i].up
    BY <1>0, <1>1, <1>7
  <2>3. ASSUME NEW x \in Pointer
        PROVE  (\E i \in 1..Len(list) : list[i].id = x) <=>
                  (x = id \/ \E i \in 1..n : pointers[i].id = x)
    <3>1. CASE x = id
      BY <1>1, <3>1
    <3>2. CASE x # id
      <4>1. \A i \in 1..Len(list) : list[i].id = x => i # k
        BY <1>1, <3>2
      <4> QED BY <1>5, <3>2, <4>1
    <3> QED BY <3>1, <3>2
  <2>4. /\ pointers' \in Seq(Point) /\ Distinct(pointers')
        /\ (\A i \in 1..Len(pointers') : ~pointers'[i].up)
        /\ Len(pointers') = Len(list)
        /\ LocalIds(pointers') = LocalIds(list)
        /\ \A x \in Pointer : (\E i \in 1..Len(pointers') : pointers'[i].id = x) <=>
              (x = id \/ \E i \in 1..n : pointers[i].id = x)
    BY <1>1, <2>1, <2>2, <2>3
  <2> QED BY <1>3, <1>4, <1>7, <2>1, <2>4 DEF list, k
<1> QED BY <1>6, <1>7

--------------------------------------------------------------------------------
(* The events                                                              *)

LEMMA ReceivesOne ==
    ASSUME NEW a, NEW events, Len(events) = 1
    PROVE  ReceivesAll(a, events) = Receives(a, events[1])
<1> DEFINE w == [n \in 0..1 |-> IF n = 0 THEN a ELSE Receives(a, events[1])]
<1>1. w = [n \in 0..Len(events) |-> IF n = 0 THEN a ELSE Receives(w[n - 1], events[n])]
  <2>1. ASSUME NEW n \in 0..1
        PROVE  w[n] = IF n = 0 THEN a ELSE Receives(w[n - 1], events[n])
    <3>1. CASE n = 0
      BY <3>1
    <3>2. CASE n = 1
      <4>1. w[n - 1] = a /\ w[n] = Receives(a, events[1])
        BY <3>2
      <4> QED BY <3>2, <4>1
    <3> QED BY <3>1, <3>2
  <2> HIDE DEF w
  <2>2. w = [n \in 0..1 |-> w[n]]
    BY DEF w
  <2> QED BY <2>1, <2>2
<1> HIDE DEF w
<1>2. PICK f : /\ f = [n \in 0..Len(events) |->
                           IF n = 0 THEN a ELSE Receives(f[n - 1], events[n])]
               /\ ReceivesAll(a, events) = f[Len(events)]
  BY <1>1 DEF ReceivesAll
<1>3. f[0] = a
  BY <1>2
<1>4. f[1] = Receives(f[0], events[1])
  BY <1>2
<1> QED BY <1>2, <1>3, <1>4

LEMMA ReceivesTwo ==
    ASSUME NEW a, NEW events, Len(events) = 2
    PROVE  ReceivesAll(a, events) = Receives(Receives(a, events[1]), events[2])
<1> DEFINE b == Receives(a, events[1])
           w == [n \in 0..2 |-> IF n = 0 THEN a ELSE IF n = 1 THEN b ELSE Receives(b, events[2])]
<1>1. w = [n \in 0..Len(events) |-> IF n = 0 THEN a ELSE Receives(w[n - 1], events[n])]
  <2>1. ASSUME NEW n \in 0..2
        PROVE  w[n] = IF n = 0 THEN a ELSE Receives(w[n - 1], events[n])
    <3>1. CASE n = 0
      BY <3>1
    <3>2. CASE n = 1
      <4>1. w[n - 1] = a /\ w[n] = b
        BY <3>2
      <4> QED BY <3>2, <4>1
    <3>3. CASE n = 2
      <4>1. w[n - 1] = b /\ w[n] = Receives(b, events[2])
        BY <3>3
      <4> HIDE DEF w, b
      <4> QED BY <3>3, <4>1
    <3> QED BY <3>1, <3>2, <3>3
  <2> HIDE DEF w
  <2>2. w = [n \in 0..2 |-> w[n]]
    BY DEF w
  <2> QED BY <2>1, <2>2
<1> HIDE DEF w, b
<1>2. PICK f : /\ f = [n \in 0..Len(events) |->
                           IF n = 0 THEN a ELSE Receives(f[n - 1], events[n])]
               /\ ReceivesAll(a, events) = f[Len(events)]
  BY <1>1 DEF ReceivesAll
<1>3. f[0] = a
  BY <1>2
<1>4. f[1] = Receives(f[0], events[1])
  BY <1>2
<1>5. f[2] = Receives(f[1], events[2])
  BY <1>2
<1> QED BY <1>2, <1>3, <1>4, <1>5

(* What a message does, when there is room for its pointer.                *)
LEMMA InjectIs ==
    ASSUME NEW action, NEW id, NEW button, NEW pressed,
           Inject(action, id, button, pressed), PointerIndex(id) # 0
    PROVE  LET real == IsReal(action, id, button, pressed)
               up == Lifts(action, id, button, pressed)
               list == Listed(id, up)
               k == PointerIndex(id)
               tool == IF real THEN "mouse" ELSE "finger"
               masked == Masked(action, Len(list))
               actions == IF real /\ masked \in {"DOWN", "UP"}
                          THEN MouseActions(masked, button, pressed) ELSE <<masked>>
           IN /\ tools' = [tools EXCEPT ![k] = tool]
              /\ pointers' = CleanUpPointers(list)
              /\ last' = [last EXCEPT ![id] = IF up THEN "up" ELSE "down"]
              /\ excused' = (excused \/ \/ real /\ app.touch # {}
                                        \/ ~real /\ app.down
                                        \/ real /\ Len(list) > 1)
              /\ app' = IF excused' THEN app
                        ELSE ReceivesAll(app, [n \in DOMAIN actions |->
                                 Event(tool, actions[n], list, k, button)])
BY DEF Inject, IsReal, Lifts, Listed

(* What keeps the pointers: an index that is not 0 is in the list.         *)
LEMMA InjectTypes ==
    ASSUME TouchTypes, PointersInv, NEW action, NEW id \in Pointer, NEW button, NEW pressed,
           Touch(action, id, button, pressed)
    PROVE  /\ pointers' \in Seq(Point) /\ Len(pointers') <= MaxPointers
           /\ \A i \in 1..Len(pointers') : ~pointers'[i].up
           /\ tools' \in [1..MaxPointers -> {"finger", "mouse"}]
           /\ last' \in [Pointer -> {"up", "down"}]
           /\ PointersInv'
           /\ excused => excused'
<1>1. CASE UNCHANGED <<pointers, tools, app, last>> /\ excused' = TRUE
  BY <1>1 DEF TouchTypes, PointersInv, Distinct
<1>2. CASE Inject(action, id, button, pressed) /\ PointerIndex(id) # 0
  <2> DEFINE up == Lifts(action, id, button, pressed)
             list == Listed(id, up)
             k == PointerIndex(id)
  <2>0. up \in BOOLEAN
    BY DEF Lifts, IsReal
  <2>1. /\ tools' = [tools EXCEPT ![k] = IF IsReal(action, id, button, pressed)
                                         THEN "mouse" ELSE "finger"]
        /\ pointers' = CleanUpPointers(list)
        /\ last' = [last EXCEPT ![id] = IF up THEN "up" ELSE "down"]
        /\ excused => excused'
    BY <1>2, InjectIs
  <2> HIDE DEF up, list
  <2>2. /\ pointers' \in Seq(Point) /\ Distinct(pointers')
        /\ \A i \in 1..Len(pointers') : ~pointers'[i].up
        /\ Len(pointers') = IF up THEN Len(list) - 1 ELSE Len(list)
        /\ Len(list) <= MaxPointers /\ Len(list) \in Nat
        /\ \A x \in Pointer : (\E i \in 1..Len(pointers') : pointers'[i].id = x) <=>
              IF x = id THEN ~up ELSE \E i \in 1..Len(pointers) : pointers[i].id = x
    BY <1>2, <2>0, <2>1, ListAfter DEF list
  <2>3. Len(pointers') <= MaxPointers
    BY <2>2, TouchOK
  <2>4. tools' \in [1..MaxPointers -> {"finger", "mouse"}]
    BY <2>1 DEF TouchTypes
  <2>5. last' \in [Pointer -> {"up", "down"}]
    BY <2>1 DEF TouchTypes
  <2>6. ASSUME NEW x \in Pointer
        PROVE  last'[x] = "down" <=> \E i \in 1..Len(pointers') : pointers'[i].id = x
    <3>1. CASE x = id
      <4>1. last'[x] = IF up THEN "up" ELSE "down"
        BY <2>1, <3>1 DEF TouchTypes
      <4>2. (\E i \in 1..Len(pointers') : pointers'[i].id = x) <=> ~up
        BY <2>2, <3>1
      <4> QED BY <2>0, <4>1, <4>2
    <3>2. CASE x # id
      <4>1. last'[x] = last[x]
        BY <2>1, <3>2 DEF TouchTypes
      <4>2. (\E i \in 1..Len(pointers') : pointers'[i].id = x)
               <=> \E i \in 1..Len(pointers) : pointers[i].id = x
        BY <2>2, <3>2
      <4>3. last[x] = "down" <=> \E i \in 1..Len(pointers) : pointers[i].id = x
        BY DEF PointersInv
      <4> QED BY <4>1, <4>2, <4>3
    <3> QED BY <3>1, <3>2
  <2>7. PointersInv'
    BY <2>2, <2>6 DEF PointersInv
  <2> QED BY <2>1, <2>2, <2>3, <2>4, <2>5, <2>7
<1>3. CASE Inject(action, id, button, pressed) /\ PointerIndex(id) = 0
  <2>1. UNCHANGED <<pointers, tools, app, last>> /\ excused' = TRUE
    BY <1>3 DEF Inject
  <2> QED BY <1>1, <2>1
<1> QED BY <1>1, <1>2, <1>3 DEF Touch

--------------------------------------------------------------------------------
(* The gestures                                                            *)

(* The fields of an event about the pointer of the list.                   *)
LEMMA EventIs ==
    ASSUME NEW tool, NEW action, NEW list \in Seq(Point), Distinct(list), NEW k, NEW button
    PROVE  LET e == Event(tool, action, list, k, button)
           IN /\ e.source = tool /\ e.action = action /\ e.button = button
              /\ e.ids = LocalIds(list) /\ e.count = Len(list) /\ e.id = list[k].local
              /\ e.count = Cardinality(e.ids)
              /\ \A i \in 1..Len(list) : e.tools[i] = tools'[i]
<1>1. Cardinality(LocalIds(list)) = Len(list) /\ DOMAIN list = 1..Len(list)
  BY LocalsCount, LenProperties
<1> QED BY <1>1 DEF Event

(* A finger, or a mouse that is one.                                       *)
LEMMA FingerEvent ==
    ASSUME TouchTypes, PointersInv, FingersShown,
           NEW action \in {"DOWN", "MOVE", "UP"}, NEW id \in Pointer, NEW button, NEW pressed,
           Inject(action, id, button, pressed), PointerIndex(id) # 0,
           ~IsReal(action, id, button, pressed), ~excused',
           action = "DOWN" <=> last[id] = "up"
    PROVE  FingersShown'
<1> DEFINE up == action = "UP"
           list == Listed(id, up)
           k == PointerIndex(id)
           n == Len(list)
           masked == Masked(action, n)
           e == Event("finger", masked, list, k, button)
<1>0. up \in BOOLEAN /\ Lifts(action, id, button, pressed) = up
  BY DEF Lifts
<1>1. /\ tools' = [tools EXCEPT ![k] = "finger"]
      /\ pointers' = CleanUpPointers(list)
      /\ app' = Receives(app, e)
  <2> DEFINE events == [i \in DOMAIN <<masked>> |->
                           Event("finger", <<masked>>[i], list, k, button)]
  <2>1. /\ tools' = [tools EXCEPT ![k] = "finger"]
        /\ pointers' = CleanUpPointers(list)
        /\ app' = ReceivesAll(app, events)
    BY <1>0, InjectIs
  <2>2. Len(events) = 1 /\ events[1] = e
    OBVIOUS
  <2> HIDE DEF events, e
  <2> QED BY <2>1, <2>2, ReceivesOne
<1> HIDE DEF list, k
<1>2. /\ pointers' \in Seq(Point) /\ Distinct(pointers')
      /\ Len(pointers') = IF up THEN n - 1 ELSE n
      /\ n <= MaxPointers /\ n \in Nat
      /\ LocalIds(list) = LocalIds(pointers) \cup {list[k].local}
      /\ LocalIds(pointers') = LocalIds(list) \ (IF up THEN {list[k].local} ELSE {})
  BY <1>0, <1>1, ListAfter DEF list, k
<1>3. /\ list \in Seq(Point) /\ k \in 1..n /\ Distinct(list) /\ list[k].id = id
      /\ \/ k \in 1..Len(pointers) /\ n = Len(pointers) /\ pointers[k].id = id
            /\ list[k].local = pointers[k].local
         \/ k = Len(pointers) + 1 /\ n = Len(pointers) + 1
            /\ (\A i \in 1..Len(pointers) : pointers[i].id # id)
            /\ list[k].local \notin LocalIds(pointers)
  BY <1>0, ListedIs DEF list, k
<1>4. /\ e.source = "finger" /\ e.action = masked /\ e.button = button
      /\ e.ids = LocalIds(list) /\ e.count = n /\ e.id = list[k].local
      /\ e.count = Cardinality(e.ids)
      /\ \A i \in 1..n : e.tools[i] = tools'[i]
  BY <1>3, EventIs
<1>5. \A i \in 1..n : tools'[i] = "finger"
  <2> SUFFICES ASSUME NEW i \in 1..n PROVE tools'[i] = "finger"
    OBVIOUS
  <2>1. i \in 1..MaxPointers /\ k \in 1..MaxPointers
    BY <1>2, <1>3, TouchOK
  <2>2. CASE i = k
    BY <1>1, <2>1, <2>2 DEF TouchTypes
  <2>3. CASE i # k
    <3>1. i \in 1..Len(pointers)
      BY <1>2, <1>3, <2>3, LenProperties DEF TouchTypes
    <3> QED BY <1>1, <2>1, <2>3, <3>1 DEF TouchTypes, FingersShown
  <2> QED BY <2>2, <2>3
<1>6. /\ DOMAIN pointers = 1..Len(pointers) /\ Len(pointers) \in Nat /\ DOMAIN list = 1..n
      /\ list[k].local \in Slot
  <2>1. DOMAIN pointers = 1..Len(pointers) /\ Len(pointers) \in Nat /\ DOMAIN list = 1..n
    BY <1>3, LenProperties DEF TouchTypes
  <2>2. list[k] \in Point
    BY <1>3, ElementOfSeq
  <2> QED BY <2>1, <2>2 DEF Point
(* A pointer that is known is one that is down.                            *)
<1>7. action = "DOWN" <=> \A i \in 1..Len(pointers) : pointers[i].id # id
  BY DEF PointersInv, TouchTypes
<1>8. CASE action = "DOWN"
  <2>1. /\ k = Len(pointers) + 1 /\ n = Len(pointers) + 1
        /\ list[k].local \notin LocalIds(pointers)
    BY <1>3, <1>7, <1>8
  <2>2. LocalIds(pointers) = {} <=> n = 1
    <3>1. CASE n = 1
      <4>1. Len(pointers) = 0 /\ DOMAIN pointers = {}
        BY <1>6, <2>1, <3>1
      <4> QED BY <3>1, <4>1 DEF LocalIds
    <3>2. CASE n # 1
      <4>1. 1 \in DOMAIN pointers
        BY <1>6, <2>1, <3>2
      <4> QED BY <3>2, <4>1 DEF LocalIds
    <3> QED BY <3>1, <3>2
  <2>3. e.action = IF n = 1 THEN "DOWN" ELSE "POINTER_DOWN"
    BY <1>2, <1>3, <1>4, <1>8 DEF Masked
  <2> HIDE DEF e, n
  <2>4. LegalEvent(app, e)
    <3>1. CASE n = 1
      <4>1. e.action = "DOWN" /\ app.touch = {} /\ e.ids = {e.id}
        BY <1>2, <1>4, <2>2, <2>3, <3>1 DEF FingersShown
      <4> QED BY <1>4, <1>5, <4>1 DEF LegalEvent, FingersShown
    <3>2. CASE n # 1
      <4>1. /\ e.action = "POINTER_DOWN" /\ e.id \notin app.touch /\ app.touch # {}
            /\ e.ids = app.touch \cup {e.id}
        BY <1>2, <1>4, <2>1, <2>2, <2>3, <3>2 DEF FingersShown
      <4> QED BY <1>4, <1>5, <4>1 DEF LegalEvent, FingersShown
    <3> QED BY <3>1, <3>2
  <2>5. app' = [touch |-> app.touch \cup {e.id}, mouse |-> app.mouse, down |-> app.down,
                legal |-> TRUE]
    BY <1>1, <1>4, <2>3, <2>4 DEF Receives, FingersShown
  <2>6. LocalIds(pointers') = LocalIds(pointers) \cup {e.id} /\ Len(pointers') = n
    BY <1>2, <1>4, <1>8
  <2>7. e.id \in Slot
    BY <1>4, <1>6
  <2>8. app' \in AppState /\ app'.legal /\ ~app'.down /\ app'.mouse = {}
    BY <2>5, <2>7 DEF FingersShown, AppState
  <2>9. app'.touch = LocalIds(pointers')
    BY <2>5, <2>6 DEF FingersShown
  <2> QED BY <1>5, <2>6, <2>8, <2>9 DEF FingersShown
<1>9. CASE action = "UP"
  <2>1. k \in 1..Len(pointers) /\ n = Len(pointers) /\ list[k].local = pointers[k].local
    BY <1>3, <1>7, <1>9
  <2>2. list[k].local \in LocalIds(pointers) /\ LocalIds(list) = LocalIds(pointers)
    BY <1>2, <1>6, <2>1 DEF LocalIds
  <2>3. e.action = IF n = 1 THEN "UP" ELSE "POINTER_UP"
    BY <1>2, <1>3, <1>4, <1>9 DEF Masked
  <2> HIDE DEF e, n
  <2>4. LegalEvent(app, e)
    <3>1. CASE n = 1
      <4>1. k = 1 /\ DOMAIN pointers = {1}
        BY <1>6, <2>1, <3>1
      <4>2. LocalIds(pointers) = {e.id}
        BY <1>4, <2>1, <4>1 DEF LocalIds
      <4>3. e.action = "UP" /\ app.touch = {e.id} /\ e.ids = {e.id}
        BY <1>4, <2>2, <2>3, <3>1, <4>2 DEF FingersShown
      <4> QED BY <1>4, <1>5, <4>3 DEF LegalEvent, FingersShown
    <3>2. CASE n # 1
      <4>1. e.action = "POINTER_UP" /\ e.ids = app.touch
        BY <1>4, <2>2, <2>3, <3>2 DEF FingersShown
      <4>2. n > 1
        BY <1>2, <1>3, <3>2
      <4>3. Cardinality(app.touch) > 1
        BY <1>4, <4>1, <4>2
      <4> QED BY <1>4, <1>5, <4>1, <4>3 DEF LegalEvent, FingersShown
    <3> QED BY <3>1, <3>2
  <2>5. app' = [touch |-> app.touch \ {e.id}, mouse |-> app.mouse, down |-> app.down,
                legal |-> TRUE]
    BY <1>1, <1>4, <2>3, <2>4 DEF Receives, FingersShown
  <2>6. LocalIds(pointers') = LocalIds(pointers) \ {e.id} /\ Len(pointers') = n - 1
    BY <1>2, <1>4, <1>9, <2>2
  <2>7. \A i \in 1..Len(pointers') : i \in 1..n
    BY <1>2, <2>6
  <2> QED BY <1>4, <1>5, <2>5, <2>6, <2>7 DEF FingersShown, AppState
<1>10. CASE action = "MOVE"
  <2>1. k \in 1..Len(pointers) /\ n = Len(pointers) /\ list[k].local = pointers[k].local
    BY <1>3, <1>7, <1>10
  <2>2. LocalIds(list) = LocalIds(pointers)
    BY <1>2, <1>6, <2>1 DEF LocalIds
  <2>3. e.action = "MOVE"
    BY <1>4, <1>10 DEF Masked
  <2> HIDE DEF e, n
  <2>4. LegalEvent(app, e)
    BY <1>4, <1>5, <2>2, <2>3 DEF LegalEvent, FingersShown
  <2>5. app' = [touch |-> app.touch, mouse |-> app.mouse, down |-> app.down, legal |-> TRUE]
    BY <1>1, <1>4, <2>3, <2>4 DEF Receives, FingersShown
  <2>6. LocalIds(pointers') = LocalIds(pointers) /\ Len(pointers') = n
    BY <1>2, <1>10, <2>2
  <2> QED BY <1>5, <2>5, <2>6 DEF FingersShown, AppState
<1> QED BY <1>8, <1>9, <1>10

(* A mouse, alone: what its pointer and its tool become.                   *)
MouseEvents(action, button, pressed) ==
    LET actions == IF action \in {"DOWN", "UP"}
                   THEN MouseActions(action, button, pressed) ELSE <<action>>
    IN  [n \in DOMAIN actions |->
            Event("mouse", actions[n], Listed(Mouse, pressed = {}), PointerIndex(Mouse), button)]

LEMMA MouseAlone ==
    ASSUME TouchTypes, PointersInv, NEW action, NEW button, NEW pressed,
           Inject(action, Mouse, button, pressed), PointerIndex(Mouse) # 0,
           IsReal(action, Mouse, button, pressed), ~excused'
    PROVE  LET list == Listed(Mouse, pressed = {})
           IN /\ ~excused /\ app.touch = {}
              /\ list \in Seq(Point) /\ Distinct(list) /\ Len(list) = 1
              /\ tools'[1] = "mouse"
              /\ pressed = {} => Len(pointers') = 0 /\ LocalIds(pointers') = {}
              /\ pressed # {} => Len(pointers') = 1 /\ pointers'[1].id = Mouse
              /\ app' = ReceivesAll(app, MouseEvents(action, button, pressed))
<1> DEFINE up == pressed = {}
           list == Listed(Mouse, up)
           k == PointerIndex(Mouse)
<1>0. up \in BOOLEAN /\ Lifts(action, Mouse, button, pressed) = up /\ Mouse \in Pointer
  BY DEF Lifts, Pointer
<1>1. /\ tools' = [tools EXCEPT ![k] = "mouse"]
      /\ pointers' = CleanUpPointers(list)
      /\ ~excused /\ app.touch = {} /\ ~(Len(list) > 1)
  BY <1>0, InjectIs
<1> HIDE DEF list, k
<1>2. /\ pointers' \in Seq(Point)
      /\ Len(pointers') = IF up THEN Len(list) - 1 ELSE Len(list)
      /\ Len(list) <= MaxPointers /\ Len(list) \in Nat
      /\ ~up => pointers' = list
  BY <1>0, <1>1, ListAfter DEF list, k
<1>3. list \in Seq(Point) /\ k \in 1..Len(list) /\ Distinct(list) /\ list[k].id = Mouse
  BY <1>0, <1>1, ListedIs DEF list, k
<1>4. Len(list) = 1 /\ k = 1
  <2>1. ~(Len(list) > 1) /\ Len(list) \in Nat
    BY <1>1, <1>2
  <2>2. k \in 1..Len(list)
    BY <1>3
  <2>3. Len(list) = 0 \/ Len(list) = 1
    BY <2>1
  <2>4. Len(list) # 0
    BY <2>2
  <2>5. Len(list) = 1
    BY <2>3, <2>4
  <2>6. k \in 1..1
    BY <2>2, <2>5
  <2>7. k = 1
    BY <2>6
  <2> QED BY <2>5, <2>7
<1>5. tools'[1] = "mouse"
  BY <1>1, <1>2, <1>4, TouchOK DEF TouchTypes
<1>6. Masked(action, Len(list)) = action
  BY <1>4 DEF Masked
<1>7. app' = ReceivesAll(app, MouseEvents(action, button, pressed))
  <2>1. Masked(action, Len(Listed(Mouse, up))) = action
    BY <1>6 DEF list
  <2> QED BY <1>0, <2>1, InjectIs DEF MouseEvents
<1>8. up => Len(pointers') = 0 /\ LocalIds(pointers') = {}
  <2> SUFFICES ASSUME up PROVE Len(pointers') = 0 /\ LocalIds(pointers') = {}
    OBVIOUS
  <2>1. Len(pointers') = 0
    BY <1>2, <1>4
  <2>2. DOMAIN pointers' = {}
    BY <1>2, <2>1, LenProperties
  <2> QED BY <2>1, <2>2 DEF LocalIds
<1>9. ~up => Len(pointers') = 1 /\ pointers'[1].id = Mouse
  BY <1>2, <1>3, <1>4
<1> QED BY <1>1, <1>3, <1>4, <1>5, <1>7, <1>8, <1>9 DEF list, k

Shown(mouse, isDown) == [touch |-> {}, mouse |-> mouse, down |-> isDown, legal |-> TRUE]

MouseEventIs(a, action, list, k, button) ==
    LET r == Receives(a, Event("mouse", action, list, k, button))
    IN /\ action = "DOWN" /\ ~a.down => r = Shown(a.mouse, TRUE)
       /\ action = "BUTTON_PRESS" /\ a.down /\ button \in MouseButton \ a.mouse
             => r = Shown(a.mouse \cup {button}, a.down)
       /\ action = "BUTTON_RELEASE" /\ button \in a.mouse
             => r = Shown(a.mouse \ {button}, a.down)
       /\ action = "UP" /\ a.down /\ a.mouse = {} => r = Shown(a.mouse, FALSE)
       /\ action = "HOVER_MOVE" /\ ~a.down => r = Shown(a.mouse, FALSE)
       /\ action = "MOVE" /\ a.down => r = Shown(a.mouse, TRUE)

LEMMA MouseReceives ==
    ASSUME NEW a \in AppState, a.legal, a.touch = {},
           NEW list \in Seq(Point), Distinct(list), Len(list) = 1, tools'[1] = "mouse",
           NEW action, NEW k, NEW button \in MouseButton \cup {"none"}
    PROVE  MouseEventIs(a, action, list, k, button)
<1> DEFINE e == Event("mouse", action, list, k, button)
<1>1. /\ e.source = "mouse" /\ e.action = action /\ e.button = button
      /\ e.count = 1 /\ e.count = Cardinality(e.ids)
      /\ \A i \in 1..1 : e.tools[i] = tools'[i]
  <2>1. /\ e.source = "mouse" /\ e.action = action /\ e.button = button
        /\ e.count = Len(list) /\ e.count = Cardinality(e.ids)
        /\ \A i \in 1..Len(list) : e.tools[i] = tools'[i]
    <3>1. Cardinality(LocalIds(list)) = Len(list) /\ DOMAIN list = 1..Len(list)
      BY LocalsCount, LenProperties
    <3> QED BY <3>1 DEF Event
  <2> HIDE DEF e
  <2> QED BY <2>1
<1> HIDE DEF e
<1>2. \A i \in 1..e.count : e.tools[i] = e.source
  BY <1>1
<1>3. a.legal = TRUE /\ a.down \in BOOLEAN
  BY DEF AppState
<1>4. ASSUME action = "DOWN", ~a.down PROVE Receives(a, e) = Shown(a.mouse, TRUE)
  <2>1. LegalEvent(a, e)
    BY <1>1, <1>2, <1>4 DEF LegalEvent
  <2> QED BY <1>1, <1>3, <1>4, <2>1 DEF Receives, Shown, AppState
<1>5. ASSUME action = "BUTTON_PRESS", a.down, button \in MouseButton \ a.mouse
      PROVE  Receives(a, e) = Shown(a.mouse \cup {button}, a.down)
  <2>1. LegalEvent(a, e)
    BY <1>1, <1>2, <1>5 DEF LegalEvent
  <2> QED BY <1>1, <1>3, <1>5, <2>1 DEF Receives, Shown, AppState
<1>6. ASSUME action = "BUTTON_RELEASE", button \in a.mouse
      PROVE  Receives(a, e) = Shown(a.mouse \ {button}, a.down)
  <2>1. LegalEvent(a, e)
    BY <1>1, <1>2, <1>6 DEF LegalEvent
  <2> QED BY <1>1, <1>3, <1>6, <2>1 DEF Receives, Shown, AppState
<1>7. ASSUME action = "UP", a.down, a.mouse = {}
      PROVE  Receives(a, e) = Shown(a.mouse, FALSE)
  <2>1. LegalEvent(a, e)
    BY <1>1, <1>2, <1>7 DEF LegalEvent
  <2> QED BY <1>1, <1>3, <1>7, <2>1 DEF Receives, Shown, AppState
<1>8. ASSUME action = "HOVER_MOVE", ~a.down
      PROVE  Receives(a, e) = Shown(a.mouse, FALSE)
  <2>1. LegalEvent(a, e)
    BY <1>1, <1>2, <1>8 DEF LegalEvent
  <2> QED BY <1>1, <1>3, <1>8, <2>1 DEF Receives, Shown, AppState
<1>9. ASSUME action = "MOVE", a.down PROVE Receives(a, e) = Shown(a.mouse, TRUE)
  <2>1. LegalEvent(a, e)
    BY <1>1, <1>2, <1>9 DEF LegalEvent
  <2> QED BY <1>1, <1>3, <1>9, <2>1 DEF Receives, Shown, AppState
<1> QED BY <1>4, <1>5, <1>6, <1>7, <1>8, <1>9 DEF e, MouseEventIs

(* What is known when a message was injected and nothing excuses it.       *)
LEMMA Excuses ==
    ASSUME TouchInv, NEW action, NEW id, NEW button, NEW pressed,
           Touch(action, id, button, pressed), ~excused'
    PROVE  /\ ~excused /\ PointerIndex(id) # 0 /\ Inject(action, id, button, pressed)
           /\ last' = [last EXCEPT ![id] = IF Lifts(action, id, button, pressed)
                                           THEN "up" ELSE "down"]
           /\ IF IsReal(action, id, button, pressed) THEN app.touch = {} ELSE ~app.down
<1>1. PointerIndex(id) # 0 /\ Inject(action, id, button, pressed)
  BY DEF Touch, Inject
<1> QED BY <1>1, InjectIs

LEMMA FingerStep ==
    ASSUME TouchInv, NEW f \in Finger, NEW action \in {"DOWN", "MOVE", "UP"},
           Touch(action, f, "none", {}), buttons' = buttons,
           action = "DOWN" <=> f \notin held,
           held' = IF action = "UP" THEN held \ {f} ELSE held \cup {f}
    PROVE  GestureInv'
<1> SUFFICES ASSUME ~excused'
             PROVE  /\ \A g \in Finger : g \in held' <=> last'[g] = "down"
                    /\ buttons # {} <=> last'[Mouse] = "down"
                    /\ FingersShown' /\ "secondary" \notin buttons
  BY DEF GestureInv
<1>0. f # Mouse /\ f \in Pointer /\ Mouse \in Pointer /\ ~IsReal(action, f, "none", {})
  BY TouchOK DEF IsReal, Pointer
<1>1. /\ ~excused /\ PointerIndex(f) # 0 /\ Inject(action, f, "none", {}) /\ ~app.down
      /\ last' = [last EXCEPT ![f] = IF action = "UP" THEN "up" ELSE "down"]
  BY <1>0, Excuses DEF Lifts
<1>2. /\ \A g \in Finger : g \in held <=> last[g] = "down"
      /\ buttons # {} <=> last[Mouse] = "down"
      /\ FingersShown /\ "secondary" \notin buttons
  BY <1>1 DEF TouchInv, GestureInv, MouseShown
<1>3. last \in [Pointer -> {"up", "down"}] /\ TouchTypes /\ PointersInv
  BY DEF TouchInv, TouchTypes
<1>4. action = "DOWN" <=> last[f] = "up"
  BY <1>0, <1>2, <1>3
<1>5. FingersShown'
  BY <1>0, <1>1, <1>2, <1>3, <1>4, FingerEvent
<1>6. ASSUME NEW g \in Finger PROVE g \in held' <=> last'[g] = "down"
  <2>1. g \in Pointer
    BY DEF Pointer
  <2>2. CASE g = f
    BY <1>1, <1>3, <2>1, <2>2
  <2>3. CASE g # f
    BY <1>1, <1>2, <1>3, <2>1, <2>3
  <2> QED BY <2>2, <2>3
<1>7. last'[Mouse] = last[Mouse]
  BY <1>0, <1>1, <1>3
<1> QED BY <1>2, <1>5, <1>6, <1>7

(* The mouse.  A move has no button, and hovers if none is pressed.        *)
LEMMA MouseStep ==
    ASSUME TouchInv, TouchTypes', NEW action \in {"DOWN", "MOVE", "UP", "HOVER_MOVE"},
           NEW button \in MouseButton \cup {"none"},
           Touch(action, Mouse, button, buttons'), held' = held,
           action = "DOWN" => button \in MouseButton \ buttons /\ buttons' = buttons \cup {button},
           action = "UP" => button \in buttons /\ buttons' = buttons \ {button},
           action = "MOVE" => button = "none" /\ buttons # {} /\ buttons' = buttons,
           action = "HOVER_MOVE" => button = "none" /\ buttons = {} /\ buttons' = {}
    PROVE  GestureInv'
<1> SUFFICES ASSUME ~excused'
             PROVE  /\ \A g \in Finger : g \in held <=> last'[g] = "down"
                    /\ buttons' # {} <=> last'[Mouse] = "down"
                    /\ MouseShown' \/ (FingersShown' /\ "secondary" \notin buttons')
  BY DEF GestureInv
<1> DEFINE real == IsReal(action, Mouse, button, buttons')
<1>0. /\ Mouse \in Pointer /\ Mouse \notin Finger
      /\ last \in [Pointer -> {"up", "down"}] /\ TouchTypes /\ PointersInv
      /\ buttons \subseteq MouseButton /\ buttons' \subseteq MouseButton
  BY TouchOK DEF TouchInv, TouchTypes, Pointer
<1>1. /\ ~excused /\ PointerIndex(Mouse) # 0 /\ Inject(action, Mouse, button, buttons')
      /\ last' = [last EXCEPT ![Mouse] = IF Lifts(action, Mouse, button, buttons')
                                         THEN "up" ELSE "down"]
      /\ IF real THEN app.touch = {} ELSE ~app.down
  BY Excuses
<1>2. /\ \A g \in Finger : g \in held <=> last[g] = "down"
      /\ buttons # {} <=> last[Mouse] = "down"
      /\ MouseShown \/ (FingersShown /\ "secondary" \notin buttons)
  BY <1>1 DEF TouchInv, GestureInv
<1>3. real <=> action = "HOVER_MOVE" \/ button = "secondary" \/ "secondary" \in buttons'
  BY DEF IsReal
<1>4. \A g \in Finger : g \in held <=> last'[g] = "down"
  <2> SUFFICES ASSUME NEW g \in Finger PROVE g \in held <=> last'[g] = "down"
    OBVIOUS
  <2>1. last'[g] = last[g]
    BY <1>0, <1>1 DEF Pointer
  <2> QED BY <1>2, <2>1
<1>5. CASE ~real
  <2>1. FingersShown /\ "secondary" \notin buttons' /\ button # "secondary"
    BY <1>1, <1>2, <1>3, <1>5 DEF MouseShown
  <2>2. action \in {"DOWN", "MOVE", "UP"} /\ Lifts(action, Mouse, button, buttons') = (action = "UP")
    BY <1>3, <1>5 DEF Lifts
  <2>3. buttons \subseteq {"primary"} /\ buttons' \subseteq {"primary"}
    BY <1>0, <1>2, <1>3, <1>5, <2>1, <2>2 DEF MouseButton, MouseShown, FingersShown
  <2>4. action = "DOWN" <=> last[Mouse] = "up"
    BY <1>0, <1>2, <2>1, <2>2, <2>3 DEF MouseButton
  <2>5. FingersShown'
    BY <1>0, <1>1, <1>5, <2>1, <2>2, <2>4, FingerEvent
  <2>6. buttons' # {} <=> action # "UP"
    BY <2>2, <2>3
  <2>7. last'[Mouse] = IF action = "UP" THEN "up" ELSE "down"
    BY <1>0, <1>1, <2>2
  <2> QED BY <1>4, <2>1, <2>5, <2>6, <2>7
<1>6. CASE real
  <2> DEFINE list == Listed(Mouse, buttons' = {})
             k == PointerIndex(Mouse)
             events == MouseEvents(action, button, buttons')
  <2>1. /\ app.touch = {}
        /\ list \in Seq(Point) /\ Distinct(list) /\ Len(list) = 1
        /\ tools'[1] = "mouse"
        /\ buttons' = {} => Len(pointers') = 0 /\ LocalIds(pointers') = {}
        /\ buttons' # {} => Len(pointers') = 1 /\ pointers'[1].id = Mouse
        /\ app' = ReceivesAll(app, events)
    <3>1. TouchTypes /\ PointersInv /\ Inject(action, Mouse, button, buttons')
          /\ PointerIndex(Mouse) # 0 /\ IsReal(action, Mouse, button, buttons') /\ ~excused'
      BY <1>0, <1>1, <1>6
    <3> QED BY <3>1, MouseAlone
  <2>2. last'[Mouse] = IF buttons' = {} THEN "up" ELSE "down"
    BY <1>0, <1>1, <1>6 DEF Lifts
  <2> HIDE DEF list, k
  (* Nothing else is down, so that the application sees the mouse pressed   *)
  (* exactly when it is.                                                    *)
  <2>3. app.down <=> buttons # {}
    <3>1. CASE MouseShown
      <4>1. \E i \in 1..Len(pointers) : pointers[i].id = Mouse
        BY <3>1 DEF MouseShown
      <4> QED BY <1>0, <1>2, <3>1, <4>1 DEF MouseShown, PointersInv
    <3>2. CASE FingersShown
      <4>1. LocalIds(pointers) = {} /\ DOMAIN pointers = 1..Len(pointers)
        BY <1>0, <2>1, <3>2, LenProperties DEF FingersShown, TouchTypes
      <4>2. ~\E i \in 1..Len(pointers) : pointers[i].id = Mouse
        BY <4>1 DEF LocalIds
      <4> QED BY <1>0, <1>2, <3>2, <4>2 DEF FingersShown, PointersInv
    <3> QED BY <1>2, <3>1, <3>2
  <2>4. app \in AppState /\ app.legal /\ app.touch = {} /\ app.mouse = buttons
    BY <1>2, <2>1, <2>3 DEF MouseShown, FingersShown
  <2>5. app.mouse \subseteq MouseButton /\ button \in MouseButton \cup {"none"}
    BY <1>0, <2>4
  <2>6. \A mouse, isDown : mouse \subseteq MouseButton /\ isDown \in BOOLEAN =>
            Shown(mouse, isDown) \in AppState
    BY DEF Shown, AppState
  <2>r. ASSUME NEW a \in AppState, a.legal, a.touch = {}, NEW act
        PROVE  MouseEventIs(a, act, list, k, button)
    BY <2>1, <2>5, <2>r, MouseReceives
  <2>s. \A act : MouseEventIs(app, act, list, k, button)
    BY <2>4, <2>r
  <2>7. app' = Shown(buttons', buttons' # {})
    <3>1. CASE action = "HOVER_MOVE"
      <4>1. Len(events) = 1 /\ events[1] = Event("mouse", "HOVER_MOVE", list, k, button)
        BY <3>1 DEF MouseEvents, list, k
      <4> HIDE DEF events
      <4>2. app' = Receives(app, Event("mouse", "HOVER_MOVE", list, k, button))
        BY <2>1, <4>1, ReceivesOne
      <4> QED BY <2>1, <2>3, <2>4, <2>s, <3>1, <4>2 DEF MouseEventIs
    <3>2. CASE action = "MOVE"
      <4>1. Len(events) = 1 /\ events[1] = Event("mouse", "MOVE", list, k, button)
        BY <3>2 DEF MouseEvents, list, k
      <4> HIDE DEF events
      <4>2. app' = Receives(app, Event("mouse", "MOVE", list, k, button))
        BY <2>1, <4>1, ReceivesOne
      <4> QED BY <2>1, <2>3, <2>4, <2>s, <3>2, <4>2 DEF MouseEventIs
    <3>3. CASE action = "DOWN" /\ buttons = {}
      <4>1. buttons' = {button} /\ button \in MouseButton
        BY <3>3
      <4>2. /\ Len(events) = 2 /\ events[1] = Event("mouse", "DOWN", list, k, button)
            /\ events[2] = Event("mouse", "BUTTON_PRESS", list, k, button)
        BY <3>3, <4>1 DEF MouseEvents, MouseActions, list, k
      <4> HIDE DEF events
      <4>3. Receives(app, events[1]) = Shown({}, TRUE)
        BY <2>1, <2>3, <2>4, <2>s, <3>3, <4>2 DEF MouseEventIs
      <4>4. Shown({}, TRUE) \in AppState
        BY <2>6
      <4>5. Receives(Shown({}, TRUE), events[2]) = Shown({button}, TRUE)
        <5> DEFINE a == Shown({}, TRUE)
        <5>1. /\ a \in AppState /\ a.legal /\ a.touch = {} /\ a.mouse = {} /\ a.down = TRUE
          BY <4>4 DEF Shown
        <5> HIDE DEF a
        <5>2. button \in MouseButton \ a.mouse /\ a.mouse \cup {button} = {button}
          BY <4>1, <5>1
        <5>3. Receives(a, events[2]) = Shown(a.mouse \cup {button}, a.down)
          BY <2>r, <4>2, <5>1, <5>2 DEF MouseEventIs
        <5> QED BY <5>1, <5>2, <5>3 DEF a
      <4> QED BY <2>1, <4>1, <4>2, <4>3, <4>5, ReceivesTwo
    <3>4. CASE action = "DOWN" /\ buttons # {}
      <4>1. buttons' # {button} /\ button \in MouseButton \ app.mouse /\ app.down
        BY <2>3, <2>4, <3>4
      <4>2. /\ Len(events) = 1 /\ events[1] = Event("mouse", "BUTTON_PRESS", list, k, button)
        BY <3>4, <4>1 DEF MouseEvents, MouseActions, list, k
      <4> HIDE DEF events
      <4>3. app' = Receives(app, Event("mouse", "BUTTON_PRESS", list, k, button))
        BY <2>1, <4>2, ReceivesOne
      <4>4. app' = Shown(app.mouse \cup {button}, app.down)
        BY <2>1, <2>4, <2>s, <4>1, <4>3 DEF MouseEventIs
      <4>5. app.down = TRUE /\ buttons' # {} /\ buttons' = app.mouse \cup {button}
        BY <2>4, <3>4, <4>1 DEF AppState
      <4> QED BY <4>4, <4>5
    <3>5. CASE action = "UP" /\ buttons' # {}
      <4>1. /\ Len(events) = 1 /\ events[1] = Event("mouse", "BUTTON_RELEASE", list, k, button)
        BY <3>5 DEF MouseEvents, MouseActions, list, k
      <4> HIDE DEF events
      <4>2. app' = Receives(app, Event("mouse", "BUTTON_RELEASE", list, k, button))
        BY <2>1, <4>1, ReceivesOne
      <4>3. app' = Shown(app.mouse \ {button}, app.down)
        BY <2>1, <2>4, <2>s, <3>5, <4>2 DEF MouseEventIs
      <4>4. app.down = TRUE /\ buttons' = app.mouse \ {button}
        BY <2>3, <2>4, <3>5 DEF AppState
      <4> QED BY <3>5, <4>3, <4>4
    <3>6. CASE action = "UP" /\ buttons' = {}
      <4>1. /\ Len(events) = 2 /\ events[1] = Event("mouse", "BUTTON_RELEASE", list, k, button)
            /\ events[2] = Event("mouse", "UP", list, k, button)
        BY <3>6 DEF MouseEvents, MouseActions, list, k
      <4> HIDE DEF events
      <4>2. Receives(app, events[1]) = Shown(app.mouse \ {button}, app.down)
        BY <2>1, <2>4, <2>s, <3>6, <4>1 DEF MouseEventIs
      <4>3. app.down = TRUE /\ app.mouse \ {button} = {}
        BY <2>3, <2>4, <3>6 DEF AppState
      <4>4. Receives(app, events[1]) = Shown({}, TRUE)
        BY <4>2, <4>3
      <4>5. Receives(Shown({}, TRUE), events[2]) = Shown({}, FALSE)
        <5> DEFINE a == Shown({}, TRUE)
        <5>1. /\ a \in AppState /\ a.legal /\ a.touch = {} /\ a.mouse = {} /\ a.down = TRUE
          BY <2>6 DEF Shown
        <5> HIDE DEF a
        <5>2. Receives(a, events[2]) = Shown(a.mouse, FALSE)
          BY <2>r, <4>1, <5>1 DEF MouseEventIs
        <5> QED BY <5>1, <5>2 DEF a
      <4> QED BY <2>1, <3>6, <4>1, <4>4, <4>5, ReceivesTwo
    <3> QED BY <3>1, <3>2, <3>3, <3>4, <3>5, <3>6
  <2>8. /\ app' \in AppState /\ app'.legal /\ app'.touch = {}
        /\ app'.mouse = buttons' /\ app'.down = (buttons' # {})
    <3>1. Shown(buttons', buttons' # {}) \in AppState
      BY <1>0, <2>6
    <3> QED BY <2>7, <3>1 DEF Shown
  <2>9. CASE buttons' = {}
    <3>1. FingersShown'
      <4>1. app'.touch = LocalIds(pointers') /\ app'.mouse = {} /\ ~app'.down
        BY <2>1, <2>8, <2>9
      <4>2. \A i \in 1..Len(pointers') : tools'[i] = "finger"
        BY <2>1, <2>9
      <4> QED BY <2>8, <4>1, <4>2 DEF FingersShown
    <3> QED BY <1>4, <2>2, <2>9, <3>1
  <2>10. CASE buttons' # {}
    <3>1. MouseShown'
      BY <2>1, <2>8, <2>10 DEF MouseShown
    <3> QED BY <1>4, <2>2, <2>10, <3>1
  <2> QED BY <2>9, <2>10
<1> QED BY <1>5, <1>6

LEMMA TouchStarts == TouchInit => TouchInv
<1> SUFFICES ASSUME TouchInit PROVE TouchInv
  OBVIOUS
<1>0. MaxPointers \in Nat \ {0} /\ Mouse \in Pointer /\ Finger \subseteq Pointer
  BY TouchOK DEF Pointer
<1>1. pointers = <<>> /\ Len(pointers) = 0 /\ pointers \in Seq(Point) /\ DOMAIN pointers = {}
  BY DEF TouchInit
<1>2. TouchTypes
  <2>1. tools \in [1..MaxPointers -> {"finger", "mouse"}] /\ last \in [Pointer -> {"up", "down"}]
    BY DEF TouchInit
  <2>2. held \subseteq Finger /\ buttons \subseteq MouseButton /\ excused \in BOOLEAN
    BY DEF TouchInit
  <2> QED BY <1>0, <1>1, <2>1, <2>2 DEF TouchTypes
<1>3. PointersInv
  BY <1>1 DEF TouchInit, PointersInv, Distinct
<1>4. GestureInv
  <2>1. LocalIds(pointers) = {}
    BY <1>1 DEF LocalIds
  <2> QED BY <1>0, <1>1, <2>1 DEF TouchInit, GestureInv, FingersShown, AppState
<1> QED BY <1>2, <1>3, <1>4 DEF TouchInv

LEMMA TouchStep == TouchInv /\ [TouchNext]_touchVars => TouchInv'
<1> SUFFICES ASSUME TouchInv, [TouchNext]_touchVars PROVE TouchInv'
  OBVIOUS
<1> USE DEF TouchInv
<1>0. /\ held \subseteq Finger /\ buttons \subseteq MouseButton
      /\ Mouse \in Pointer /\ Finger \subseteq Pointer
  BY DEF TouchTypes, Pointer
<1>t. ASSUME NEW action, NEW id \in Pointer, NEW button, NEW pressed,
             Touch(action, id, button, pressed),
             held' \subseteq Finger, buttons' \subseteq MouseButton
      PROVE  TouchTypes' /\ PointersInv'
  <2>1. /\ pointers' \in Seq(Point) /\ Len(pointers') <= MaxPointers
        /\ \A i \in 1..Len(pointers') : ~pointers'[i].up
        /\ tools' \in [1..MaxPointers -> {"finger", "mouse"}]
        /\ last' \in [Pointer -> {"up", "down"}]
        /\ PointersInv'
    BY <1>t, InjectTypes
  <2>2. excused' \in BOOLEAN
    BY <1>t DEF Touch, Inject, TouchTypes
  <2> QED BY <1>t, <2>1, <2>2 DEF TouchTypes
<1>1. ASSUME NEW f \in Finger, FingerDown(f) PROVE TouchInv'
  <2>1. /\ Touch("DOWN", f, "none", {}) /\ f \in Pointer /\ buttons' = buttons
        /\ f \notin held /\ held' = held \cup {f}
    BY <1>0, <1>1 DEF FingerDown
  <2>2. TouchTypes' /\ PointersInv'
    BY <1>0, <1>t, <2>1
  <2>3. GestureInv'
    BY <2>1, FingerStep
  <2> QED BY <2>2, <2>3
<1>2. ASSUME NEW f \in Finger, FingerMove(f) PROVE TouchInv'
  <2>1. /\ Touch("MOVE", f, "none", {}) /\ f \in Pointer /\ buttons' = buttons
        /\ f \in held /\ held' = held
    BY <1>0, <1>2 DEF FingerMove
  <2>2. TouchTypes' /\ PointersInv'
    BY <1>0, <1>t, <2>1
  <2>3. held' = held \cup {f}
    BY <2>1
  <2>4. GestureInv'
    BY <2>1, <2>3, FingerStep
  <2> QED BY <2>2, <2>4
<1>3. ASSUME NEW f \in Finger, FingerUp(f) PROVE TouchInv'
  <2>1. /\ Touch("UP", f, "none", {}) /\ f \in Pointer /\ buttons' = buttons
        /\ f \in held /\ held' = held \ {f}
    BY <1>0, <1>3 DEF FingerUp
  <2>2. TouchTypes' /\ PointersInv'
    BY <1>0, <1>t, <2>1
  <2>3. GestureInv'
    BY <2>1, FingerStep
  <2> QED BY <2>2, <2>3
<1>4. ASSUME NEW b \in MouseButton, ButtonDown(b) PROVE TouchInv'
  <2>1. /\ Touch("DOWN", Mouse, b, buttons') /\ held' = held
        /\ b \in MouseButton \ buttons /\ buttons' = buttons \cup {b}
    BY <1>4 DEF ButtonDown
  <2>2. TouchTypes' /\ PointersInv'
    BY <1>0, <1>t, <2>1
  <2>3. GestureInv'
    BY <2>1, <2>2, MouseStep
  <2> QED BY <2>2, <2>3
<1>5. ASSUME NEW b \in MouseButton, ButtonUp(b) PROVE TouchInv'
  <2>1. /\ Touch("UP", Mouse, b, buttons') /\ held' = held
        /\ b \in buttons /\ buttons' = buttons \ {b}
    BY <1>5 DEF ButtonUp
  <2>2. TouchTypes' /\ PointersInv'
    BY <1>0, <1>t, <2>1
  <2>3. GestureInv'
    BY <2>1, <2>2, MouseStep
  <2> QED BY <2>2, <2>3
<1>6. ASSUME MouseMove PROVE TouchInv'
  <2>1. buttons' = buttons /\ held' = held
    BY <1>6 DEF MouseMove
  <2>2. CASE buttons = {}
    <3>1. Touch("HOVER_MOVE", Mouse, "none", buttons')
      BY <1>6, <2>1, <2>2 DEF MouseMove
    <3>2. TouchTypes' /\ PointersInv'
      BY <1>0, <1>t, <2>1, <3>1
    <3>3. GestureInv'
      BY <2>1, <2>2, <3>1, <3>2, MouseStep
    <3> QED BY <3>2, <3>3
  <2>3. CASE buttons # {}
    <3>1. Touch("MOVE", Mouse, "none", buttons')
      BY <1>6, <2>1, <2>3 DEF MouseMove
    <3>2. TouchTypes' /\ PointersInv'
      BY <1>0, <1>t, <2>1, <3>1
    <3>3. GestureInv'
      BY <2>1, <2>3, <3>1, <3>2, MouseStep
    <3> QED BY <3>2, <3>3
  <2> QED BY <2>2, <2>3
<1>7. CASE UNCHANGED touchVars
  BY <1>7 DEF touchVars, TouchTypes, PointersInv, Distinct, GestureInv,
      MouseShown, FingersShown,
              LocalIds
<1> QED BY <1>1, <1>2, <1>3, <1>4, <1>5, <1>6, <1>7 DEF TouchNext

LEMMA TouchHolds == TouchInv => TouchTypeOK /\ TouchesAreFaithful
<1> SUFFICES ASSUME TouchInv PROVE TouchTypeOK /\ TouchesAreFaithful
  OBVIOUS
<1>0. /\ pointers \in Seq(Point) /\ Distinct(pointers)
      /\ DOMAIN pointers = 1..Len(pointers)
  BY LenProperties DEF TouchInv, TouchTypes, PointersInv
<1>1. TouchTypeOK
  <2>1. ASSUME NEW i \in DOMAIN pointers
        PROVE  /\ pointers[i].id \in Pointer /\ ~pointers[i].up
               /\ pointers[i].local \in 0..MaxPointers - 1
    <3>1. pointers[i] \in Point
      BY <1>0, ElementOfSeq
    <3> QED BY <1>0, <3>1 DEF Point, Slot, TouchInv, TouchTypes
  <2> QED BY <2>1 DEF TouchTypeOK, TouchInv, TouchTypes
<1>2. PointersAreTheLastSeen
  <2>1. IsInjective([i \in DOMAIN pointers |-> pointers[i].id])
    BY <1>0 DEF IsInjective, Distinct
  <2>2. Cardinality(LocalIds(pointers)) = Len(pointers)
    BY <1>0, LocalsCount
  <2>3. {pointers[i].id : i \in DOMAIN pointers} = {id \in Pointer : last[id] = "down"}
    <3>1. \A i \in DOMAIN pointers : pointers[i].id \in Pointer
      BY <1>1 DEF TouchTypeOK
    <3> QED BY <1>0, <3>1 DEF TouchInv, PointersInv
  <2> QED BY <2>1, <2>2, <2>3 DEF PointersAreTheLastSeen
<1>3. GesturesAreLegal
  BY DEF TouchInv, GestureInv, MouseShown, FingersShown, GesturesAreLegal
<1> QED BY <1>1, <1>2, <1>3 DEF TouchesAreFaithful

--------------------------------------------------------------------------------
(* Capture: who is out of date is going to be told                         *)

VideoPc == {"init", "loop", "prepare", "set", "start", "publish", "check", "session",
            "encode", "alive", "finish", "release", "ended"}
Reason == {"terminated", "display", "reset", "resized"}
Seen == {<<>>} \cup {<<p>> : p \in Property}

MonitorState == [on : BOOLEAN, events : Nat, props : Seen,
                 pc : {"idle", "exchange", "notify"}, read : Seen]
VideoState == [pc : VideoPc, consumed : SUBSET Reason, retained : SUBSET Reason,
               read : Property, alive : BOOLEAN, created : BOOLEAN]
ResizeState == [request : Seen, taken : Seen, pending : Seq(Property),
                asked : SUBSET Property]

CaptureTypes ==
    /\ source \in CaptureSetups
    /\ display \in Property
    /\ monitor \in MonitorState
    /\ reasons \subseteq Reason
    /\ video \in VideoState
    /\ resize \in ResizeState
    /\ raced \in BOOLEAN

-------------------------------------------------------------------------------
(* The display that was read for the session that is prepared or encoded   *)

Prepared == {"set", "start", "publish", "check", "session", "encode", "alive", "finish"}

(* The monitor watches whenever the display may change and a session       *)
(* depends on it.                                                          *)
Watched ==
    /\ source.source = "screen" => (monitor.on <=> video.pc \notin {"init", "ended"})
    /\ source.source = "new" => (monitor.on <=> video.created /\ ~Ended)
    /\ source.source = "camera" => ~monitor.on /\ monitor.pc = "idle"
    /\ source.source = "new" /\ ~video.created => monitor.pc = "idle"
    /\ video.pc = "init" => ~video.created /\ monitor.pc = "idle"
    /\ video.pc = "set" => source.source = "screen"

(* The monitor has still to look at the display, or has something to say;  *)
(* the thread has been told, or is about to be.                            *)
Coming == monitor.events > 0 \/ monitor.pc = "exchange"
Told == monitor.pc = "notify" \/ reasons # {}

(* What the monitor has read is the display, or there is another event.    *)
ReadIsLast == monitor.pc = "exchange" /\ monitor.on =>
                  monitor.read \in {<<display>>, <<>>} \/ monitor.events > 0

(* A session that is out of date is going to be reset, but for a race.     *)
Current == video.pc \in Prepared /\ ~raced => video.read = display \/ Coming \/ Told

(* The monitor of a screen compares with what the session has read.        *)
KnownToMonitor == source.source = "screen" /\ video.pc \in Prepared \ {"set"} =>
             monitor.props = <<video.read>> \/ Told

CurrentInv == Watched /\ ReadIsLast /\ Current /\ KnownToMonitor

-------------------------------------------------------------------------------
(* The sessions announced as the client's own resize                       *)

Asked == {<<p>> : p \in resize.asked}
ByClient(set) == "resized" \in set /\ "display" \notin set

(* What the debouncer and the tracker hold was asked by the client.        *)
WereAsked ==
    /\ resize.request \in Asked \cup {<<>>} /\ resize.taken \in Asked \cup {<<>>}
    /\ \A i \in DOMAIN resize.pending : resize.pending[i] \in resize.asked

(* Only a new display that exists is resized by the client.                *)
OnlyNew == source.source # "new" \/ ~video.created =>
               "resized" \notin reasons \cup video.consumed \cup video.retained

(* What the monitor of a new display tells is what it knows ...            *)
Notifies == source.source = "new" /\ monitor.pc = "notify" => monitor.props = monitor.read

(* ... and what it knows is the display, unless it is going to look again. *)
Knows == source.source = "new" /\ ~Ended /\ (video.created \/ video.pc \in Prepared) =>
             monitor.props \in {<<display>>, <<>>} \/ Coming

(* When the only change that was told is a resize by the client, what the  *)
(* monitor knows is a size that the client asked for, until it says more.  *)
Origin(consumed) == ByClient(reasons \cup consumed) =>
                        monitor.props \in Asked \/ monitor.pc = "notify"
Origins == video.pc \notin {"release", "ended"} =>
               Origin({}) /\ Origin(video.consumed) /\ Origin(video.retained)

Announced == video.pc = "encode" =>
                 session = [props |-> video.read, client |-> IsClientResize(video.consumed)]

ClientInv == WereAsked /\ OnlyNew /\ Notifies /\ Knows /\ Origins /\ Announced

-------------------------------------------------------------------------------

(* The kinds of capture.                                                   *)
LEMMA Sources ==
    ASSUME CaptureTypes
    PROVE  source.source \in {"screen", "new", "camera"}
  BY CaptureOK DEF CaptureTypes, CaptureOK

LEMMA NewDisplay ==
    ASSUME CaptureTypes
    PROVE  [video EXCEPT !.created = TRUE] \in VideoState
  BY DEF CaptureTypes, VideoState

(* Another attempt keeps what was read and its reasons.                    *)
LEMMA RetryTypes ==
    ASSUME CaptureTypes, NEW v \in VideoState, Retry(v)
    PROVE  /\ video' \in VideoState /\ video'.pc = "finish" /\ video'.created = v.created
           /\ video'.read = v.read /\ video'.consumed = v.consumed
           /\ video'.retained \in {v.retained, v.consumed}
  BY DEF CaptureTypes, Retry, VideoState, VideoPc

LEMMA SeenValues == <<>> \in Seen /\ \A p \in Property : <<p>> \in Seen
  BY DEF Seen

(* The tracker only forgets requests.                                      *)
LEMMA ChangedTypes ==
    ASSUME CaptureTypes, OnChanged
    PROVE  /\ resize' \in ResizeState
           /\ resize'.request \in {<<>>, resize.request} /\ resize'.taken = resize.taken
           /\ resize'.asked = resize.asked
           /\ \A i \in DOMAIN resize'.pending :
                 \E j \in DOMAIN resize.pending : resize'.pending[i] = resize.pending[j]
<1> USE DEF CaptureTypes, ResizeState
<1>0. <<>> \in Seen
  BY DEF Seen
<1>1. PICK expired \in 0..Len(resize.pending) :
        LET pending == SubSeq(resize.pending, expired + 1, Len(resize.pending))
            found == Tracked(pending, monitor.read)
        IN  \/ \E first \in found :
                  resize' = [resize EXCEPT !.pending =
                                SubSeq(pending, first + 1, Len(pending))]
            \/ resize' = [resize EXCEPT !.pending = pending, !.request = <<>>]
  BY DEF OnChanged
<1> DEFINE pending == SubSeq(resize.pending, expired + 1, Len(resize.pending))
<1>2. /\ pending \in Seq(Property) /\ Len(pending) = Len(resize.pending) - expired
      /\ \A i \in 1..Len(pending) : pending[i] = resize.pending[i + expired]
  BY SubSeqProperties
<1>3. CASE resize' = [resize EXCEPT !.pending = pending, !.request = <<>>]
  <2>1. \A i \in DOMAIN pending :
           \E j \in DOMAIN resize.pending : pending[i] = resize.pending[j]
    BY <1>2
  <2>2. resize'.pending = pending
    BY <1>3
  <2>3. \A i \in DOMAIN resize'.pending :
           \E j \in DOMAIN resize.pending : resize'.pending[i] = resize.pending[j]
    BY <2>1, <2>2
  <2> QED
    BY <1>0, <1>2, <1>3, <2>3
<1>4. ASSUME NEW first \in Tracked(pending, monitor.read),
             resize' = [resize EXCEPT !.pending =
                           SubSeq(pending, first + 1, Len(pending))]
      PROVE  /\ resize' \in ResizeState
             /\ resize'.request = resize.request /\ resize'.taken = resize.taken
             /\ resize'.asked = resize.asked
             /\ \A i \in DOMAIN resize'.pending :
                   \E j \in DOMAIN resize.pending : resize'.pending[i] = resize.pending[j]
  <2> DEFINE rest == SubSeq(pending, first + 1, Len(pending))
  <2>1. first \in 1..Len(pending)
    BY <1>2 DEF Tracked
  <2>2. /\ rest \in Seq(Property) /\ Len(rest) = Len(pending) - first
        /\ \A i \in 1..Len(rest) : rest[i] = pending[i + first]
    <3>1. Len(pending) \in Nat /\ first + 1 \in 1..Len(pending) + 1
      BY <1>2, <2>1
    <3> HIDE DEF pending
    <3> QED BY <1>2, <2>1, <3>1, SubSeqProperties
  <2>3. resize'.pending = rest
    BY <1>4
  <2> QED
    <3>1. ASSUME NEW i \in 1..Len(rest)
          PROVE  rest[i] \in {resize.pending[j] : j \in DOMAIN resize.pending}
      <4>1. i + first \in 1..Len(pending)
        BY <2>1, <2>2
      <4>2. (i + first) + expired \in 1..Len(resize.pending)
        BY <1>2, <4>1
      <4>3. rest[i] = resize.pending[(i + first) + expired]
        BY <1>2, <2>2, <4>1
      <4>4. DOMAIN resize.pending = 1..Len(resize.pending)
        OBVIOUS
      <4> HIDE DEF rest
      <4> QED
        BY <4>2, <4>3, <4>4
    <3>2. DOMAIN rest = 1..Len(rest)
      BY <2>2
    <3>3. \A i \in DOMAIN resize'.pending :
             \E j \in DOMAIN resize.pending : resize'.pending[i] = resize.pending[j]
      BY <2>3, <3>1, <3>2
    <3> QED
      BY <1>4, <2>2, <2>3, <3>3
<1> QED
  BY <1>1, <1>3, <1>4

(* Every step keeps the types.                                             *)
LEMMA CaptureTypesStep ==
    ASSUME CaptureTypes, CaptureNext
    PROVE  CaptureTypes'
<1> USE DEF CaptureTypes, outside, ButVideo, ButMonitor, Unresized, Unwatched, Goto,
           Video, Reset, Notified, VideoPc, Reason, VideoState, MonitorState
<1>1. CASE InitCapture
  BY <1>1 DEF InitCapture
<1>2. CASE ConsumeReset
  BY <1>2 DEF ConsumeReset
<1>3. CASE Prepare
  BY <1>3, SeenValues DEF Prepare
<1>4. CASE SetSessionDisplayProperties
  BY <1>4, SeenValues DEF SetSessionDisplayProperties
<1>5. CASE StartEncoding
  <2> USE <1>5 DEF StartEncoding
  <2>1. video' \in VideoState
    <3>1. CASE video' = [video EXCEPT !.pc = "publish", !.created = TRUE]
      BY <3>1 DEF VideoState, VideoPc
    <3>2. ASSUME NEW v \in {video, [video EXCEPT !.created = TRUE]}, Retry(v)
          PROVE  video' \in VideoState
      <4>1. v \in VideoState
        BY NewDisplay
      <4> QED
        BY <3>2, <4>1, RetryTypes
    <3>3. CASE video' = [video EXCEPT !.pc = "finish", !.alive = FALSE]
      BY <3>3 DEF VideoState, VideoPc
    <3> QED
      BY <3>1, <3>2, <3>3
  <2>2. monitor' \in MonitorState
    BY <2>1 DEF MonitorState, VideoState
  <2> QED
    BY <2>1, <2>2
<1>6. CASE Publish
  BY <1>6 DEF Publish
<1>7. CASE CheckStopped
  <2>1. CASE stopping = "no"
    BY <1>7, <2>1 DEF CheckStopped
  <2>2. CASE video' = [video EXCEPT !.pc = "finish", !.alive = FALSE]
    BY <1>7, <2>2 DEF CheckStopped
  <2> QED
    BY <1>7, <2>1, <2>2 DEF CheckStopped
<1>8. CASE EncodeEnds
  BY <1>8 DEF EncodeEnds
<1>9. CASE CheckAlive
  BY <1>9 DEF CheckAlive
<1>10. CASE Finish
  BY <1>10 DEF Finish
<1>11. CASE WriteSession
  BY <1>11 DEF WriteSession
<1>12. CASE BrokenPipe
  BY <1>12 DEF BrokenPipe
<1>13. CASE EncodeFrame
  BY <1>13 DEF EncodeFrame
<1>14. CASE Release
  <2>1. monitor' \in MonitorState /\ video' \in VideoState
    BY <1>14 DEF Release
  <2>2. resize' \in ResizeState
    BY <1>14, SeenValues DEF Release, ResizeState
  <2> QED
    BY <1>14, <2>1, <2>2 DEF Release
<1>15. CASE EncodeFails
  BY <1>15, RetryTypes DEF EncodeFails
<1>16. CASE MonitorRead
  <2>1. PICK read \in {<<display>>, <<>>} :
          monitor' = [monitor EXCEPT !.pc = "exchange", !.events = monitor.events - 1,
                                     !.read = read]
    BY <1>16 DEF MonitorRead
  <2>2. read \in Seen /\ monitor.events - 1 \in Nat
    BY <1>16, SeenValues DEF MonitorRead
  <2>3. monitor' \in MonitorState
    BY <2>1, <2>2
  <2> QED
    BY <1>16, <2>3 DEF MonitorRead
<1>17. CASE MonitorExchange
  BY <1>17 DEF MonitorExchange
<1>18. CASE MonitorNotify
  <2>1. monitor' \in MonitorState /\ reasons' \subseteq Reason
    BY <1>18 DEF MonitorNotify, OnChanged, MonitorState, Reason
  <2>2. CASE source.source = "new"
    BY <1>18, <2>1, <2>2, ChangedTypes DEF MonitorNotify
  <2>3. CASE source.source # "new"
    BY <1>18, <2>1, <2>3 DEF MonitorNotify
  <2> QED
    BY <2>2, <2>3
<1>19. CASE TakeRequest
  BY <1>19, SeenValues DEF TakeRequest, ResizeState
<1>20. CASE TriggerResize
  <2>1. PICK p \in Property : resize.taken = <<p>>
    BY <1>20 DEF TriggerResize, Seen, ResizeState
  <2>2. /\ resize.pending \o <<p>> \in Seq(Property) /\ resize.pending \in Seq(Property)
        /\ <<p>>[1] = p
    BY DEF ResizeState
  <2>3. resize' \in ResizeState
    BY <1>20, <2>1, <2>2, SeenValues DEF TriggerResize, ResizeState
  <2>4. display' \in Property /\ monitor' \in MonitorState
    BY <1>20, <2>1, <2>2 DEF TriggerResize
  <2> QED
    BY <1>20, <2>3, <2>4 DEF TriggerResize
<1>21. CASE ClientResets \/ CameraCloses \/ SetStopped \/ StopCapture
  BY <1>21 DEF ClientResets, CameraCloses, SetStopped, StopCapture
<1>22. ASSUME NEW p \in Property, DisplayChanges(p)
      PROVE  CaptureTypes'
  BY <1>22 DEF DisplayChanges
<1>23. ASSUME NEW p \in Property, RequestResize(p)
      PROVE  CaptureTypes'
  BY <1>23, SeenValues DEF RequestResize, ResizeState
<1> QED
  BY <1>1, <1>2, <1>3, <1>4, <1>5, <1>6, <1>7, <1>8, <1>9, <1>10, <1>11, <1>12,
     <1>13, <1>14, <1>15, <1>16, <1>17, <1>18, <1>19, <1>20, <1>21, <1>22, <1>23
     DEF CaptureNext, VideoThread, Encoding, MonitorThread, Debouncer

(* Every step keeps the monitor on as long as it is needed.                *)
LEMMA WatchedStep ==
    ASSUME CaptureTypes, Watched, CaptureNext
    PROVE  Watched'
<1> USE DEF CaptureTypes, Watched, Ended, outside, ButVideo, ButMonitor, Unresized,
           Unwatched, Goto, Video, Reset, Notified, VideoState, MonitorState
<1>1. CASE InitCapture
  BY <1>1 DEF InitCapture
<1>2. CASE ConsumeReset
  BY <1>2 DEF ConsumeReset
<1>3. CASE Prepare
  BY <1>3 DEF Prepare
<1>4. CASE SetSessionDisplayProperties
  BY <1>4 DEF SetSessionDisplayProperties
<1>5. CASE StartEncoding
  <2> USE <1>5 DEF StartEncoding
  <2>1. CASE video' = [video EXCEPT !.pc = "publish", !.created = TRUE]
    BY <2>1
  <2>2. CASE Retry(video)
    BY <2>2, RetryTypes
  <2>3. CASE Retry([video EXCEPT !.created = TRUE])
    BY <2>3, RetryTypes, NewDisplay
  <2>4. CASE video' = [video EXCEPT !.pc = "finish", !.alive = FALSE]
    BY <2>4
  <2> QED
    BY <2>1, <2>2, <2>3, <2>4
<1>6. CASE Publish
  BY <1>6 DEF Publish
<1>7. CASE CheckStopped
  BY <1>7 DEF CheckStopped
<1>8. CASE EncodeEnds
  BY <1>8 DEF EncodeEnds
<1>9. CASE CheckAlive
  BY <1>9 DEF CheckAlive
<1>10. CASE Finish
  BY <1>10 DEF Finish
<1>11. CASE WriteSession
  BY <1>11 DEF WriteSession
<1>12. CASE BrokenPipe
  BY <1>12 DEF BrokenPipe
<1>13. CASE EncodeFrame
  BY <1>13 DEF EncodeFrame
<1>14. CASE Release
  BY <1>14 DEF Release
<1>15. CASE EncodeFails
  BY <1>15, RetryTypes DEF EncodeFails
<1>16. CASE MonitorRead
  BY <1>16, Sources DEF MonitorRead
<1>17. CASE MonitorExchange
  BY <1>17 DEF MonitorExchange
<1>18. CASE MonitorNotify
  BY <1>18 DEF MonitorNotify
<1>19. CASE TakeRequest
  BY <1>19 DEF TakeRequest
<1>20. CASE TriggerResize
  BY <1>20 DEF TriggerResize
<1>21. CASE ClientResets \/ CameraCloses \/ SetStopped \/ StopCapture
  BY <1>21 DEF ClientResets, CameraCloses, SetStopped, StopCapture
<1>22. ASSUME NEW p \in Property, DisplayChanges(p)
      PROVE  Watched'
  BY <1>22 DEF DisplayChanges
<1>23. ASSUME NEW p \in Property, RequestResize(p)
      PROVE  Watched'
  BY <1>23 DEF RequestResize
<1> QED
  BY <1>1, <1>2, <1>3, <1>4, <1>5, <1>6, <1>7, <1>8, <1>9, <1>10, <1>11, <1>12,
     <1>13, <1>14, <1>15, <1>16, <1>17, <1>18, <1>19, <1>20, <1>21, <1>22, <1>23
     DEF CaptureNext, VideoThread, Encoding, MonitorThread, Debouncer

(* Every change of the display is read, told, or the same again.           *)
LEMMA CurrentStep ==
    ASSUME CaptureTypes, CurrentInv, CaptureNext
    PROVE  ReadIsLast' /\ Current' /\ KnownToMonitor'
<1> USE DEF CaptureTypes, CurrentInv, ReadIsLast, Current, KnownToMonitor,
    Prepared, Coming,
           Told, Watched, Ended, outside, ButVideo, ButMonitor, Unresized,
           Unwatched, Goto, Video, Reset, Notified, VideoState, MonitorState
<1>1. CASE InitCapture
  BY <1>1 DEF InitCapture
<1>2. CASE ConsumeReset
  BY <1>2 DEF ConsumeReset
<1>3. CASE Prepare
  BY <1>3 DEF Prepare
<1>4. CASE SetSessionDisplayProperties
  BY <1>4 DEF SetSessionDisplayProperties
<1>5. CASE StartEncoding
  <2> USE <1>5 DEF StartEncoding
  <2>1. CASE video' = [video EXCEPT !.pc = "publish", !.created = TRUE]
    BY <2>1
  <2>2. CASE Retry(video)
    BY <2>2, RetryTypes
  <2>3. CASE Retry([video EXCEPT !.created = TRUE])
    BY <2>3, RetryTypes, NewDisplay
  <2>4. CASE video' = [video EXCEPT !.pc = "finish", !.alive = FALSE]
    BY <2>4
  <2> QED
    BY <2>1, <2>2, <2>3, <2>4
<1>6. CASE Publish
  BY <1>6 DEF Publish
<1>7. CASE CheckStopped
  BY <1>7 DEF CheckStopped
<1>8. CASE EncodeEnds
  BY <1>8 DEF EncodeEnds
<1>9. CASE CheckAlive
  BY <1>9 DEF CheckAlive
<1>10. CASE Finish
  BY <1>10 DEF Finish
<1>11. CASE WriteSession
  BY <1>11 DEF WriteSession
<1>12. CASE BrokenPipe
  BY <1>12 DEF BrokenPipe
<1>13. CASE EncodeFrame
  BY <1>13 DEF EncodeFrame
<1>14. CASE Release
  BY <1>14 DEF Release
<1>15. CASE EncodeFails
  BY <1>15, RetryTypes DEF EncodeFails
<1>16. CASE MonitorRead
  BY <1>16 DEF MonitorRead
<1>17. CASE MonitorExchange
  <2> USE <1>17 DEF MonitorExchange
  <2>1. CASE monitor.read = <<>> \/ monitor.read # monitor.props
    <3>1. monitor' = [monitor EXCEPT !.props = monitor.read, !.pc = "notify"]
      BY <2>1
    <3>2. raced' = raced
      BY <2>1
    <3> QED
      BY <3>1, <3>2
  <2>2. CASE monitor.read # <<>> /\ monitor.read = monitor.props
    <3>1. monitor' = [monitor EXCEPT !.pc = "idle"]
      BY <2>2
    <3>2. ~raced' => /\ ~raced
                     /\ \/ <<video.read>> = monitor.read
                        \/ IF source.source = "screen" THEN video.pc # "set"
                           ELSE video.pc \in {"loop", "prepare"}
      BY <2>2
    <3>3. video.pc \in Prepared /\ ~raced' => video.read = display \/ Coming' \/ Told'
      <4> SUFFICES ASSUME video.pc \in Prepared, ~raced'
                   PROVE  video.read = display \/ Coming' \/ Told'
        OBVIOUS
      <4>1. monitor.on
        BY Sources
      <4>2. monitor.read = <<display>> \/ monitor.events > 0
        BY <2>2, <4>1
      <4>3. monitor.events > 0 => Coming'
        BY <3>1
      <4>4. reasons # {} => Told'
        OBVIOUS
      <4>5. <<video.read>> = monitor.read \/ reasons # {}
        BY <2>2, <3>2
      <4> QED
        BY <4>2, <4>3, <4>4, <4>5
    <3> QED
      BY <2>2, <3>1, <3>2, <3>3
  <2> QED
    BY <2>1, <2>2
<1>18. CASE MonitorNotify
  <2>1. reasons' # {}
    BY <1>18 DEF MonitorNotify, OnChanged
  <2> QED
    BY <1>18, <2>1 DEF MonitorNotify
<1>19. CASE TakeRequest
  BY <1>19 DEF TakeRequest
<1>20. CASE TriggerResize
  BY <1>20 DEF TriggerResize, Exists
<1>21. CASE ClientResets \/ CameraCloses \/ SetStopped \/ StopCapture
  BY <1>21 DEF ClientResets, CameraCloses, SetStopped, StopCapture
<1>22. ASSUME NEW p \in Property, DisplayChanges(p)
      PROVE  ReadIsLast' /\ Current' /\ KnownToMonitor'
  BY <1>22 DEF DisplayChanges, Exists
<1>23. ASSUME NEW p \in Property, RequestResize(p)
      PROVE  ReadIsLast' /\ Current' /\ KnownToMonitor'
  BY <1>23 DEF RequestResize
<1> QED
  BY <1>1, <1>2, <1>3, <1>4, <1>5, <1>6, <1>7, <1>8, <1>9, <1>10, <1>11, <1>12,
     <1>13, <1>14, <1>15, <1>16, <1>17, <1>18, <1>19, <1>20, <1>21, <1>22, <1>23
     DEF CaptureNext, VideoThread, Encoding, MonitorThread, Debouncer

(* Resizes are requests of the client.                                     *)
LEMMA AskedStep ==
    ASSUME CaptureTypes, WereAsked, CaptureNext
    PROVE  WereAsked'
<1> USE DEF CaptureTypes, WereAsked, Asked, outside, ButVideo, ButMonitor,
    Unresized,
           Unwatched, Goto, Video, Reset, Notified, ResizeState
<1>1. CASE InitCapture \/ ConsumeReset \/ Prepare \/
         SetSessionDisplayProperties \/ StartEncoding \/ Publish \/
         CheckStopped \/ EncodeEnds \/ CheckAlive \/ Finish
  BY <1>1 DEF InitCapture, ConsumeReset, Prepare, SetSessionDisplayProperties,
         StartEncoding, Publish, CheckStopped, EncodeEnds, CheckAlive, Finish
<1>2. CASE WriteSession \/ BrokenPipe \/ EncodeFrame \/ EncodeFails \/
         MonitorRead \/ MonitorExchange
  BY <1>2 DEF WriteSession, BrokenPipe, EncodeFrame, EncodeFails, MonitorRead,
         MonitorExchange
<1>3. CASE Release
  BY <1>3 DEF Release
<1>4. CASE MonitorNotify
  BY <1>4, ChangedTypes DEF MonitorNotify
<1>5. CASE TakeRequest
  BY <1>5 DEF TakeRequest
<1>6. CASE TriggerResize
  <2>1. resize'.request = resize.request /\ resize'.taken = <<>>
        /\ resize'.asked = resize.asked
        /\ (resize'.pending = resize.pending \/ resize'.pending = resize.pending \o resize.taken)
    BY <1>6 DEF TriggerResize
  <2>2. CASE resize'.pending = resize.pending
    BY <2>1, <2>2
  <2>3. CASE resize'.pending = resize.pending \o resize.taken
    <3>1. PICK p \in resize.asked : resize.taken = <<p>>
      BY <1>6 DEF TriggerResize
    <3>2. resize'.pending = Append(resize.pending, p)
      BY <2>3, <3>1
    <3> QED
      BY <2>1, <3>2
  <2> QED
    BY <2>1, <2>2, <2>3
<1>7. CASE ClientResets \/ CameraCloses \/ SetStopped \/ StopCapture
  BY <1>7 DEF ClientResets, CameraCloses, SetStopped, StopCapture
<1>8. ASSUME NEW p \in Property, DisplayChanges(p)
      PROVE  WereAsked'
  BY <1>8 DEF DisplayChanges
<1>9. ASSUME NEW p \in Property, RequestResize(p)
      PROVE  WereAsked'
  BY <1>9 DEF RequestResize
<1> QED
  BY <1>1, <1>2, <1>3, <1>4, <1>5, <1>6, <1>7, <1>8, <1>9
     DEF CaptureNext, VideoThread, Encoding, MonitorThread, Debouncer

(* Only the tracker of a new display tells of resizes.                     *)
LEMMA OnlyNewStep ==
    ASSUME CaptureTypes, Watched, OnlyNew, CaptureNext
    PROVE  OnlyNew'
<1> USE DEF CaptureTypes, Watched, OnlyNew, Ended, outside, ButVideo, ButMonitor,
           Unresized, Unwatched, Goto, Video, Reset, Notified, VideoState,
           MonitorState
<1>1. CASE InitCapture
  BY <1>1 DEF InitCapture
<1>2. CASE ConsumeReset
  BY <1>2 DEF ConsumeReset
<1>3. CASE Prepare
  BY <1>3 DEF Prepare
<1>4. CASE SetSessionDisplayProperties
  BY <1>4 DEF SetSessionDisplayProperties
<1>5. CASE StartEncoding
  <2> USE <1>5 DEF StartEncoding
  <2>1. CASE video' = [video EXCEPT !.pc = "publish", !.created = TRUE]
    BY <2>1
  <2>2. CASE Retry(video)
    BY <2>2, RetryTypes
  <2>3. CASE Retry([video EXCEPT !.created = TRUE])
    BY <2>3, RetryTypes, NewDisplay
  <2>4. CASE video' = [video EXCEPT !.pc = "finish", !.alive = FALSE]
    BY <2>4
  <2> QED
    BY <2>1, <2>2, <2>3, <2>4
<1>6. CASE Publish
  BY <1>6 DEF Publish
<1>7. CASE CheckStopped
  BY <1>7 DEF CheckStopped
<1>8. CASE EncodeEnds
  BY <1>8 DEF EncodeEnds
<1>9. CASE CheckAlive
  BY <1>9 DEF CheckAlive
<1>10. CASE Finish
  BY <1>10 DEF Finish
<1>11. CASE WriteSession
  BY <1>11 DEF WriteSession
<1>12. CASE BrokenPipe
  BY <1>12 DEF BrokenPipe
<1>13. CASE EncodeFrame
  BY <1>13 DEF EncodeFrame
<1>14. CASE Release
  BY <1>14 DEF Release
<1>15. CASE EncodeFails
  BY <1>15, RetryTypes DEF EncodeFails
<1>16. CASE MonitorRead
  BY <1>16 DEF MonitorRead
<1>17. CASE MonitorExchange
  BY <1>17 DEF MonitorExchange
<1>18. CASE MonitorNotify
  BY <1>18 DEF MonitorNotify
<1>19. CASE TakeRequest
  BY <1>19 DEF TakeRequest
<1>20. CASE TriggerResize
  BY <1>20 DEF TriggerResize
<1>21. CASE ClientResets \/ CameraCloses \/ SetStopped \/ StopCapture
  BY <1>21 DEF ClientResets, CameraCloses, SetStopped, StopCapture
<1>22. ASSUME NEW p \in Property, DisplayChanges(p)
      PROVE  OnlyNew'
  BY <1>22 DEF DisplayChanges
<1>23. ASSUME NEW p \in Property, RequestResize(p)
      PROVE  OnlyNew'
  BY <1>23 DEF RequestResize
<1> QED
  BY <1>1, <1>2, <1>3, <1>4, <1>5, <1>6, <1>7, <1>8, <1>9, <1>10, <1>11, <1>12,
     <1>13, <1>14, <1>15, <1>16, <1>17, <1>18, <1>19, <1>20, <1>21, <1>22, <1>23
     DEF CaptureNext, VideoThread, Encoding, MonitorThread, Debouncer

(* What is told is what was exchanged.                                     *)
LEMMA NotifiesStep ==
    ASSUME CaptureTypes, Watched, Notifies, CaptureNext
    PROVE  Notifies'
<1> USE DEF CaptureTypes, Watched, Notifies, Ended, outside, ButVideo, ButMonitor,
           Unresized, Unwatched, Goto, Video, Reset, Notified, VideoState,
           MonitorState
<1>1. CASE InitCapture
  BY <1>1 DEF InitCapture
<1>2. CASE ConsumeReset
  BY <1>2 DEF ConsumeReset
<1>3. CASE Prepare
  BY <1>3 DEF Prepare
<1>4. CASE SetSessionDisplayProperties
  BY <1>4 DEF SetSessionDisplayProperties
<1>5. CASE StartEncoding
  <2> USE <1>5 DEF StartEncoding
  <2>1. CASE video' = [video EXCEPT !.pc = "publish", !.created = TRUE]
    BY <2>1
  <2>2. CASE Retry(video)
    BY <2>2, RetryTypes
  <2>3. CASE Retry([video EXCEPT !.created = TRUE])
    BY <2>3, RetryTypes, NewDisplay
  <2>4. CASE video' = [video EXCEPT !.pc = "finish", !.alive = FALSE]
    BY <2>4
  <2> QED
    BY <2>1, <2>2, <2>3, <2>4
<1>6. CASE Publish \/ CheckStopped \/ EncodeEnds \/ CheckAlive \/ Finish
  BY <1>6 DEF Publish, CheckStopped, EncodeEnds, CheckAlive, Finish
<1>7. CASE WriteSession \/ BrokenPipe \/ EncodeFrame
  BY <1>7 DEF WriteSession, BrokenPipe, EncodeFrame
<1>8. CASE Release
  BY <1>8 DEF Release
<1>9. CASE EncodeFails
  BY <1>9, RetryTypes DEF EncodeFails
<1>10. CASE MonitorRead
  BY <1>10 DEF MonitorRead
<1>11. CASE MonitorExchange
  BY <1>11 DEF MonitorExchange
<1>12. CASE MonitorNotify
  BY <1>12 DEF MonitorNotify
<1>13. CASE TakeRequest
  BY <1>13 DEF TakeRequest
<1>14. CASE TriggerResize
  BY <1>14 DEF TriggerResize
<1>15. CASE ClientResets \/ CameraCloses \/ SetStopped \/ StopCapture
  BY <1>15 DEF ClientResets, CameraCloses, SetStopped, StopCapture
<1>16. ASSUME NEW p \in Property, DisplayChanges(p)
      PROVE  Notifies'
  BY <1>16 DEF DisplayChanges
<1>17. ASSUME NEW p \in Property, RequestResize(p)
      PROVE  Notifies'
  BY <1>17 DEF RequestResize
<1> QED
  BY <1>1, <1>2, <1>3, <1>4, <1>5, <1>6, <1>7, <1>8, <1>9, <1>10, <1>11, <1>12,
     <1>13, <1>14, <1>15, <1>16, <1>17
     DEF CaptureNext, VideoThread, Encoding, MonitorThread, Debouncer

(* The monitor of a new display keeps up with it.                          *)
LEMMA KnowsStep ==
    ASSUME CaptureTypes, CurrentInv, Knows, CaptureNext
    PROVE  Knows'
<1> USE DEF CaptureTypes, CurrentInv, Watched, ReadIsLast, Knows, Coming, Prepared,
           Ended, outside, ButVideo, ButMonitor, Unresized, Unwatched, Goto,
           Video, Reset, Notified, VideoState, MonitorState
<1>1. CASE InitCapture
  BY <1>1 DEF InitCapture
<1>2. CASE ConsumeReset
  BY <1>2 DEF ConsumeReset
<1>3. CASE Prepare
  BY <1>3 DEF Prepare
<1>4. CASE SetSessionDisplayProperties
  BY <1>4 DEF SetSessionDisplayProperties
<1>5. CASE StartEncoding
  <2> USE <1>5 DEF StartEncoding
  <2>1. CASE video' = [video EXCEPT !.pc = "publish", !.created = TRUE]
    BY <2>1
  <2>2. CASE Retry(video)
    BY <2>2, RetryTypes
  <2>3. CASE Retry([video EXCEPT !.created = TRUE])
    BY <2>3, RetryTypes, NewDisplay
  <2>4. CASE video' = [video EXCEPT !.pc = "finish", !.alive = FALSE]
    BY <2>4
  <2> QED
    BY <2>1, <2>2, <2>3, <2>4
<1>6. CASE Publish \/ CheckStopped \/ EncodeEnds \/ CheckAlive \/ Finish
  BY <1>6 DEF Publish, CheckStopped, EncodeEnds, CheckAlive, Finish
<1>7. CASE WriteSession \/ BrokenPipe \/ EncodeFrame
  BY <1>7 DEF WriteSession, BrokenPipe, EncodeFrame
<1>8. CASE Release
  BY <1>8 DEF Release
<1>9. CASE EncodeFails
  BY <1>9, RetryTypes DEF EncodeFails
<1>10. CASE MonitorRead
  BY <1>10 DEF MonitorRead
<1>11. CASE MonitorExchange
  BY <1>11 DEF MonitorExchange
<1>12. CASE MonitorNotify
  BY <1>12 DEF MonitorNotify
<1>13. CASE TakeRequest
  BY <1>13 DEF TakeRequest
<1>14. CASE TriggerResize
  BY <1>14 DEF TriggerResize, Exists
<1>15. CASE ClientResets \/ CameraCloses \/ SetStopped \/ StopCapture
  BY <1>15 DEF ClientResets, CameraCloses, SetStopped, StopCapture
<1>16. ASSUME NEW p \in Property, DisplayChanges(p)
      PROVE  Knows'
  BY <1>16 DEF DisplayChanges, Exists
<1>17. ASSUME NEW p \in Property, RequestResize(p)
      PROVE  Knows'
  BY <1>17 DEF RequestResize
<1> QED
  BY <1>1, <1>2, <1>3, <1>4, <1>5, <1>6, <1>7, <1>8, <1>9, <1>10, <1>11, <1>12,
     <1>13, <1>14, <1>15, <1>16, <1>17
     DEF CaptureNext, VideoThread, Encoding, MonitorThread, Debouncer

(* A change is told to be the client's own only if the client asked for it. *)
LEMMA ChangedReasons ==
    ASSUME CaptureTypes, WereAsked, OnChanged
    PROVE  \/ reasons' = reasons \cup {"resized"} /\ monitor.read \in Asked
           \/ reasons' = reasons \cup {"display"}
<1> USE DEF CaptureTypes, ResizeState
<1>1. PICK expired \in 0..Len(resize.pending) :
        LET pending == SubSeq(resize.pending, expired + 1, Len(resize.pending))
        IN  \/ Tracked(pending, monitor.read) # {} /\ reasons' = reasons \cup {"resized"}
            \/ reasons' = reasons \cup {"display"}
  BY DEF OnChanged, Reset
<1> DEFINE pending == SubSeq(resize.pending, expired + 1, Len(resize.pending))
<1>2. /\ pending \in Seq(Property) /\ Len(pending) = Len(resize.pending) - expired
      /\ \A i \in 1..Len(pending) : pending[i] = resize.pending[i + expired]
  BY SubSeqProperties
<1>3. ASSUME NEW i \in Tracked(pending, monitor.read)
      PROVE  monitor.read \in Asked
  <2>1. i \in 1..Len(pending) /\ monitor.read = <<pending[i]>>
    BY <1>2 DEF Tracked
  <2>2. i + expired \in DOMAIN resize.pending
    BY <1>2, <2>1
  <2>3. pending[i] \in resize.asked
    BY <1>2, <2>1, <2>2 DEF WereAsked
  <2> QED
    BY <2>1, <2>3 DEF Asked
<1> QED
  BY <1>1, <1>3

(* A resize alone is to a size that was asked for.                         *)
LEMMA OriginsStep ==
    ASSUME CaptureTypes, Watched, WereAsked, OnlyNew, Notifies, Origins, CaptureNext
    PROVE  Origins'
<1> USE DEF CaptureTypes, Watched, OnlyNew, Notifies, Origins, Origin, ByClient,
    Asked,
           Ended, outside, ButVideo, ButMonitor, Unresized, Unwatched, Goto,
           Video, Reset, Notified, VideoState, MonitorState
<1>1. CASE InitCapture
  BY <1>1 DEF InitCapture
<1>2. CASE ConsumeReset
  BY <1>2 DEF ConsumeReset
<1>3. CASE Prepare
  BY <1>3 DEF Prepare
<1>4. CASE SetSessionDisplayProperties
  BY <1>4 DEF SetSessionDisplayProperties
<1>5. CASE StartEncoding
  <2> USE <1>5 DEF StartEncoding
  <2>1. CASE video' = [video EXCEPT !.pc = "publish", !.created = TRUE]
    BY <2>1
  <2>2. CASE Retry(video)
    BY <2>2, RetryTypes
  <2>3. CASE Retry([video EXCEPT !.created = TRUE])
    BY <2>3, RetryTypes, NewDisplay
  <2>4. CASE video' = [video EXCEPT !.pc = "finish", !.alive = FALSE]
    BY <2>4
  <2> QED
    BY <2>1, <2>2, <2>3, <2>4
<1>6. CASE Publish
  BY <1>6 DEF Publish
<1>7. CASE CheckStopped
  <2>1. CASE stopping = "no"
    BY <1>7, <2>1 DEF CheckStopped
  <2>2. CASE video' = [video EXCEPT !.pc = "finish", !.alive = FALSE]
    BY <1>7, <2>2 DEF CheckStopped
  <2> QED
    BY <1>7, <2>1, <2>2 DEF CheckStopped
<1>8. CASE EncodeEnds
  BY <1>8 DEF EncodeEnds
<1>9. CASE CheckAlive
  BY <1>9 DEF CheckAlive
<1>10. CASE Finish
  BY <1>10 DEF Finish
<1>11. CASE WriteSession
  BY <1>11 DEF WriteSession
<1>12. CASE BrokenPipe
  BY <1>12 DEF BrokenPipe
<1>13. CASE EncodeFrame
  BY <1>13 DEF EncodeFrame
<1>14. CASE Release
  BY <1>14 DEF Release
<1>15. CASE EncodeFails
  BY <1>15, RetryTypes DEF EncodeFails
<1>16. CASE MonitorRead
  BY <1>16 DEF MonitorRead
<1>17. CASE MonitorExchange
  BY <1>17 DEF MonitorExchange
<1>18. CASE MonitorNotify
  <2> USE <1>18 DEF MonitorNotify
  <2>1. UNCHANGED <<video, resize.asked, monitor.props>>
    BY ChangedTypes
  <2>2. CASE reasons' = reasons \cup {"display"}
    BY <2>1, <2>2
  <2>3. CASE source.source = "new" /\ reasons' = reasons \cup {"resized"}
                                  /\ monitor.read \in {<<p>> : p \in resize.asked}
    BY <2>1, <2>3
  <2> QED
    BY <2>2, <2>3, ChangedReasons
<1>19. CASE TakeRequest
  BY <1>19 DEF TakeRequest
<1>20. CASE TriggerResize
  BY <1>20 DEF TriggerResize
<1>21. CASE ClientResets \/ CameraCloses \/ SetStopped \/ StopCapture
  BY <1>21 DEF ClientResets, CameraCloses, SetStopped, StopCapture
<1>22. ASSUME NEW p \in Property, DisplayChanges(p)
      PROVE  Origins'
  BY <1>22 DEF DisplayChanges
<1>23. ASSUME NEW p \in Property, RequestResize(p)
      PROVE  Origins'
  BY <1>23 DEF RequestResize
<1> QED
  BY <1>1, <1>2, <1>3, <1>4, <1>5, <1>6, <1>7, <1>8, <1>9, <1>10, <1>11, <1>12,
     <1>13, <1>14, <1>15, <1>16, <1>17, <1>18, <1>19, <1>20, <1>21, <1>22, <1>23
     DEF CaptureNext, VideoThread, Encoding, MonitorThread, Debouncer

(* The session that is encoded is the one announced.                       *)
LEMMA AnnouncedStep ==
    ASSUME CaptureTypes, Announced, CaptureNext
    PROVE  Announced'
<1> USE DEF CaptureTypes, Announced, outside, ButVideo, ButMonitor, Unresized,
           Unwatched, Goto, Video, Reset, Notified, VideoState, MonitorState,
           IsClientResize
<1>1. CASE InitCapture
  BY <1>1 DEF InitCapture
<1>2. CASE ConsumeReset
  BY <1>2 DEF ConsumeReset
<1>3. CASE Prepare
  BY <1>3 DEF Prepare
<1>4. CASE SetSessionDisplayProperties
  BY <1>4 DEF SetSessionDisplayProperties
<1>5. CASE StartEncoding
  <2> USE <1>5 DEF StartEncoding
  <2>1. CASE video' = [video EXCEPT !.pc = "publish", !.created = TRUE]
    BY <2>1
  <2>2. CASE Retry(video)
    BY <2>2, RetryTypes
  <2>3. CASE Retry([video EXCEPT !.created = TRUE])
    BY <2>3, RetryTypes, NewDisplay
  <2>4. CASE video' = [video EXCEPT !.pc = "finish", !.alive = FALSE]
    BY <2>4
  <2> QED
    BY <2>1, <2>2, <2>3, <2>4
<1>6. CASE Publish \/ CheckStopped \/ EncodeEnds \/ CheckAlive \/ Finish
  BY <1>6 DEF Publish, CheckStopped, EncodeEnds, CheckAlive, Finish
<1>7. CASE WriteSession \/ BrokenPipe \/ EncodeFrame
  BY <1>7 DEF WriteSession, BrokenPipe, EncodeFrame
<1>8. CASE Release
  BY <1>8 DEF Release
<1>9. CASE EncodeFails
  BY <1>9, RetryTypes DEF EncodeFails
<1>10. CASE MonitorRead
  BY <1>10 DEF MonitorRead
<1>11. CASE MonitorExchange
  BY <1>11 DEF MonitorExchange
<1>12. CASE MonitorNotify
  BY <1>12 DEF MonitorNotify
<1>13. CASE TakeRequest
  BY <1>13 DEF TakeRequest
<1>14. CASE TriggerResize
  BY <1>14 DEF TriggerResize
<1>15. CASE ClientResets \/ CameraCloses \/ SetStopped \/ StopCapture
  BY <1>15 DEF ClientResets, CameraCloses, SetStopped, StopCapture
<1>16. ASSUME NEW p \in Property, DisplayChanges(p)
      PROVE  Announced'
  BY <1>16 DEF DisplayChanges
<1>17. ASSUME NEW p \in Property, RequestResize(p)
      PROVE  Announced'
  BY <1>17 DEF RequestResize
<1> QED
  BY <1>1, <1>2, <1>3, <1>4, <1>5, <1>6, <1>7, <1>8, <1>9, <1>10, <1>11, <1>12,
     <1>13, <1>14, <1>15, <1>16, <1>17
     DEF CaptureNext, VideoThread, Encoding, MonitorThread, Debouncer

(* The counters of the encoder, and the events that the monitor may still  *)
(* receive: each of them comes from a change or a resize of the bounds.    *)
Codec == {"none", "running", "eos"}
EncoderState == [first : BOOLEAN, errors : 0..MaxErrors, capped : BOOLEAN, level : 0..MaxLevel]
Owed(request) == IF request = <<>> THEN 0 ELSE 1
Bounds ==
    /\ codec \in Codec
    /\ encoder \in EncoderState /\ (encoder.errors = MaxErrors => encoder.capped)
    /\ left \in [changes : Nat, resets : Nat, resizes : Nat]
    /\ monitor.events + left.changes + left.resizes + Owed(resize.request) + Owed(resize.taken)
          <= source.changes + source.resizes

(* An encoder is tried again with fewer errors than the maximum, but once, *)
(* when its constraints are applied.                                       *)
LEMMA PrepareRetryTypes ==
    ASSUME encoder \in EncoderState, encoder.errors = MaxErrors => encoder.capped,
           NEW e \in PrepareRetry(encoder)
    PROVE  e \in EncoderState /\ (e.errors = MaxErrors => e.capped)
<1> USE CaptureOK DEF CaptureOK, EncoderState
<1> DEFINE f == IF encoder.first THEN [encoder EXCEPT !.errors = encoder.errors + 1] ELSE encoder
<1>1. CASE encoder.first /\ encoder.errors + 1 < MaxErrors
  BY <1>1 DEF PrepareRetry
<1>2. CASE ~(encoder.first /\ encoder.errors + 1 < MaxErrors)
  <2>1. \/ ~f.capped /\ e = [f EXCEPT !.capped = TRUE]
        \/ f.errors < MaxErrors /\ f.level > 0 /\ e = [f EXCEPT !.level = f.level - 1]
    BY <1>2 DEF PrepareRetry
  <2>2. /\ f.first \in BOOLEAN /\ f.capped = encoder.capped /\ f.level \in 0..MaxLevel
        /\ f.errors \in Nat /\ f.errors <= encoder.errors + 1
        /\ f = [first |-> f.first, errors |-> f.errors, capped |-> f.capped, level |-> f.level]
    BY <1>2
  <2>3. CASE ~f.capped /\ e = [f EXCEPT !.capped = TRUE]
    <3> HIDE DEF f
    <3>1. encoder.errors < MaxErrors /\ encoder.errors \in Nat
      BY <2>2, <2>3
    <3>2. f.errors \in 0..MaxErrors
      BY <2>2, <3>1
    <3> QED BY <2>2, <2>3, <3>2
  <2>4. CASE f.errors < MaxErrors /\ f.level > 0 /\ e = [f EXCEPT !.level = f.level - 1]
    <3> HIDE DEF f
    <3>1. f.level - 1 \in 0..MaxLevel /\ f.errors \in 0..MaxErrors
      BY <2>2, <2>4
    <3> QED BY <2>2, <2>4, <3>1
  <2> QED BY <2>1, <2>3, <2>4
<1> QED BY <1>1, <1>2

LEMMA RetryBounds ==
    ASSUME Bounds, NEW v, Retry(v)
    PROVE  encoder' \in EncoderState /\ (encoder'.errors = MaxErrors => encoder'.capped)
<1>1. CASE \E e \in PrepareRetry(encoder) : encoder' = e
  BY <1>1, PrepareRetryTypes DEF Bounds
<1>2. CASE encoder' = encoder
  BY <1>2 DEF Bounds
<1> QED BY <1>1, <1>2 DEF Retry

LEMMA StillOwed ==
    ASSUME source.changes \in Nat, source.resizes \in Nat, UNCHANGED source,
           monitor.events \in Nat, monitor'.events \in Nat, monitor'.events <= monitor.events,
           left.changes \in Nat, left.resizes \in Nat,
           left'.changes = left.changes, left'.resizes = left.resizes,
           Owed(resize.request) \in Nat, Owed(resize'.request) \in Nat,
           Owed(resize'.request) <= Owed(resize.request),
           Owed(resize.taken) \in Nat, Owed(resize'.taken) = Owed(resize.taken),
           monitor.events + left.changes + left.resizes + Owed(resize.request)
              + Owed(resize.taken) <= source.changes + source.resizes
    PROVE  monitor'.events + left'.changes + left'.resizes + Owed(resize'.request)
              + Owed(resize'.taken) <= source'.changes + source'.resizes
  OBVIOUS

(* What no step of the video thread, of the client or of the main thread   *)
(* touches.                                                                *)
LEMMA BoundsKept ==
    ASSUME CaptureTypes, Bounds, UNCHANGED source,
           left' \in [changes : Nat, resets : Nat, resizes : Nat],
           left'.changes = left.changes, left'.resizes = left.resizes,
           resize'.request \in {<<>>, resize.request}, resize'.taken = resize.taken,
           monitor'.events \in Nat, monitor'.events <= monitor.events,
           codec' \in Codec,
           encoder' \in EncoderState, encoder'.errors = MaxErrors => encoder'.capped
    PROVE  Bounds'
<1>1. Owed(resize'.request) \in Nat /\ Owed(resize'.request) <= Owed(resize.request)
      /\ Owed(resize.request) \in Nat /\ Owed(resize.taken) \in Nat
  BY DEF Owed
<1>2. source.changes \in Nat /\ source.resizes \in Nat
  <2>1. source \in CaptureSetups
    BY DEF CaptureTypes
  <2> QED BY <2>1, CaptureOK DEF CaptureOK
<1>3. monitor.events \in Nat /\ left.changes \in Nat /\ left.resizes \in Nat
  BY DEF CaptureTypes, MonitorState, Bounds
<1>4. monitor'.events + left'.changes + left'.resizes + Owed(resize'.request) + Owed(resize'.taken)
          <= source'.changes + source'.resizes
  <2>1. monitor.events + left.changes + left.resizes + Owed(resize.request) + Owed(resize.taken)
          <= source.changes + source.resizes
    BY DEF Bounds
  <2>2. Owed(resize'.taken) = Owed(resize.taken) /\ source' = source
    BY DEF Owed
  <2>3. /\ left'.changes = left.changes /\ left'.resizes = left.resizes
        /\ monitor'.events \in Nat /\ monitor'.events <= monitor.events
    OBVIOUS
  <2> QED BY <1>1, <1>2, <1>3, <2>1, <2>2, <2>3, StillOwed
<1> QED BY <1>4 DEF Bounds

LEMMA BoundsStep ==
    ASSUME CaptureTypes, Bounds, CaptureNext
    PROVE  Bounds'
<1>0. /\ codec \in Codec
      /\ encoder \in EncoderState /\ (encoder.errors = MaxErrors => encoder.capped)
      /\ left \in [changes : Nat, resets : Nat, resizes : Nat]
      /\ monitor.events \in Nat /\ monitor \in MonitorState /\ resize \in ResizeState
  BY DEF Bounds, CaptureTypes, MonitorState
<1>e. CaptureTypes'
  BY CaptureTypesStep
<1>s. source.changes \in Nat /\ source.resizes \in Nat /\ monitor.events \in Nat
  <2>1. source \in CaptureSetups
    BY DEF CaptureTypes
  <2> QED BY <1>0, <2>1, CaptureOK DEF CaptureOK
<1>1. CASE VideoThread
  <2> SUFFICES /\ UNCHANGED <<source, left>>
               /\ resize'.request \in {<<>>, resize.request} /\ resize'.taken = resize.taken
               /\ monitor'.events = monitor.events
               /\ codec' \in Codec
               /\ encoder' \in EncoderState /\ (encoder'.errors = MaxErrors => encoder'.capped)
    BY <1>0, BoundsKept
  <2> USE <1>0 DEF outside, ButVideo, Codec, MonitorState, ResizeState
  <2>1. CASE InitCapture \/ ConsumeReset \/ Prepare \/ SetSessionDisplayProperties
    BY <2>1 DEF InitCapture, ConsumeReset, Prepare, SetSessionDisplayProperties
  <2>2. CASE StartEncoding
    <3>1. encoder' \in EncoderState /\ (encoder'.errors = MaxErrors => encoder'.capped)
      BY <2>2, RetryBounds DEF StartEncoding
    <3> QED BY <2>2, <3>1 DEF StartEncoding
  <2>3. CASE Publish \/ CheckStopped \/ WriteSession \/ EncodeEnds \/ CheckAlive
    BY <2>3 DEF Publish, CheckStopped, WriteSession, EncodeEnds, CheckAlive
  <2>4. CASE Finish \/ Release
    BY <2>4 DEF Finish, Release
  <2> QED BY <1>1, <2>1, <2>2, <2>3, <2>4 DEF VideoThread
<1>2. CASE Encoding
  <2>1. /\ UNCHANGED <<source, left, resize, monitor, codec>>
        /\ encoder' \in EncoderState /\ (encoder'.errors = MaxErrors => encoder'.capped)
    <3>1. CASE EncodeFrame
      <4>1. encoder' = [encoder EXCEPT !.first = TRUE, !.errors = 0]
        BY <3>1 DEF EncodeFrame
      <4>2. 0 \in 0..MaxErrors /\ 0 # MaxErrors
        BY CaptureOK DEF CaptureOK
      <4>3. encoder' \in EncoderState /\ encoder'.errors = 0
        BY <1>0, <4>1, <4>2 DEF EncoderState
      <4> QED BY <3>1, <4>2, <4>3 DEF EncodeFrame, outside
    <3>2. CASE EncodeFails
      BY <3>2, RetryBounds DEF EncodeFails, outside
    <3>3. CASE BrokenPipe
      BY <1>0, <3>3 DEF BrokenPipe, ButVideo, outside
    <3> QED BY <1>2, <3>1, <3>2, <3>3 DEF Encoding
  <2> QED BY <1>0, <2>1, BoundsKept
<1>3. CASE MonitorThread
  <2>1. /\ UNCHANGED <<source, left, encoder>>
        /\ monitor'.events \in Nat /\ monitor'.events <= monitor.events
        /\ codec' \in Codec
    <3> USE <1>0 DEF ButMonitor, outside, Codec, MonitorState
    <3>1. CASE MonitorRead
      BY <3>1 DEF MonitorRead
    <3>2. CASE MonitorExchange
      BY <3>2 DEF MonitorExchange
    <3>3. CASE MonitorNotify
      <4>1. codec' \in Codec
        BY <3>3 DEF MonitorNotify, OnChanged, Reset
      <4> QED BY <3>3, <4>1 DEF MonitorNotify
    <3> QED BY <1>3, <3>1, <3>2, <3>3 DEF MonitorThread
  <2>2. resize'.request \in {<<>>, resize.request} /\ resize'.taken = resize.taken
    BY <1>3, ChangedTypes DEF MonitorThread, MonitorRead, MonitorExchange,
        MonitorNotify,
                              ButMonitor, outside
  <2> QED BY <1>0, <2>1, <2>2, BoundsKept
<1>4. CASE ClientResets \/ CameraCloses \/ SetStopped \/ StopCapture
  <2>1. /\ UNCHANGED <<source, encoder, monitor, resize>>
        /\ left' \in [changes : Nat, resets : Nat, resizes : Nat]
        /\ left'.changes = left.changes /\ left'.resizes = left.resizes
        /\ codec' \in Codec
    BY <1>0, <1>4 DEF ClientResets, CameraCloses, SetStopped, StopCapture,
        Unresized, Unwatched,
                      Reset, Codec
  <2> QED BY <1>0, <2>1, BoundsKept
<1>5. CASE TakeRequest
  <2>1. /\ UNCHANGED <<source, left, monitor, encoder, codec>>
        /\ resize.taken = <<>> /\ resize'.request = <<>> /\ resize'.taken = resize.request
    BY <1>0, <1>5 DEF TakeRequest, outside, Unwatched, ResizeState
  <2>2. /\ Owed(resize'.request) + Owed(resize'.taken) = Owed(resize.request) + Owed(resize.taken)
        /\ Owed(resize.request) \in Nat /\ Owed(resize'.request) \in Nat
        /\ Owed(resize.taken) \in Nat /\ Owed(resize'.taken) \in Nat
    BY <2>1 DEF Owed
  <2>3. /\ monitor.events + left.changes + left.resizes + Owed(resize.request)
              + Owed(resize.taken) <= source.changes + source.resizes
        /\ left.changes \in Nat /\ left.resizes \in Nat
    BY <1>0 DEF Bounds
  <2>4. monitor'.events + left'.changes + left'.resizes + Owed(resize'.request)
              + Owed(resize'.taken) <= source'.changes + source'.resizes
    <3> HIDE DEF Bounds
    <3>1. UNCHANGED <<source, left, monitor>>
      BY <2>1
    <3> QED BY <1>0, <1>s, <2>2, <2>3, <3>1
  <2> QED BY <1>0, <2>1, <2>4 DEF Bounds
<1>6. CASE TriggerResize
  <2>1. /\ UNCHANGED <<source, left, encoder, codec>>
        /\ monitor'.events = monitor.events \/ monitor'.events = monitor.events + 1
        /\ resize.taken # <<>> /\ resize'.request = resize.request /\ resize'.taken = <<>>
    BY <1>0, <1>6 DEF TriggerResize, Unwatched, Notified, MonitorState, ResizeState
  <2>2. /\ Owed(resize.taken) = 1 /\ Owed(resize'.taken) = 0
        /\ Owed(resize.request) \in Nat /\ Owed(resize'.request) = Owed(resize.request)
    BY <2>1 DEF Owed
  <2>3. /\ monitor.events + left.changes + left.resizes + Owed(resize.request)
              + Owed(resize.taken) <= source.changes + source.resizes
        /\ left.changes \in Nat /\ left.resizes \in Nat
    BY <1>0 DEF Bounds
  <2>4. monitor'.events + left'.changes + left'.resizes + Owed(resize'.request)
              + Owed(resize'.taken) <= source'.changes + source'.resizes
    <3> HIDE DEF Bounds
    <3> QED BY <1>s, <2>1, <2>2, <2>3
  <2> QED BY <1>0, <2>1, <2>4 DEF Bounds
<1>7. ASSUME NEW p \in Property, DisplayChanges(p) PROVE Bounds'
  <2>1. /\ UNCHANGED <<source, encoder, codec, resize>>
        /\ monitor'.events \in {monitor.events, monitor.events + 1}
        /\ left' \in [changes : Nat, resets : Nat, resizes : Nat]
        /\ left'.changes = left.changes - 1 /\ left'.resizes = left.resizes
    BY <1>0, <1>7 DEF DisplayChanges, Notified, MonitorState
  <2>2. Owed(resize.taken) \in Nat /\ Owed(resize.request) \in Nat
    BY DEF Owed
  <2>3. /\ monitor.events + left.changes + left.resizes + Owed(resize.request)
              + Owed(resize.taken) <= source.changes + source.resizes
        /\ left.changes \in Nat /\ left.resizes \in Nat
    BY <1>0 DEF Bounds
  <2>4. monitor'.events + left'.changes + left'.resizes + Owed(resize'.request)
              + Owed(resize'.taken) <= source'.changes + source'.resizes
    BY <1>0, <1>s, <2>1, <2>2, <2>3
  <2> QED BY <1>0, <2>1, <2>4 DEF Bounds
<1>8. ASSUME NEW p \in Property, RequestResize(p) PROVE Bounds'
  <2>1. /\ UNCHANGED <<source, encoder, codec, monitor>>
        /\ left' \in [changes : Nat, resets : Nat, resizes : Nat]
        /\ left'.changes = left.changes /\ left'.resizes = left.resizes - 1
        /\ resize'.taken = resize.taken
    BY <1>0, <1>8 DEF RequestResize, Unwatched, ResizeState
  <2>2. Owed(resize.taken) \in Nat /\ Owed(resize.request) \in Nat /\ Owed(resize'.request) \in {0, 1}
    BY DEF Owed
  <2>3. /\ monitor.events + left.changes + left.resizes + Owed(resize.request)
              + Owed(resize.taken) <= source.changes + source.resizes
        /\ left.changes \in Nat /\ left.resizes \in Nat
    BY <1>0 DEF Bounds
  <2>4. monitor'.events + left'.changes + left'.resizes + Owed(resize'.request)
              + Owed(resize'.taken) <= source'.changes + source'.resizes
    BY <1>0, <1>s, <2>1, <2>2, <2>3
  <2> QED BY <1>0, <2>1, <2>4 DEF Bounds
<1> QED BY <1>1, <1>2, <1>3, <1>4, <1>5, <1>6, <1>7, <1>8 DEF CaptureNext, Debouncer

LEMMA BoundsStart == CaptureInit => Bounds
<1> SUFFICES ASSUME CaptureInit PROVE Bounds
  OBVIOUS
<1>1. source.changes \in Nat /\ source.resizes \in Nat /\ source.resets \in Nat
  BY CaptureOK DEF CaptureInit, CaptureOK
<1>2. codec \in Codec /\ left \in [changes : Nat, resets : Nat, resizes : Nat]
  BY <1>1 DEF CaptureInit, Codec
<1>3. encoder \in EncoderState /\ encoder.errors # MaxErrors
  BY CaptureOK DEF CaptureInit, EncoderState, CaptureOK
<1>4. /\ monitor.events = 0 /\ left.changes = source.changes /\ left.resizes = source.resizes
      /\ Owed(resize.request) = 0 /\ Owed(resize.taken) = 0
  BY DEF CaptureInit, Owed
<1> QED BY <1>1, <1>2, <1>3, <1>4 DEF Bounds

LEMMA CaptureTypesHold == CaptureTypes /\ Bounds => CaptureTypeOK
<1> SUFFICES ASSUME CaptureTypes, Bounds PROVE CaptureTypeOK
  OBVIOUS
<1>1. source.changes \in Nat /\ source.resizes \in Nat
  <2>1. source \in CaptureSetups
    BY DEF CaptureTypes
  <2> QED BY <2>1, CaptureOK DEF CaptureOK
<1>2. Owed(resize.taken) \in Nat /\ Owed(resize.request) \in Nat
  BY DEF Owed
<1>3. monitor.events \in 0..(source.changes + source.resizes)
  BY <1>1, <1>2 DEF CaptureTypes, Bounds, MonitorState
<1>4. encoder.errors \in 0..MaxErrors /\ encoder.level \in 0..MaxLevel
  BY DEF Bounds, EncoderState
<1> QED BY <1>3, <1>4 DEF CaptureTypeOK, CaptureTypes, Bounds, Codec, Reason,
    ResizeState

CaptureInv == CaptureTypes /\ Bounds /\ CurrentInv /\ ClientInv

LEMMA CaptureStarts == CaptureInit => CaptureInv
<1> SUFFICES ASSUME CaptureInit PROVE CaptureInv
  OBVIOUS
<1> USE DEF CaptureInit
<1>1. CaptureTypes
  <2>1. monitor \in MonitorState
    BY SeenValues DEF MonitorState
  <2>2. video \in VideoState /\ display \in Property
    BY CaptureOK DEF VideoState, VideoPc, CaptureOK
  <2>3. resize \in ResizeState
    BY SeenValues DEF ResizeState
  <2> QED
    BY <2>1, <2>2, <2>3 DEF CaptureTypes
<1>2. CurrentInv
  BY DEF CurrentInv, Watched, ReadIsLast, Current, KnownToMonitor, Prepared
<1>3. ClientInv
  BY DEF ClientInv, WereAsked, OnlyNew, Notifies, Knows, Origins, Origin, ByClient,
         Announced, Prepared
<1> QED
  BY <1>1, <1>2, <1>3, BoundsStart DEF CaptureInv

LEMMA CaptureStep == CaptureInv /\ [CaptureNext]_captureVars => CaptureInv'
<1> SUFFICES ASSUME CaptureInv, [CaptureNext]_captureVars PROVE CaptureInv'
  OBVIOUS
<1> USE DEF CaptureInv
<1>1. CASE CaptureNext
  BY <1>1, CaptureTypesStep, WatchedStep, CurrentStep, BoundsStep, AskedStep,
      OnlyNewStep, NotifiesStep,
     KnowsStep, OriginsStep, AnnouncedStep DEF CurrentInv, ClientInv
<1>2. CASE UNCHANGED captureVars
  <2> USE <1>2 DEF captureVars
  <2>1. CaptureTypes'
    BY DEF CaptureTypes
  <2>2. CurrentInv'
    BY DEF CurrentInv, Watched, ReadIsLast, Current, KnownToMonitor, Coming,
        Told, Ended
  <2>3. ClientInv'
    BY DEF ClientInv, WereAsked, OnlyNew, Notifies, Knows, Origins, Origin, Asked,
           Announced, Coming, Ended
  <2>4. Bounds'
    BY DEF Bounds
  <2> QED
    BY <2>1, <2>2, <2>3, <2>4
<1> QED
  BY <1>1, <1>2

(* Once everyone has seen the last change, the display that was read is the *)
(* display, and a resize by the client is one that it asked for.           *)
LEMMA CaptureHolds == CaptureInv => SessionIsTruthful
<1> USE DEF CaptureInv
<1> SUFFICES ASSUME CaptureInv, Quiet, source.source # "camera", ~raced
             PROVE  /\ session.props = display
                    /\ session.client => session.props \in resize.asked
  BY DEF SessionIsTruthful
<1>0. /\ video.pc = "encode" /\ video.pc \in Prepared /\ ~Coming /\ ~Told
      /\ reasons = {} /\ monitor.pc = "idle"
  BY DEF Quiet, Video, Coming, Told, Prepared
<1>1. video.read = display
  BY <1>0 DEF CurrentInv, Current
<1>2. session = [props |-> video.read, client |-> IsClientResize(video.consumed)]
  BY <1>0 DEF ClientInv, Announced
<1>3. ASSUME session.client PROVE display \in resize.asked
  <2>1. "resized" \in video.consumed /\ "display" \notin video.consumed
    BY <1>2, <1>3 DEF IsClientResize
  <2>2. source.source = "new" /\ video.created
    BY <2>1 DEF ClientInv, OnlyNew
  <2>3. monitor.props \in Asked
    BY <1>0, <2>1 DEF ClientInv, Origins, Origin, ByClient
  <2>4. monitor.props \in {<<display>>, <<>>}
    BY <1>0, <2>2 DEF ClientInv, Knows, Ended
  <2> QED
    BY <2>3, <2>4 DEF Asked
<1> QED
  BY <1>1, <1>2, <1>3

--------------------------------------------------------------------------------
(* CleanUp: what is on its way to the process                              *)

Value == {"wanted", "other", "unset"}
Restore == [1..Count -> {"none", "other"}]
CleanerState == [pc : {"settings", "wait", "write", "ended"}, next : Nat, restore : Restore,
                 local : Seq(BOOLEAN)]
ChildState == [pc : {"none", "reads", "restores", "done"}, next : Nat \ {0}, restore : Restore,
               power : BOOLEAN, failed : SUBSET (1..Count)]

(* The changes of the power that are on their way to the process: one that *)
(* is overwritten before it is seen is lost, none is told twice.           *)
InHand == Len(cleaner.local)
OnTheirWay == Len(turned) + Len(change) + InHand + Len(pipe)

CleanUpTypes ==
    /\ asked \in CleanUpSetups /\ value \in [1..Count -> Value]
    /\ cleaner \in CleanerState /\ child \in ChildState
    /\ turned \in Seq(BOOLEAN) /\ change \in Seq(BOOLEAN) /\ pipe \in Seq(BOOLEAN)
    /\ powers \in Nat /\ delayed \in Nat
CleanUpBounds ==
    /\ Len(turned) <= 1 /\ Len(change) <= 1
    /\ OnTheirWay + powers <= MaxPowers /\ delayed + powers <= MaxPowers
CleanUpInv == CleanUpTypes /\ CleanUpBounds

LEMMA CountIs == ASSUME asked \in CleanUpSetups
                 PROVE  Count \in Nat /\ \A i \in 1..Count : Old(i) \in Value
<1>1. asked.settings \in Seq([kind : {"text", "number", "policy"}, old : Value])
  BY CleanUpOK DEF CleanUpOK, Value
<1>2. Count \in Nat
  BY <1>1, LenProperties DEF Count
<1>3. ASSUME NEW i \in 1..Count PROVE Old(i) \in Value
  <2>1. asked.settings[i] \in [kind : {"text", "number", "policy"}, old : Value]
    BY <1>1, <1>3, ElementOfSeq DEF Count
  <2> QED BY <2>1 DEF Old
<1> QED BY <1>2, <1>3

LEMMA SingleBoolean ==
    ASSUME NEW b \in BOOLEAN
    PROVE  <<b>> \in Seq(BOOLEAN) /\ Len(<<b>>) = 1 /\ <<b>>[1] = b
  OBVIOUS

LEMMA NoBoolean == <<>> \in Seq(BOOLEAN) /\ Len(<<>>) = 0
  OBVIOUS

LEMMA CleanUpStarts == CleanUpInit => CleanUpInv
<1> SUFFICES ASSUME CleanUpInit PROVE CleanUpInv
  OBVIOUS
<1>1. asked \in CleanUpSetups /\ Nothing \in Restore
  BY DEF CleanUpInit, Nothing, Restore
<1>2. value \in [1..Count -> Value]
  BY <1>1, CountIs DEF CleanUpInit
<1>3. cleaner \in CleanerState /\ child \in ChildState
  BY <1>1, NoBoolean DEF CleanUpInit, CleanerState, ChildState
<1>4. /\ turned = <<>> /\ change = <<>> /\ cleaner.local = <<>> /\ pipe = <<>>
      /\ powers = MaxPowers /\ delayed = 0 /\ MaxPowers \in Nat
  BY CleanUpOK DEF CleanUpInit, CleanUpOK
<1>5. CleanUpTypes
  BY <1>1, <1>2, <1>3, <1>4, NoBoolean DEF CleanUpTypes
<1>6. CleanUpBounds
  BY <1>4, NoBoolean DEF CleanUpBounds, OnTheirWay, InHand
<1> QED BY <1>5, <1>6 DEF CleanUpInv

(* The lengths, as numbers.                                                *)
LEMMA Lengths ==
    ASSUME CleanUpTypes
    PROVE  Len(turned) \in Nat /\ Len(change) \in Nat /\ InHand \in Nat
           /\ Len(pipe) \in Nat /\ MaxPowers \in Nat
<1>1. cleaner.local \in Seq(BOOLEAN)
  BY DEF CleanUpTypes, CleanerState
<1> QED BY <1>1, LenProperties, CleanUpOK DEF CleanUpTypes, CleanUpOK, InHand

(* A step of the thread, of the server or of the process that tells the    *)
(* process nothing.                                                        *)
LEMMA QuietCleanUp ==
    ASSUME CleanUpInv, CleanUpTypes', UNCHANGED <<change, turned, pipe, delayed, powers>>,
           cleaner'.local = cleaner.local
    PROVE  CleanUpInv'
  BY DEF CleanUpInv, CleanUpBounds, OnTheirWay, InHand

LEMMA ThreadStep ==
    ASSUME CleanUpInv, CleanUpThread
    PROVE  CleanUpInv'
<1>0. CleanUpTypes /\ CleanUpBounds /\ Count \in Nat
  BY CountIs DEF CleanUpInv, CleanUpTypes
<1>n. /\ Len(turned) \in Nat /\ Len(change) \in Nat /\ InHand \in Nat
      /\ Len(pipe) \in Nat /\ MaxPowers \in Nat
  BY <1>0, Lengths
<1> USE DEF ButCleaner, Cleaner
<1>1. CASE ChangeSetting
  <2> DEFINE i == cleaner.next
  <2>1. /\ UNCHANGED <<asked, power, server, interrupted, turned, delayed, powers, change, pipe, child,
                       lost>>
        /\ i \in Nat /\ i <= Count
        /\ \/ /\ value' = [value EXCEPT ![i] = "wanted"]
              /\ cleaner' = [cleaner EXCEPT !.next = i + 1, !.restore[i] = Remembered(i)]
           \/ cleaner' = [cleaner EXCEPT !.next = i + 1] /\ UNCHANGED value
    BY <1>0, <1>1 DEF ChangeSetting, CleanUpTypes, CleanerState
  <2>2. Remembered(i) \in {"none", "other"}
    BY DEF Remembered
  <2>3. Count' = Count /\ Restore' = Restore /\ CleanerState' = CleanerState
        /\ ChildState' = ChildState
    BY <2>1 DEF Count, Restore, CleanerState, ChildState
  <2>4. value' \in [1..Count -> Value]
    BY <1>0, <2>1 DEF CleanUpTypes, Value
  <2>5. cleaner' \in CleanerState /\ cleaner'.local = cleaner.local
    <3>1. cleaner \in CleanerState
      BY <1>0 DEF CleanUpTypes
    <3>2. [cleaner.restore EXCEPT ![i] = Remembered(i)] \in Restore
      BY <2>2, <3>1 DEF CleanerState, Restore
    <3>3. CASE cleaner' = [cleaner EXCEPT !.next = i + 1]
      BY <2>1, <3>1, <3>3 DEF CleanerState
    <3>4. CASE cleaner' = [cleaner EXCEPT !.next = i + 1, !.restore[i] = Remembered(i)]
      <4>1. cleaner' = [cleaner EXCEPT !.next = i + 1,
                                       !.restore = [cleaner.restore EXCEPT ![i] = Remembered(i)]]
        BY <3>1, <3>4 DEF CleanerState
      <4>2. i + 1 \in Nat
        BY <2>1
      <4> HIDE DEF i
      <4> DEFINE R == [cleaner.restore EXCEPT ![i] = Remembered(i)]
      <4>3. R \in Restore /\ cleaner' = [cleaner EXCEPT !.next = i + 1, !.restore = R]
        BY <3>2, <4>1
      <4> HIDE DEF R
      <4> QED BY <3>1, <4>2, <4>3 DEF CleanerState
    <3> QED BY <2>1, <3>3, <3>4
  <2>6. CleanUpTypes'
    BY <1>0, <2>1, <2>3, <2>4, <2>5 DEF CleanUpTypes
  <2> QED BY <2>1, <2>5, <2>6, QuietCleanUp
<1>2. CASE StartChild
  <2>1. /\ UNCHANGED <<asked, power, server, interrupted, turned, delayed, powers, value, change, pipe>>
        /\ \/ /\ cleaner' = [cleaner EXCEPT !.pc = "wait"]
              /\ child' = [child EXCEPT !.pc = "reads", !.restore = cleaner.restore]
           \/ /\ cleaner' = [cleaner EXCEPT !.pc = "ended"]
              /\ UNCHANGED child
    BY <1>2 DEF StartChild
  <2>2. Count' = Count /\ Restore' = Restore /\ CleanerState' = CleanerState
        /\ ChildState' = ChildState
    BY <2>1 DEF Count, Restore, CleanerState, ChildState
  <2>3. cleaner' \in CleanerState /\ cleaner'.local = cleaner.local /\ child' \in ChildState
    BY <1>0, <2>1 DEF CleanUpTypes, CleanerState, ChildState
  <2>4. CleanUpTypes'
    BY <1>0, <2>1, <2>2, <2>3 DEF CleanUpTypes
  <2> QED BY <2>1, <2>3, <2>4, QuietCleanUp
<1>3. CASE AwaitChange
  <2>1. UNCHANGED <<asked, turned, delayed, powers, value, pipe, child>>
    BY <1>3 DEF AwaitChange
  <2>2. Count' = Count /\ Restore' = Restore /\ CleanerState' = CleanerState
        /\ ChildState' = ChildState
    BY <2>1 DEF Count, Restore, CleanerState, ChildState
  <2>3. CASE interrupted
    <3>1. cleaner' = [cleaner EXCEPT !.pc = "ended"] /\ UNCHANGED change
      BY <1>3, <2>3 DEF AwaitChange
    <3>2. cleaner' \in CleanerState /\ cleaner'.local = cleaner.local
      BY <1>0, <3>1 DEF CleanUpTypes, CleanerState
    <3>3. CleanUpTypes'
      BY <1>0, <2>1, <2>2, <3>1, <3>2 DEF CleanUpTypes
    <3> QED BY <2>1, <3>1, <3>2, <3>3, QuietCleanUp
  <2>4. CASE ~interrupted
    <3>1. cleaner' = [cleaner EXCEPT !.pc = "write", !.local = change] /\ change' = <<>>
      BY <1>3, <2>4 DEF AwaitChange
    <3>2. cleaner' \in CleanerState /\ cleaner'.local = change
      BY <1>0, <3>1 DEF CleanUpTypes, CleanerState
    <3>3. CleanUpTypes'
      BY <1>0, <2>1, <2>2, <3>1, <3>2, NoBoolean DEF CleanUpTypes
    <3>4. CleanUpBounds'
      <4>1. Len(change') = 0 /\ InHand' = Len(change)
        BY <3>1, <3>2, NoBoolean DEF InHand
      <4>2. Len(turned) + Len(change) + InHand + Len(pipe) + powers <= MaxPowers
            /\ Len(turned) <= 1 /\ powers \in Nat /\ delayed + powers <= MaxPowers
        BY <1>0 DEF CleanUpBounds, OnTheirWay, CleanUpTypes
      <4>3. Len(turned') + Len(change') + InHand' + Len(pipe') + powers' <= MaxPowers
        BY <1>n, <2>1, <4>1, <4>2
      <4> QED BY <2>1, <4>1, <4>2, <4>3 DEF CleanUpBounds, OnTheirWay
    <3> QED BY <3>3, <3>4 DEF CleanUpInv
  <2> QED BY <2>3, <2>4
<1>4. CASE WriteChange
  <2>1. /\ UNCHANGED <<asked, turned, delayed, powers, value, change, child>>
        /\ pipe' = pipe \o cleaner.local
        /\ cleaner' = [cleaner EXCEPT !.pc = "wait", !.local = <<>>]
    BY <1>4 DEF WriteChange
  <2>2. Count' = Count /\ Restore' = Restore /\ CleanerState' = CleanerState
        /\ ChildState' = ChildState
    BY <2>1 DEF Count, Restore, CleanerState, ChildState
  <2>3. cleaner' \in CleanerState /\ cleaner'.local = <<>> /\ cleaner.local \in Seq(BOOLEAN)
    BY <1>0, <2>1, NoBoolean DEF CleanUpTypes, CleanerState
  <2>4. pipe' \in Seq(BOOLEAN) /\ Len(pipe') = Len(pipe) + InHand
    BY <1>0, <2>1, <2>3, ConcatProperties DEF CleanUpTypes, InHand
  <2>5. CleanUpTypes'
    BY <1>0, <2>1, <2>2, <2>3, <2>4 DEF CleanUpTypes
  <2>6. CleanUpBounds'
    <3>1. InHand' = 0
      BY <2>3, NoBoolean DEF InHand
    <3>2. /\ Len(turned) + Len(change) + InHand + Len(pipe) + powers <= MaxPowers
          /\ Len(turned) <= 1 /\ Len(change) <= 1 /\ powers \in Nat
          /\ delayed + powers <= MaxPowers
      BY <1>0 DEF CleanUpBounds, OnTheirWay, CleanUpTypes
    <3>3. Len(turned') + Len(change') + InHand' + Len(pipe') + powers' <= MaxPowers
      BY <1>n, <2>1, <2>4, <3>1, <3>2
    <3> QED BY <2>1, <3>2, <3>3 DEF CleanUpBounds, OnTheirWay
  <2> QED BY <2>5, <2>6 DEF CleanUpInv
<1> QED BY <1>1, <1>2, <1>3, <1>4 DEF CleanUpThread

LEMMA ServerStep ==
    ASSUME CleanUpInv,
           \/ \E on \in BOOLEAN : TurnDisplay(on) \/ ScreenChanges(on)
           \/ SetRestoreDisplayPower \/ PowerKey \/ ForceOff \/ InterruptCleanUp
           \/ ServerExits \/ ServerIsKilled
    PROVE  CleanUpInv'
<1>0. CleanUpTypes /\ CleanUpBounds
  BY DEF CleanUpInv
<1>1. /\ UNCHANGED <<asked, value, cleaner, pipe, child>>
      /\ \/ UNCHANGED <<turned, change, powers, delayed>>
         \/ /\ powers > 0 /\ powers' = powers - 1 /\ UNCHANGED <<turned, change>>
            /\ delayed' = delayed \/ delayed' = delayed + 1
         \/ delayed > 0 /\ delayed' = delayed - 1 /\ UNCHANGED <<turned, change, powers>>
         \/ /\ powers > 0 /\ powers' = powers - 1 /\ turned = <<>>
            /\ UNCHANGED <<change, delayed>> /\ \E on \in BOOLEAN : turned' = <<on>>
         \/ /\ turned # <<>> /\ change' = <<~turned[1]>> /\ turned' = <<>>
            /\ UNCHANGED <<powers, delayed>>
  BY DEF TurnDisplay, ScreenChanges, SetRestoreDisplayPower, PowerKey, ForceOff,
         InterruptCleanUp, ServerExits, ServerIsKilled, Dies, ButServer
<1>2. /\ value' \in [1..Count' -> Value] /\ cleaner' \in CleanerState' /\ child' \in ChildState'
      /\ asked' \in CleanUpSetups /\ pipe' \in Seq(BOOLEAN)
  BY <1>0, <1>1 DEF CleanUpTypes, Count, CleanerState, ChildState, Restore
<1>h. InHand' = InHand
  BY <1>1 DEF InHand
<1>3. /\ Len(turned) + Len(change) + InHand + Len(pipe) + powers <= MaxPowers
      /\ Len(turned) <= 1 /\ Len(change) <= 1 /\ powers \in Nat
  BY <1>0 DEF CleanUpBounds, OnTheirWay, CleanUpTypes
<1>l. Len(turned) + Len(change) + InHand + Len(pipe) + powers <= MaxPowers
      /\ powers \in Nat
  BY <1>3
<1>n. /\ Len(turned) \in Nat /\ Len(change) \in Nat /\ InHand \in Nat
      /\ Len(pipe) \in Nat /\ MaxPowers \in Nat
  BY <1>0, Lengths
<1>s. turned \in Seq(BOOLEAN) /\ change \in Seq(BOOLEAN)
  BY <1>0 DEF CleanUpTypes
<1>d. delayed \in Nat /\ powers \in Nat /\ delayed + powers <= MaxPowers /\ MaxPowers \in Nat
  BY <1>0, <1>n DEF CleanUpTypes, CleanUpBounds
<1>4. ASSUME UNCHANGED <<turned, change>>, powers' \in Nat, delayed' \in Nat,
             powers' <= powers, delayed' + powers' <= MaxPowers
      PROVE  CleanUpInv'
  <2>1. Len(turned') + Len(change') + InHand' + Len(pipe') + powers' <= MaxPowers
    BY <1>1, <1>h, <1>n, <1>l, <1>4
  <2>3. CleanUpTypes'
    BY <1>2, <1>s, <1>4 DEF CleanUpTypes
  <2>4. CleanUpBounds'
    BY <1>3, <1>4, <2>1 DEF CleanUpBounds, OnTheirWay
  <2> QED BY <2>3, <2>4 DEF CleanUpInv
<1>5. ASSUME NEW on \in BOOLEAN, powers > 0, powers' = powers - 1, turned = <<>>,
             UNCHANGED <<change, delayed>>, turned' = <<on>>
      PROVE  CleanUpInv'
  <2>1. Len(turned) = 0 /\ Len(turned') = 1 /\ turned' \in Seq(BOOLEAN)
    BY <1>5, NoBoolean, SingleBoolean
  <2>2. Len(turned') + Len(change') + InHand' + Len(pipe') + powers' <= MaxPowers
    BY <1>1, <1>h, <1>n, <1>l, <1>5, <2>1
  <2>3. powers' \in Nat /\ delayed' + powers' <= MaxPowers
    BY <1>d, <1>n, <1>5
  <2>4. CleanUpTypes'
    BY <1>2, <1>5, <1>d, <1>s, <2>1, <2>3 DEF CleanUpTypes
  <2>5. CleanUpBounds'
    BY <1>3, <1>5, <2>1, <2>2, <2>3 DEF CleanUpBounds, OnTheirWay
  <2> QED BY <2>4, <2>5 DEF CleanUpInv
<1>6. CASE turned # <<>> /\ change' = <<~turned[1]>> /\ turned' = <<>>
           /\ UNCHANGED <<powers, delayed>>
  <2>1. Len(turned') = 0 /\ Len(change') = 1 /\ turned' \in Seq(BOOLEAN) /\ change' \in Seq(BOOLEAN)
    BY <1>6, NoBoolean, SingleBoolean
  <2>2. Len(turned) = 1
    BY <1>3, <1>6, <1>n, <1>s, EmptySeq
  <2>3. Len(turned') + Len(change') + InHand' + Len(pipe') + powers' <= MaxPowers
    BY <1>1, <1>h, <1>n, <1>l, <1>6, <2>1, <2>2
  <2> QED BY <1>2, <1>3, <1>d, <1>6, <1>s, <2>1, <2>3 DEF CleanUpInv, CleanUpTypes,
      CleanUpBounds, OnTheirWay
<1>7. CASE UNCHANGED <<turned, change, powers, delayed>>
  BY <1>4, <1>d, <1>7
<1>8. CASE /\ powers > 0 /\ powers' = powers - 1 /\ UNCHANGED <<turned, change>>
           /\ delayed' = delayed \/ delayed' = delayed + 1
  BY <1>4, <1>d, <1>8
<1>9. CASE delayed > 0 /\ delayed' = delayed - 1 /\ UNCHANGED <<turned, change, powers>>
  BY <1>4, <1>d, <1>9
<1> QED BY <1>1, <1>5, <1>6, <1>7, <1>8, <1>9

LEMMA ChildStep ==
    ASSUME CleanUpInv, ChildProcess
    PROVE  CleanUpInv'
<1>0. CleanUpTypes /\ CleanUpBounds /\ Count \in Nat
  BY CountIs DEF CleanUpInv, CleanUpTypes
<1>n. /\ Len(turned) \in Nat /\ Len(change) \in Nat /\ InHand \in Nat
      /\ Len(pipe) \in Nat /\ MaxPowers \in Nat
  BY <1>0, Lengths
<1> USE DEF ButChild
<1>1. UNCHANGED <<asked, cleaner, change, turned, delayed, powers>>
  BY DEF ChildProcess, ChildReads, ChildSeesEnd, ChildRestores, ChildEnds
<1>2. /\ Count' = Count /\ Restore' = Restore /\ CleanerState' = CleanerState
      /\ ChildState' = ChildState
  BY <1>1 DEF Count, Restore, CleanerState, ChildState
<1>h. InHand' = InHand
  BY <1>1 DEF InHand
<1>3. child \in ChildState /\ value \in [1..Count -> Value] /\ pipe \in Seq(BOOLEAN)
  BY <1>0 DEF CleanUpTypes
<1>4. CASE ChildReads
  <2>1. /\ pipe # <<>> /\ pipe' = Tail(pipe) /\ child' = [child EXCEPT !.power = Head(pipe)]
        /\ UNCHANGED value
    BY <1>4 DEF ChildReads
  <2>2. Head(pipe) \in BOOLEAN /\ pipe' \in Seq(BOOLEAN) /\ Len(pipe') = Len(pipe) - 1
    BY <1>3, <2>1, HeadTailProperties
  <2>3. child' \in ChildState
    BY <1>3, <2>1, <2>2 DEF ChildState
  <2>4. CleanUpTypes'
    BY <1>0, <1>1, <1>2, <1>3, <2>1, <2>2, <2>3 DEF CleanUpTypes
  <2>5. CleanUpBounds'
    <3>1. /\ Len(turned) + Len(change) + InHand + Len(pipe) + powers <= MaxPowers
          /\ Len(turned) <= 1 /\ Len(change) <= 1 /\ powers \in Nat
          /\ delayed + powers <= MaxPowers
      BY <1>0 DEF CleanUpBounds, OnTheirWay, CleanUpTypes
    <3>2. Len(turned') + Len(change') + InHand' + Len(pipe') + powers' <= MaxPowers
      BY <1>1, <1>h, <1>n, <2>2, <3>1
    <3> QED BY <1>1, <3>1, <3>2 DEF CleanUpBounds, OnTheirWay
  <2> QED BY <2>4, <2>5 DEF CleanUpInv
<1>5. ASSUME UNCHANGED pipe, child' \in ChildState, value' \in [1..Count -> Value]
      PROVE  CleanUpInv'
  <2>1. CleanUpTypes'
    BY <1>0, <1>1, <1>2, <1>5 DEF CleanUpTypes
  <2> QED BY <1>1, <1>5, <2>1, QuietCleanUp
<1>6. CASE ChildSeesEnd
  BY <1>3, <1>5, <1>6 DEF ChildSeesEnd, ChildState
<1>7. CASE ChildRestores
  <2>1. child.next <= Count /\ UNCHANGED pipe
        /\ \/ /\ child' = [child EXCEPT !.next = child.next + 1]
              /\ value' = (IF child.restore[child.next] = "none" THEN value
                           ELSE [value EXCEPT ![child.next] = child.restore[child.next]])
           \/ /\ child' = [child EXCEPT !.next = child.next + 1,
                                        !.failed = child.failed \cup {child.next}]
              /\ child.restore[child.next] # "none" /\ UNCHANGED value
    BY <1>7 DEF ChildRestores
  <2>2. child' \in ChildState
    <3>1. child.next + 1 \in Nat \ {0} /\ child.next \in 1..Count
          /\ child.failed \cup {child.next} \subseteq 1..Count
      BY <1>0, <1>3, <2>1 DEF ChildState
    <3> QED BY <1>3, <2>1, <3>1 DEF ChildState
  <2>3. value' \in [1..Count -> Value]
    <3>1. child.restore \in [1..Count -> {"none", "other"}]
      BY <1>3 DEF ChildState, Restore
    <3>2. CASE UNCHANGED value
      BY <1>3, <3>2
    <3>3. CASE child.restore[child.next] # "none" /\ ~UNCHANGED value
      <4>1. value' = [value EXCEPT ![child.next] = child.restore[child.next]]
        BY <2>1, <3>3
      <4>2. ASSUME NEW n \in 1..Count PROVE value'[n] \in Value
        BY <1>3, <3>1, <3>3, <4>1 DEF Value
      <4> QED BY <1>3, <4>1, <4>2
    <3> QED BY <2>1, <3>2, <3>3
  <2> QED BY <1>5, <2>1, <2>2, <2>3
<1>8. CASE ChildEnds
  BY <1>3, <1>5, <1>8 DEF ChildEnds, ChildState
<1> QED BY <1>4, <1>6, <1>7, <1>8 DEF ChildProcess

LEMMA CleanUpStep == CleanUpInv /\ [CleanUpNext]_cleanVars => CleanUpInv'
<1> SUFFICES ASSUME CleanUpInv, [CleanUpNext]_cleanVars PROVE CleanUpInv'
  OBVIOUS
<1>1. CASE UNCHANGED cleanVars
  BY <1>1 DEF cleanVars, CleanUpInv, CleanUpTypes, CleanUpBounds, OnTheirWay,
      InHand, Count, CleanerState,
              ChildState, Restore
<1> QED BY <1>1, ThreadStep, ServerStep, ChildStep DEF CleanUpNext

LEMMA CleanUpHolds == CleanUpInv => CleanUpTypeOK
<1> SUFFICES ASSUME CleanUpInv PROVE CleanUpTypeOK
  OBVIOUS
<1>1. CleanUpTypes /\ CleanUpBounds
  BY DEF CleanUpInv
<1>2. /\ Len(turned) + Len(change) + InHand + Len(pipe) + powers <= MaxPowers
      /\ Len(turned) <= 1 /\ Len(change) <= 1 /\ powers \in Nat
      /\ delayed \in Nat /\ delayed + powers <= MaxPowers
  BY <1>1 DEF CleanUpBounds, OnTheirWay, CleanUpTypes
<1>n. /\ Len(turned) \in Nat /\ Len(change) \in Nat /\ InHand \in Nat
      /\ Len(pipe) \in Nat /\ MaxPowers \in Nat
  BY <1>1, Lengths
<1>3. Len(pipe) <= MaxPowers /\ delayed \in 0..MaxPowers
  BY <1>2, <1>n
<1>4. /\ value \in [1..Count -> {"wanted", "other", "unset"}]
      /\ cleaner.pc \in {"settings", "wait", "write", "ended"}
      /\ child.pc \in {"none", "reads", "restores", "done"} /\ child.failed \subseteq 1..Count
  BY <1>1 DEF CleanUpTypes, CleanerState, ChildState, Value
<1> QED BY <1>2, <1>3, <1>4 DEF CleanUpTypeOK

--------------------------------------------------------------------------------
(* The server on the device                                                *)

DeviceInv == TouchInv /\ CaptureInv /\ CleanUpInv

(* A step of one part changes nothing of the others.                       *)
LEMMA DeviceKeeps == DeviceSpec => []DeviceInv
<1>1. DeviceInit => DeviceInv
  BY TouchStarts, CaptureStarts, CleanUpStarts DEF DeviceInit, DeviceInv
<1>2. DeviceInv /\ [DeviceNext]_deviceVars => DeviceInv'
  <2> SUFFICES ASSUME DeviceInv, [DeviceNext]_deviceVars PROVE DeviceInv'
    OBVIOUS
  <2>1. [TouchNext]_touchVars /\ [CaptureNext]_captureVars /\ [CleanUpNext]_cleanVars
    <3>1. CASE Touch_Next
      BY <3>1 DEF Touch_Next
    <3>2. CASE Capture_Next
      BY <3>2 DEF Capture_Next, OnlyCapture
    <3>3. CASE CleanUp_Next
      BY <3>3 DEF CleanUp_Next, OnlyCleanUp
    <3>4. CASE UNCHANGED deviceVars
      BY <3>4 DEF deviceVars
    <3> QED BY <3>1, <3>2, <3>3, <3>4 DEF DeviceNext
  <2> QED BY <2>1, TouchStep, CaptureStep, CleanUpStep DEF DeviceInv
<1> QED BY <1>1, <1>2, PTL DEF DeviceSpec

(* The types of the server on the device: in particular, an encoder is not *)
(* tried more often than the maximum, the monitor is not told of more than *)
(* what happened, and the input of the process that cleans up holds no     *)
(* more than what was written.                                             *)
THEOREM DeviceTypes == DeviceSpec => []DeviceTypeOK
<1>1. DeviceInv => DeviceTypeOK
  BY TouchHolds, CaptureTypesHold, CleanUpHolds DEF DeviceInv, CaptureInv,
      DeviceTypeOK
<1> QED BY <1>1, DeviceKeeps, PTL

(* The device remembers exactly the pointers that are down, each with an id *)
(* of its own, and what the applications receive are gestures (PointersState*)
(* .java, Controller.java:554, 562-568), whatever the order in which the   *)
(* fingers and the buttons go down and up.                                 *)
THEOREM TouchesStayFaithful == DeviceSpec => []TouchesAreFaithful
<1>1. DeviceInv => TouchesAreFaithful
  BY TouchHolds DEF DeviceInv
<1> QED BY <1>1, DeviceKeeps, PTL

(* The client has been told of the display as it is, whatever the display, *)
(* its monitor, the client and the debouncer did meanwhile, however many   *)
(* changes, resizes, resets and failures there were.                       *)
THEOREM SessionStaysTruthful == DeviceSpec => []SessionIsTruthful
<1>1. DeviceInv => SessionIsTruthful
  BY CaptureHolds DEF DeviceInv
<1> QED BY <1>1, DeviceKeeps, PTL
================================================================================
