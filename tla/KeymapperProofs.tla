---------------------------- MODULE KeymapperProofs ----------------------------
(***************************************************************************)
(* Proofs about the keymapper (KeymapConfig and Keymapper), for any keys,  *)
(* buttons, files and limits, and any number of held inputs: what a load   *)
(* returns and that bindings survive a save; its types, that the aim flag  *)
(* is the state of the aim finger, that the mask of buttons keeps only held*)
(* ones, and that the fingers on the device are those of the held inputs.  *)
(***************************************************************************)
EXTENDS Keymapper, SequenceTheorems, WellFoundedInduction, TLAPS

(* The least element of a set of numbers.                                  *)
LEMMA Least ==
    ASSUME NEW T \in SUBSET Nat, T # {}
    PROVE  \E m \in T : \A n \in T : m <= n
<1>1. \E m \in T : \A n \in T : ~(<<n, m>> \in OpToRel(<, Nat))
  BY NatLessThanWellFounded, WFMin
<1>2. PICK m \in T : \A n \in T : ~(<<n, m>> \in OpToRel(<, Nat))
  BY <1>1
<1>3. ASSUME NEW n \in T PROVE m <= n
  <2>1. ~(n < m)
    BY <1>2 DEF OpToRel
  <2> QED BY <2>1
<1> QED BY <1>3

(* Induction, for a set in place of a predicate.                           *)
LEMMA Induction ==
    ASSUME NEW T, 0 \in T, \A n \in Nat : n \in T => n + 1 \in T
    PROVE  Nat \subseteq T
<1> SUFFICES ASSUME Nat \ T # {} PROVE FALSE
  OBVIOUS
<1>1. PICK m \in Nat \ T : \A n \in Nat \ T : m <= n
  BY Least
<1>2. m # 0 /\ m - 1 \in Nat
  BY <1>1
<1>3. m - 1 \in T
  BY <1>1, <1>2
<1>4. (m - 1) + 1 \in T
  BY <1>2, <1>3
<1> QED BY <1>1, <1>4

-------------------------------------------------------------------------------
(* The recursive definition of Loaded() has a solution, line by line.      *)

Follows(f, lines, n) ==
    f = [i \in 0..n |-> IF i = 0 THEN <<>> ELSE Grow(f[i - 1], lines[i], i)]

LEMMA Solution ==
    ASSUME NEW lines
    PROVE  \A n \in Nat : \E f : Follows(f, lines, n)
<1> DEFINE T == {n \in Nat : \E f : Follows(f, lines, n)}
<1>1. 0 \in T
  <2>1. Follows([i \in 0..0 |-> <<>>], lines, 0)
    BY DEF Follows
  <2> QED BY <2>1
<1>2. ASSUME NEW n \in Nat, n \in T PROVE n + 1 \in T
  <2>1. PICK f : Follows(f, lines, n)
    BY <1>2
  <2> DEFINE g == [i \in 0..(n + 1) |->
                      IF i = n + 1 THEN Grow(f[n], lines[n + 1], n + 1) ELSE f[i]]
             h == [i \in 0..(n + 1) |->
                      IF i = 0 THEN <<>> ELSE Grow(g[i - 1], lines[i], i)]
  <2>2. ASSUME NEW i \in 0..(n + 1) PROVE g[i] = h[i]
    <3>1. CASE i = n + 1
      <4>1. g[i - 1] = f[n] /\ i # 0
        BY <3>1
      <4> QED BY <3>1, <4>1
    <3>2. CASE i # n + 1 /\ i # 0
      <4>1. i \in 0..n /\ i - 1 \in 0..(n + 1) /\ i - 1 # n + 1
        BY <3>2
      <4>2. g[i - 1] = f[i - 1] /\ g[i] = f[i]
        BY <3>2, <4>1
      <4>3. f[i] = Grow(f[i - 1], lines[i], i)
        BY <2>1, <3>2, <4>1 DEF Follows
      <4> QED BY <3>2, <4>2, <4>3
    <3>3. CASE i = 0
      <4>1. f[0] = <<>>
        BY <2>1 DEF Follows
      <4>2. g[i] = f[0]
        BY <3>3
      <4> QED BY <3>3, <4>1, <4>2
    <3> QED BY <3>1, <3>2, <3>3
  <2>3. g = h
    BY <2>2
  <2>4. Follows(g, lines, n + 1)
    BY <2>3 DEF Follows
  <2> QED BY <2>4
<1>3. Nat \subseteq T
  <2> HIDE DEF T
  <2> QED BY <1>1, <1>2, Induction
<1> QED BY <1>3

LEMMA LoadedSteps ==
    ASSUME NEW lines \in Seq(Line)
    PROVE  /\ Loaded(lines)[0] = <<>>
           /\ \A n \in 1..Len(lines) :
                 Loaded(lines)[n] = Grow(Loaded(lines)[n - 1], lines[n], n)
<1> DEFINE f == Loaded(lines)
<1>1. \E g : Follows(g, lines, Len(lines))
  <2>1. Len(lines) \in Nat
    BY LenProperties
  <2> QED BY <2>1, Solution
<1>2. Follows(f, lines, Len(lines))
  BY <1>1 DEF Follows, Loaded
<1>3. f[0] = <<>>
  BY <1>2 DEF Follows
<1>4. ASSUME NEW n \in 1..Len(lines) PROVE f[n] = Grow(f[n - 1], lines[n], n)
  <2>1. n \in 0..Len(lines) /\ n # 0
    OBVIOUS
  <2> HIDE DEF f
  <2> QED BY <1>2, <2>1 DEF Follows
<1> QED BY <1>3, <1>4
(* After n lines, the bindings are those of the first of these that are    *)
(* bindings, in their order, with the number of their line as id, and of   *)
(* all of them if the array is large enough.                               *)
LoadedAs(r, lines, n) ==
    /\ r \in Seq(Binding)
    /\ Len(r) <= n
    /\ Len(r) <= MaxBindings
    /\ \A i \in 1..Len(r) :
          /\ r[i].pid \in 1..n
          /\ IsBinding(lines[r[i].pid])
          /\ r[i] = Parsed(lines[r[i].pid], r[i].pid)
    /\ \A i, j \in 1..Len(r) : i < j => r[i].pid < r[j].pid
    /\ n <= MaxBindings =>
          \A m \in 1..n : IsBinding(lines[m]) => \E i \in 1..Len(r) : r[i].pid = m

LEMMA ParsedType ==
    ASSUME NEW line \in Line, IsBinding(line), NEW n \in Nat
    PROVE  Parsed(line, n) \in Binding /\ Parsed(line, n).pid = n
BY DEF Line, Binding, IsBinding, Parsed

LEMMA GrowsAs ==
    ASSUME NEW lines \in Seq(Line), NEW n \in Nat, n + 1 <= Len(lines), NEW r,
           LoadedAs(r, lines, n)
    PROVE  LoadedAs(Grow(r, lines[n + 1], n + 1), lines, n + 1)
<1> DEFINE line == lines[n + 1]
           b == Parsed(line, n + 1)
           q == Grow(r, line, n + 1)
<1>1. r \in Seq(Binding) /\ Len(r) \in Nat /\ Len(r) <= n /\ Len(r) <= MaxBindings
  BY LenProperties DEF LoadedAs
<1>2. line \in Line
  <2>1. n + 1 \in 1..Len(lines)
    BY LenProperties
  <2> QED BY <2>1, ElementOfSeq
<1>3. MaxBindings \in Nat
  BY ConfigConstantsOK
<1>4. CASE IsBinding(line) /\ Len(r) < MaxBindings
  <2>1. q = Append(r, b)
    BY <1>4 DEF Grow
  <2>2. b \in Binding /\ b.pid = n + 1
    BY <1>2, <1>4, ParsedType
  <2> HIDE DEF q, b
  <2>3. /\ q \in Seq(Binding)
        /\ Len(q) = Len(r) + 1
        /\ \A i \in 1..Len(r) : q[i] = r[i]
        /\ q[Len(r) + 1] = b
    BY <1>1, <2>1, <2>2, AppendProperties
  <2>4. Len(q) <= n + 1 /\ Len(q) <= MaxBindings
    BY <1>1, <1>3, <1>4, <2>3
  <2>5. ASSUME NEW i \in 1..Len(q)
        PROVE  /\ q[i].pid \in 1..(n + 1)
               /\ IsBinding(lines[q[i].pid])
               /\ q[i] = Parsed(lines[q[i].pid], q[i].pid)
    <3>1. CASE i = Len(r) + 1
      <4>1. q[i] = b
        BY <2>3, <3>1
      <4> QED BY <1>4, <2>2, <4>1 DEF b
    <3>2. CASE i \in 1..Len(r)
      <4>1. q[i] = r[i] /\ r[i].pid \in 1..n
        BY <2>3, <3>2 DEF LoadedAs
      <4> QED BY <3>2, <4>1 DEF LoadedAs
    <3> QED BY <1>1, <2>3, <3>1, <3>2
  <2>6. ASSUME NEW i \in 1..Len(q), NEW j \in 1..Len(q), i < j
        PROVE  q[i].pid < q[j].pid
    <3>1. i \in 1..Len(r) /\ q[i] = r[i] /\ r[i].pid \in 1..n
      BY <1>1, <2>3, <2>6 DEF LoadedAs
    <3>2. CASE j = Len(r) + 1
      <4>1. q[j].pid = n + 1
        BY <2>2, <2>3, <3>2
      <4> QED BY <3>1, <4>1
    <3>3. CASE j \in 1..Len(r)
      BY <2>3, <2>6, <3>1, <3>3 DEF LoadedAs
    <3> QED BY <1>1, <2>3, <3>2, <3>3
  <2>7. ASSUME n + 1 <= MaxBindings, NEW m \in 1..(n + 1), IsBinding(lines[m])
        PROVE  \E i \in 1..Len(q) : q[i].pid = m
    <3>1. CASE m = n + 1
      BY <1>1, <2>2, <2>3, <3>1
    <3>2. CASE m \in 1..n
      <4>1. PICK i \in 1..Len(r) : r[i].pid = m
        BY <1>3, <2>7, <3>2 DEF LoadedAs
      <4>2. q[i].pid = m /\ i \in 1..Len(q)
        BY <1>1, <2>3, <4>1
      <4> QED BY <4>2
    <3> QED BY <3>1, <3>2
  <2>8. LoadedAs(q, lines, n + 1)
    BY <2>3, <2>4, <2>5, <2>6, <2>7 DEF LoadedAs
  <2> QED BY <2>8 DEF q
<1>5. CASE ~(IsBinding(line) /\ Len(r) < MaxBindings)
  <2>1. q = r
    BY <1>5 DEF Grow
  <2>2. n + 1 <= MaxBindings => ~IsBinding(line)
    BY <1>1, <1>3, <1>5
  <2>3. LoadedAs(r, lines, n + 1)
    <3>1. Len(r) <= n + 1
      BY <1>1
    <3>2. ASSUME NEW i \in 1..Len(r)
          PROVE  /\ r[i].pid \in 1..(n + 1)
                 /\ IsBinding(lines[r[i].pid])
                 /\ r[i] = Parsed(lines[r[i].pid], r[i].pid)
      <4>1. r[i].pid \in 1..n
        BY DEF LoadedAs
      <4>2. r[i].pid \in 1..(n + 1)
        BY <4>1
      <4> QED BY <4>2 DEF LoadedAs
    <3>3. ASSUME n + 1 <= MaxBindings, NEW m \in 1..(n + 1), IsBinding(lines[m])
          PROVE  \E i \in 1..Len(r) : r[i].pid = m
      <4>1. m \in 1..n /\ n <= MaxBindings
        BY <1>3, <2>2, <3>3
      <4> QED BY <3>3, <4>1 DEF LoadedAs
    <3>4. \A i, j \in 1..Len(r) : i < j => r[i].pid < r[j].pid
      BY DEF LoadedAs
    <3> QED BY <1>1, <3>1, <3>2, <3>3, <3>4 DEF LoadedAs
  <2> QED BY <2>1, <2>3
<1> QED BY <1>4, <1>5

(* What a load returns.                                                    *)
LEMMA LoadIs ==
    ASSUME NEW lines \in Seq(Line)
    PROVE  LoadedAs(Load(lines), lines, Len(lines))
<1> DEFINE T == {n \in Nat : n <= Len(lines) => LoadedAs(Loaded(lines)[n], lines, n)}
<1>1. Len(lines) \in Nat
  BY LenProperties
<1>2. 0 \in T
  <2>1. LoadedAs(<<>>, lines, 0)
    <3>1. <<>> \in Seq(Binding) /\ Len(<<>>) = 0
      BY EmptySeq
    <3>2. MaxBindings \in Nat
      BY ConfigConstantsOK
    <3> QED BY <3>1, <3>2 DEF LoadedAs
  <2> QED BY <2>1, LoadedSteps
<1>3. ASSUME NEW n \in Nat, n \in T PROVE n + 1 \in T
  <2> SUFFICES ASSUME n + 1 <= Len(lines) PROVE LoadedAs(Loaded(lines)[n + 1], lines, n + 1)
    OBVIOUS
  <2>1. LoadedAs(Loaded(lines)[n], lines, n)
    BY <1>1, <1>3
  <2>2. LoadedAs(Grow(Loaded(lines)[n], lines[n + 1], n + 1), lines, n + 1)
    BY <2>1, GrowsAs
  <2>3. n + 1 \in 1..Len(lines) /\ (n + 1) - 1 = n
    BY <1>1
  <2> QED BY <2>2, <2>3, LoadedSteps
<1>4. Nat \subseteq T
  <2> HIDE DEF T
  <2> QED BY <1>2, <1>3, Induction
<1> QED BY <1>1, <1>4 DEF Load

-------------------------------------------------------------------------------
(* What is saved and loaded again                                          *)

First(I) == {i \in I : \A j \in I : i <= j}

LEMMA SameFirst ==
    ASSUME NEW s \in Seq(Binding), NEW r \in Seq(Binding),
           NEW J \in SUBSET (1..Len(s)), NEW I \in SUBSET (1..Len(r)),
           \A i \in 1..Len(r) : r[i].pid \in 1..Len(s),
           \A i, j \in 1..Len(r) : i < j => r[i].pid < r[j].pid,
           \A i \in 1..Len(r) : i \in I <=> r[i].pid \in J,
           \A j \in J : \E i \in 1..Len(r) : r[i].pid = j,
           \A i \in I : PlaceOf(r[i]) = PlaceOf(s[r[i].pid])
    PROVE  {PlaceOf(r[i]) : i \in First(I)} = {PlaceOf(s[j]) : j \in First(J)}
<1>1. ASSUME NEW i \in First(I) PROVE r[i].pid \in First(J)
  <2>1. i \in 1..Len(r) /\ r[i].pid \in J
    BY <1>1 DEF First
  <2>2. ASSUME NEW j \in J PROVE r[i].pid <= j
    <3>1. PICK k \in 1..Len(r) : r[k].pid = j
      OBVIOUS
    <3>2. i <= k
      BY <1>1, <3>1 DEF First
    <3>3. i = k \/ i < k
      BY <2>1, <3>2
    <3>4. r[i].pid = j \/ r[i].pid < j
      BY <2>1, <3>1, <3>3
    <3> QED BY <2>1, <3>4
  <2> QED BY <2>1, <2>2 DEF First
<1>2. ASSUME NEW j \in First(J)
      PROVE  \E i \in First(I) : r[i].pid = j
  <2>1. PICK i \in 1..Len(r) : r[i].pid = j
    BY <1>2 DEF First
  <2>2. i \in I
    BY <1>2, <2>1 DEF First
  <2>3. ASSUME NEW k \in I PROVE i <= k
    <3>1. r[k].pid \in J /\ k \in 1..Len(r)
      OBVIOUS
    <3>2. r[i].pid <= r[k].pid
      BY <1>2, <2>1, <3>1 DEF First
    <3>3. ~(k < i)
      BY <2>1, <3>1, <3>2
    <3> QED BY <3>1, <3>3
  <2> QED BY <2>1, <2>2, <2>3 DEF First
<1>3. \A i \in First(I) : PlaceOf(r[i]) = PlaceOf(s[r[i].pid])
  BY DEF First
<1> QED BY <1>1, <1>2, <1>3

(* What a lookup finds, by indices.                                        *)
LEMMA FindsFirst ==
    ASSUME NEW s \in Seq(Binding)
    PROVE  /\ \A k : Place(FindKey(s, k)) =
                 {PlaceOf(s[i]) : i \in First({n \in 1..Len(s) : s[n].type = "KEY" /\ s[n].code = k})}
           /\ \A m : Place(FindMouse(s, m)) =
                 {PlaceOf(s[i]) : i \in First({n \in 1..Len(s) : s[n].type = "MOUSE" /\ s[n].code = m})}
           /\ Place(FindAim(s)) =
                 {PlaceOf(s[i]) : i \in First({n \in 1..Len(s) : s[n].type = "AIM"})}
<1>0. Len(s) \in Nat
  BY LenProperties
<1>1. ASSUME NEW I \in SUBSET (1..Len(s))
      PROVE  First(I) = {i \in 1..Len(s) : i \in I /\ \A j \in 1..(i - 1) : j \notin I}
  <2>1. ASSUME NEW i \in 1..Len(s), i \in I
        PROVE  (\A j \in I : i <= j) <=> (\A j \in 1..(i - 1) : j \notin I)
    <3>1. ASSUME \A j \in I : i <= j, NEW j \in 1..(i - 1), j \in I PROVE FALSE
      BY <3>1, <1>0
    <3>2. ASSUME \A j \in 1..(i - 1) : j \notin I, NEW j \in I PROVE i <= j
      <4>1. j \in 1..Len(s) /\ j \notin 1..(i - 1)
        BY <3>2
      <4> QED BY <1>0, <4>1
    <3> QED BY <3>1, <3>2
  <2> QED BY <2>1 DEF First
<1>2. ASSUME NEW k
      PROVE  Place(FindKey(s, k)) =
                 {PlaceOf(s[i]) : i \in First({n \in 1..Len(s) : s[n].type = "KEY" /\ s[n].code = k})}
  <2> DEFINE I == {n \in 1..Len(s) : s[n].type = "KEY" /\ s[n].code = k}
             F == {i \in 1..Len(s) : i \in I /\ \A j \in 1..(i - 1) : j \notin I}
             G == {i \in 1..Len(s) :
                      /\ s[i].type = "KEY" /\ s[i].code = k
                      /\ \A j \in 1..(i - 1) : ~(s[j].type = "KEY" /\ s[j].code = k)}
  <2>1. FindKey(s, k) = {s[n] : n \in G}
    BY DEF FindKey, FirstMatch
  <2>2. F = G
    BY <1>0
  <2>3. First(I) = F
    BY <1>1
  <2>4. Place(FindKey(s, k)) = {PlaceOf(s[n]) : n \in G}
    <3> HIDE DEF G
    <3> QED BY <2>1 DEF Place
  <2> HIDE DEF F, G
  <2> QED BY <2>2, <2>3, <2>4
<1>3. ASSUME NEW m
      PROVE  Place(FindMouse(s, m)) =
                 {PlaceOf(s[i]) : i \in First({n \in 1..Len(s) : s[n].type = "MOUSE" /\ s[n].code = m})}
  <2> DEFINE I == {n \in 1..Len(s) : s[n].type = "MOUSE" /\ s[n].code = m}
             F == {i \in 1..Len(s) : i \in I /\ \A j \in 1..(i - 1) : j \notin I}
             G == {i \in 1..Len(s) :
                      /\ s[i].type = "MOUSE" /\ s[i].code = m
                      /\ \A j \in 1..(i - 1) : ~(s[j].type = "MOUSE" /\ s[j].code = m)}
  <2>1. FindMouse(s, m) = {s[n] : n \in G}
    BY DEF FindMouse, FirstMatch
  <2>2. F = G
    BY <1>0
  <2>3. First(I) = F
    BY <1>1
  <2>4. Place(FindMouse(s, m)) = {PlaceOf(s[n]) : n \in G}
    <3> HIDE DEF G
    <3> QED BY <2>1 DEF Place
  <2> HIDE DEF F, G
  <2> QED BY <2>2, <2>3, <2>4
<1>4. Place(FindAim(s)) =
          {PlaceOf(s[i]) : i \in First({n \in 1..Len(s) : s[n].type = "AIM"})}
  <2> DEFINE I == {n \in 1..Len(s) : s[n].type = "AIM"}
             F == {i \in 1..Len(s) : i \in I /\ \A j \in 1..(i - 1) : j \notin I}
             G == {i \in 1..Len(s) : /\ s[i].type = "AIM"
                                     /\ \A j \in 1..(i - 1) : ~(s[j].type = "AIM")}
  <2>1. FindAim(s) = {s[n] : n \in G}
    BY DEF FindAim, FirstMatch
  <2>2. F = G
    BY <1>0
  <2>3. First(I) = F
    BY <1>1
  <2>4. Place(FindAim(s)) = {PlaceOf(s[n]) : n \in G}
    <3> HIDE DEF G
    <3> QED BY <2>1 DEF Place
  <2> HIDE DEF F, G
  <2> QED BY <2>2, <2>3, <2>4
<1> QED BY <1>2, <1>3, <1>4
(* What is written of a binding, as far as the lookups are concerned.      *)
LEMMA WrittenIs ==
    ASSUME NEW b \in Binding
    PROVE  /\ Written(b) \in Line
           /\ Written(b).pos = b.pos
           /\ IsBinding(Written(b)) <=> ~(b.type = "KEY" /\ b.code = Unknown)
           /\ IsBinding(Written(b)) => Written(b).type = b.type
           /\ b.type = "KEY" => Written(b).code = b.code
           /\ b.type = "MOUSE" /\ b.code # Unknown => Written(b).code = b.code
<1>1. b.type \in BindingType /\ b.code \in Code /\ b.pos \in Pos
  BY DEF Binding
<1>2. Left \in Code /\ Unknown \in Code
  BY ConfigConstantsOK DEF Code
<1> DEFINE type == IF b.type = "KEY" /\ b.code = Unknown THEN "BAD" ELSE b.type
           code == CASE b.type = "MOUSE" /\ b.code = Unknown -> Left
                     [] b.type \in {"AIM", "OTHER"} -> Unknown
                     [] OTHER -> b.code
<1>3. Written(b) = [type |-> type, code |-> code, pos |-> b.pos]
  BY DEF Written
<1>4. type \in BindingType \cup {"BAD"}
  BY <1>1 DEF BindingType
<1>5. /\ b.type = "MOUSE" /\ b.code = Unknown => code = Left
      /\ b.type \in {"AIM", "OTHER"} => code = Unknown
      /\ b.type = "KEY" => code = b.code
      /\ b.type = "MOUSE" /\ b.code # Unknown => code = b.code
  <2>1. CASE b.type = "MOUSE" /\ b.code = Unknown
    BY <2>1
  <2>2. CASE b.type \in {"AIM", "OTHER"}
    BY <2>2
  <2>3. CASE ~(b.type = "MOUSE" /\ b.code = Unknown) /\ b.type \notin {"AIM", "OTHER"}
    BY <2>3
  <2> QED BY <2>1, <2>2, <2>3
<1>6. code \in Code
  <2> HIDE DEF code
  <2> QED BY <1>1, <1>2, <1>5 DEF BindingType
<1>7. type \in BindingType <=> ~(b.type = "KEY" /\ b.code = Unknown)
  BY <1>1 DEF BindingType
<1>8. type \in BindingType => type = b.type
  BY DEF BindingType
<1> HIDE DEF type, code
<1>9. Written(b) \in Line
  BY <1>1, <1>3, <1>4, <1>6 DEF Line
<1> QED BY <1>3, <1>5, <1>7, <1>8, <1>9 DEF IsBinding

LEMMA SavedLines ==
    ASSUME NEW s \in Seq(Binding)
    PROVE  /\ Save(s) \in Seq(Line)
           /\ Len(Save(s)) = Len(s)
           /\ \A n \in 1..Len(s) : Save(s)[n] = Written(s[n])
<1>1. Len(s) \in Nat
  BY LenProperties
<1>2. \A n \in 1..Len(s) : Written(s[n]) \in Line
  BY ElementOfSeq, WrittenIs
<1> QED BY <1>1, <1>2 DEF Save

(* README.md: leaving the edit mode saves the positions.  Whatever the     *)
(* bindings are, as many as fit in the array, those that can be triggered  *)
(* are found at the same place after km_save_config() and km_load_config().*)
THEOREM SavedBindingsSurvive ==
    ASSUME NEW s \in Seq(Binding), Len(s) <= MaxBindings
    PROVE  Survives(s)
<1> DEFINE lines == Save(s)
           r == Load(lines)
<1>1. /\ lines \in Seq(Line)
      /\ Len(lines) = Len(s)
      /\ \A n \in 1..Len(s) : lines[n] = Written(s[n])
  BY SavedLines
<1>2. LoadedAs(r, lines, Len(s))
  <2> HIDE DEF lines
  <2> QED BY <1>1, LoadIs
<1>3. Len(s) \in Nat /\ MaxBindings \in Nat
  BY LenProperties, ConfigConstantsOK
<1> HIDE DEF lines, r
<1>4. r \in Seq(Binding) /\ Len(r) \in Nat
  BY <1>2, LenProperties DEF LoadedAs
<1>5. ASSUME NEW n \in 1..Len(s)
      PROVE  /\ s[n] \in Binding
             /\ lines[n].pos = s[n].pos
             /\ IsBinding(lines[n]) <=> ~(s[n].type = "KEY" /\ s[n].code = Unknown)
             /\ IsBinding(lines[n]) => lines[n].type = s[n].type
             /\ s[n].type = "KEY" => lines[n].code = s[n].code
             /\ s[n].type = "MOUSE" /\ s[n].code # Unknown => lines[n].code = s[n].code
  BY <1>1, ElementOfSeq, WrittenIs
<1>6. ASSUME NEW i \in 1..Len(r)
      PROVE  /\ r[i].pid \in 1..Len(s)
             /\ IsBinding(lines[r[i].pid])
             /\ r[i].type = s[r[i].pid].type
             /\ r[i].code = lines[r[i].pid].code
             /\ PlaceOf(r[i]) = PlaceOf(s[r[i].pid])
  <2>1. /\ r[i].pid \in 1..Len(s)
        /\ IsBinding(lines[r[i].pid])
        /\ r[i] = Parsed(lines[r[i].pid], r[i].pid)
    BY <1>2 DEF LoadedAs
  <2> DEFINE n == r[i].pid
  <2>2. r[i].type = lines[n].type /\ r[i].code = lines[n].code /\ r[i].pos = lines[n].pos
    BY <2>1 DEF Parsed
  <2>3. lines[n].type = s[n].type /\ lines[n].pos = s[n].pos
    BY <1>5, <2>1
  <2> QED BY <2>1, <2>2, <2>3 DEF PlaceOf
<1>7. \A i, j \in 1..Len(r) : i < j => r[i].pid < r[j].pid
  BY <1>2 DEF LoadedAs
<1>8. ASSUME NEW n \in 1..Len(s), ~(s[n].type = "KEY" /\ s[n].code = Unknown)
      PROVE  \E i \in 1..Len(r) : r[i].pid = n
  BY <1>2, <1>5, <1>8 DEF LoadedAs
<1>9. ASSUME NEW k \in Key PROVE Place(FindKey(r, k)) = Place(FindKey(s, k))
  <2> DEFINE I == {n \in 1..Len(r) : r[n].type = "KEY" /\ r[n].code = k}
             J == {n \in 1..Len(s) : s[n].type = "KEY" /\ s[n].code = k}
  <2>1. k # Unknown
    BY ConfigConstantsOK
  <2>2. \A i \in 1..Len(r) : i \in I <=> r[i].pid \in J
    BY <1>5, <1>6
  <2>3. \A j \in J : \E i \in 1..Len(r) : r[i].pid = j
    BY <1>8, <2>1
  <2>4. I \in SUBSET (1..Len(r)) /\ J \in SUBSET (1..Len(s))
    OBVIOUS
  <2>5. /\ Place(FindKey(r, k)) = {PlaceOf(r[i]) : i \in First(I)}
        /\ Place(FindKey(s, k)) = {PlaceOf(s[j]) : j \in First(J)}
    BY <1>4, FindsFirst
  <2> HIDE DEF I, J
  <2>6. {PlaceOf(r[i]) : i \in First(I)} = {PlaceOf(s[j]) : j \in First(J)}
    <3>1. /\ \A i \in 1..Len(r) : r[i].pid \in 1..Len(s)
          /\ \A i \in I : PlaceOf(r[i]) = PlaceOf(s[r[i].pid])
      BY <1>6, <2>4
    <3> QED BY <1>4, <1>7, <3>1, <2>2, <2>3, <2>4, SameFirst
  <2> QED BY <2>5, <2>6
<1>10. Place(FindAim(r)) = Place(FindAim(s))
  <2> DEFINE I == {n \in 1..Len(r) : r[n].type = "AIM"}
             J == {n \in 1..Len(s) : s[n].type = "AIM"}
  <2>1. \A i \in 1..Len(r) : i \in I <=> r[i].pid \in J
    BY <1>6
  <2>2. \A j \in J : \E i \in 1..Len(r) : r[i].pid = j
    BY <1>8
  <2>3. I \in SUBSET (1..Len(r)) /\ J \in SUBSET (1..Len(s))
    OBVIOUS
  <2>4. /\ Place(FindAim(r)) = {PlaceOf(r[i]) : i \in First(I)}
        /\ Place(FindAim(s)) = {PlaceOf(s[j]) : j \in First(J)}
    BY <1>4, FindsFirst
  <2> HIDE DEF I, J
  <2>5. {PlaceOf(r[i]) : i \in First(I)} = {PlaceOf(s[j]) : j \in First(J)}
    <3>1. /\ \A i \in 1..Len(r) : r[i].pid \in 1..Len(s)
          /\ \A i \in I : PlaceOf(r[i]) = PlaceOf(s[r[i].pid])
      BY <1>6, <2>3
    <3> QED BY <1>4, <1>7, <3>1, <2>1, <2>2, <2>3, SameFirst
  <2> QED BY <2>4, <2>5
<1>11. ASSUME \A n \in 1..Len(s) : s[n].type = "MOUSE" => s[n].code # Unknown,
              NEW m \in Button
       PROVE  Place(FindMouse(r, m)) = Place(FindMouse(s, m))
  <2> DEFINE I == {n \in 1..Len(r) : r[n].type = "MOUSE" /\ r[n].code = m}
             J == {n \in 1..Len(s) : s[n].type = "MOUSE" /\ s[n].code = m}
  <2>1. \A i \in 1..Len(r) : i \in I <=> r[i].pid \in J
    BY <1>5, <1>6, <1>11
  <2>2. \A j \in J : \E i \in 1..Len(r) : r[i].pid = j
    BY <1>8
  <2>3. I \in SUBSET (1..Len(r)) /\ J \in SUBSET (1..Len(s))
    OBVIOUS
  <2>4. /\ Place(FindMouse(r, m)) = {PlaceOf(r[i]) : i \in First(I)}
        /\ Place(FindMouse(s, m)) = {PlaceOf(s[j]) : j \in First(J)}
    BY <1>4, FindsFirst
  <2> HIDE DEF I, J
  <2>5. {PlaceOf(r[i]) : i \in First(I)} = {PlaceOf(s[j]) : j \in First(J)}
    <3>1. /\ \A i \in 1..Len(r) : r[i].pid \in 1..Len(s)
          /\ \A i \in I : PlaceOf(r[i]) = PlaceOf(s[r[i].pid])
      BY <1>6, <2>3
    <3> QED BY <1>4, <1>7, <3>1, <2>1, <2>2, <2>3, SameFirst
  <2> QED BY <2>4, <2>5
<1> QED BY <1>9, <1>10, <1>11 DEF Survives, lines, r

--------------------------------------------------------------------------------
Kinds == {"touch", "click", "mouse"}

TouchTypes ==
    /\ down \subseteq Nat
    /\ disturbed \subseteq Kinds
    /\ aimOrphaned \in BOOLEAN

BindingTypes ==
    /\ bindings \in Seq(Binding)
    /\ Len(bindings) <= MaxBindings
    /\ count \in Int
    /\ count = Len(bindings) \/ (count < 0 /\ bindings = <<>>)

InputTypes ==
    /\ buttonsState \subseteq Button
    /\ heldKeys \subseteq Keyboard
    /\ heldButtons \subseteq Button

ModeTypes ==
    /\ editMode \in BOOLEAN /\ fpsMode \in BOOLEAN /\ aimFingerDown \in BOOLEAN
    /\ capture \in {"unknown", "off", "on"}
    /\ dragging \in Index \cup {None}
    /\ selected \in Index \cup {None}

FileType == file \in Seq(Line)

(* The parts of the state that an action touches are typed separately.     *)
LEMMA TypeParts ==
    /\ TypeOK <=> BindingTypes /\ ModeTypes /\ InputTypes /\ TouchTypes /\ FileType
    /\ TypeOK' <=> /\ BindingTypes' /\ ModeTypes' /\ InputTypes' /\ TouchTypes'
                   /\ FileType'
BY DEF TypeOK, BindingTypes, ModeTypes, InputTypes, TouchTypes, FileType, Kinds

(* Two bindings may only have the same id beyond those of the lines.       *)
IdsApart(list) ==
    \A i, j \in 1..Len(list) :
        i # j /\ list[i].pid = list[j].pid => list[i].pid >= BlankBase

TypeInv == TypeOK /\ IdsApart(bindings)

-------------------------------------------------------------------------------
(* Bindings                                                                *)

LEMMA LoadTypes ==
    ASSUME NEW lines \in Seq(Line)
    PROVE  /\ Load(lines) \in Seq(Binding)
           /\ Len(Load(lines)) \in Nat
           /\ Len(Load(lines)) <= MaxBindings
           /\ IdsApart(Load(lines))
<1> DEFINE r == Load(lines)
<1>1. LoadedAs(r, lines, Len(lines))
  BY LoadIs
<1> HIDE DEF r
<1>2. r \in Seq(Binding) /\ Len(r) \in Nat /\ Len(r) <= MaxBindings
  BY <1>1, LenProperties DEF LoadedAs
<1>3. ASSUME NEW i \in 1..Len(r), NEW j \in 1..Len(r), i # j, r[i].pid = r[j].pid
      PROVE  FALSE
  <2>1. r[i].pid \in Nat /\ r[j].pid \in Nat
    <3>1. r[i] \in Binding /\ r[j] \in Binding
      BY <1>2, ElementOfSeq
    <3> QED BY <3>1 DEF Binding
  <2>2. i < j \/ j < i
    BY <1>2, <1>3
  <2>3. r[i].pid < r[j].pid \/ r[j].pid < r[i].pid
    BY <1>1, <2>2 DEF LoadedAs
  <2> QED BY <1>3, <2>1, <2>3
<1> QED BY <1>2, <1>3 DEF IdsApart, r

LEMMA SaveType ==
    ASSUME NEW s \in Seq(Binding)
    PROVE  Save(s) \in Seq(Line)
BY SavedLines

(* What the lookups find: a binding of the array, and only one.            *)
LEMMA Found ==
    ASSUME NEW s \in Seq(Binding)
    PROVE  /\ \A k : \A b \in FindKey(s, k) :
                 /\ b \in Binding /\ b.type = "KEY" /\ b.code = k
                 /\ \E n \in 1..Len(s) : b = s[n]
           /\ \A m : \A b \in FindMouse(s, m) :
                 /\ b \in Binding /\ b.type = "MOUSE" /\ b.code = m
                 /\ \E n \in 1..Len(s) : b = s[n]
<1>1. \A n \in 1..Len(s) : s[n] \in Binding
  BY ElementOfSeq
<1> QED BY <1>1 DEF FindKey, FindMouse, FirstMatch

LEMMA FoundOnce ==
    ASSUME NEW s \in Seq(Binding)
    PROVE  /\ \A k : \A b, c \in FindKey(s, k) : b = c
           /\ \A m : \A b, c \in FindMouse(s, m) : b = c
<1>1. Len(s) \in Nat
  BY LenProperties
<1>2. ASSUME NEW k, NEW b \in FindKey(s, k), NEW c \in FindKey(s, k) PROVE b = c
  <2>1. PICK i \in 1..Len(s) :
           /\ b = s[i] /\ s[i].type = "KEY" /\ s[i].code = k
           /\ \A j \in 1..(i - 1) : ~(s[j].type = "KEY" /\ s[j].code = k)
    BY <1>2 DEF FindKey, FirstMatch
  <2>2. PICK j \in 1..Len(s) :
           /\ c = s[j] /\ s[j].type = "KEY" /\ s[j].code = k
           /\ \A n \in 1..(j - 1) : ~(s[n].type = "KEY" /\ s[n].code = k)
    BY <1>2 DEF FindKey, FirstMatch
  <2>3. ~(i < j) /\ ~(j < i)
    BY <1>1, <2>1, <2>2
  <2> QED BY <1>1, <2>1, <2>2, <2>3
<1>3. ASSUME NEW m, NEW b \in FindMouse(s, m), NEW c \in FindMouse(s, m) PROVE b = c
  <2>1. PICK i \in 1..Len(s) :
           /\ b = s[i] /\ s[i].type = "MOUSE" /\ s[i].code = m
           /\ \A j \in 1..(i - 1) : ~(s[j].type = "MOUSE" /\ s[j].code = m)
    BY <1>3 DEF FindMouse, FirstMatch
  <2>2. PICK j \in 1..Len(s) :
           /\ c = s[j] /\ s[j].type = "MOUSE" /\ s[j].code = m
           /\ \A n \in 1..(j - 1) : ~(s[n].type = "MOUSE" /\ s[n].code = m)
    BY <1>3 DEF FindMouse, FirstMatch
  <2>3. ~(i < j) /\ ~(j < i)
    BY <1>1, <2>1, <2>2
  <2> QED BY <1>1, <2>1, <2>2, <2>3
<1> QED BY <1>2, <1>3

-------------------------------------------------------------------------------
(* Touches                                                                 *)

LEMMA PushIs ==
    ASSUME NEW touches, NEW changed, Push(touches, changed)
    PROVE  \E refused \in SUBSET (1..Len(touches)) :
              /\ down' = After(down, touches, refused)
              /\ disturbed' = disturbed \cup changed \cup When(refused # {}, {"touch"})
              /\ aimOrphaned' = (aimOrphaned \/ refused # {} \/ AimShared)
BY DEF Push

LEMMA NoTouchTypes ==
    ASSUME TouchTypes, NEW changed \in SUBSET Kinds, NoTouch(changed)
    PROVE  TouchTypes'
BY DEF TouchTypes, NoTouch

LEMMA PushTypes ==
    ASSUME TouchTypes, NEW changed \in SUBSET Kinds, NEW touches,
           \A n \in 1..Len(touches) : touches[n].pid \in Nat, Push(touches, changed)
    PROVE  TouchTypes'
<1>1. PICK refused \in SUBSET (1..Len(touches)) :
         /\ down' = After(down, touches, refused)
         /\ disturbed' = disturbed \cup changed \cup When(refused # {}, {"touch"})
         /\ aimOrphaned' = (aimOrphaned \/ refused # {} \/ AimShared)
  BY PushIs
<1>2. down' \subseteq Nat
  BY <1>1 DEF After, TouchTypes
<1>3. disturbed' \subseteq Kinds
  BY <1>1 DEF TouchTypes, When, Kinds
<1>4. aimOrphaned' \in BOOLEAN
  BY <1>1
<1> QED BY <1>2, <1>3, <1>4 DEF TouchTypes

LEMMA PushOneTypes ==
    ASSUME TouchTypes, NEW changed \in SUBSET Kinds, NEW a, NEW p \in Nat,
           Push(<<Touch(a, p)>>, changed)
    PROVE  TouchTypes'
<1>1. Len(<<Touch(a, p)>>) = 1 /\ <<Touch(a, p)>>[1].pid = p
  BY DEF Touch
<1>2. \A n \in 1..Len(<<Touch(a, p)>>) : <<Touch(a, p)>>[n].pid \in Nat
  BY <1>1
<1> QED BY <1>2, PushTypes

LEMMA SendMouseTypes ==
    ASSUME TouchTypes, NEW buttons, SendMouse(buttons)
    PROVE  TouchTypes'
<1>1. MousePid \in Nat /\ {} \in SUBSET Kinds /\ {"mouse"} \in SUBSET Kinds
  BY ConfigConstantsOK DEF Kinds
<1> QED BY <1>1, NoTouchTypes, PushOneTypes DEF SendMouse

-------------------------------------------------------------------------------
(* Types                                                                   *)

LEMMA RemoveTypes ==
    ASSUME BindingTypes, IdsApart(bindings), NEW i \in Nat, RemoveBinding(i)
    PROVE  /\ BindingTypes' /\ IdsApart(bindings') /\ selected' = None
           /\ \A n \in 1..Len(bindings') : \E m \in 1..Len(bindings) : bindings'[n] = bindings[m]
<1>1. /\ bindings \in Seq(Binding) /\ Len(bindings) \in Nat
      /\ Len(bindings) <= MaxBindings /\ MaxBindings \in Nat
      /\ count \in Int
      /\ count = Len(bindings) \/ (count < 0 /\ bindings = <<>>)
  BY LenProperties, ConfigConstantsOK DEF BindingTypes
<1>2. selected' = None /\ count' = count - 1
  BY DEF RemoveBinding
<1>3. CASE i < count
  <2> DEFINE s == bindings
             left == SubSeq(s, 1, i)
             right == SubSeq(s, i + 2, Len(s))
  <2>1. count = Len(s) /\ i + 1 \in 1..Len(s)
    BY <1>1, <1>3
  <2>2. bindings' = left \o right
    <3>1. (i + 1) - 1 = i /\ (i + 1) + 1 = i + 2
      OBVIOUS
    <3>2. bindings' = RemoveAt(s, i + 1)
      BY <1>3 DEF RemoveBinding
    <3> QED BY <3>1, <3>2 DEF RemoveAt
  <2>3. /\ left \in Seq(Binding) /\ Len(left) = i
        /\ \A n \in 1..i : left[n] = s[n]
    <3>1. \A n \in 1..i : s[n] \in Binding
      BY <1>1, <2>1, ElementOfSeq
    <3>2. /\ left \in Seq(Binding) /\ Len(left) = IF 1 <= i THEN i - 1 + 1 ELSE 0
          /\ \A n \in 1..(i - 1 + 1) : left[n] = s[1 + n - 1]
      BY <3>1, SubSeqProperties
    <3> HIDE DEF left
    <3> QED BY <3>2
  <2>4. /\ right \in Seq(Binding) /\ Len(right) = Len(s) - i - 1
        /\ \A n \in 1..(Len(s) - i - 1) : right[n] = s[n + i + 1]
    <3>1. \A n \in (i + 2)..Len(s) : s[n] \in Binding
      BY <1>1, <2>1, ElementOfSeq
    <3>2. /\ right \in Seq(Binding)
          /\ Len(right) = IF i + 2 <= Len(s) THEN Len(s) - (i + 2) + 1 ELSE 0
          /\ \A n \in 1..(Len(s) - (i + 2) + 1) : right[n] = s[(i + 2) + n - 1]
      <4>1. i + 2 \in Int /\ Len(s) \in Int
        BY <1>1
      <4> QED BY <3>1, <4>1, SubSeqProperties
    <3> HIDE DEF right
    <3> QED BY <1>1, <2>1, <3>2
  <2> HIDE DEF left, right
  <2>5. /\ bindings' \in Seq(Binding) /\ Len(bindings') = Len(s) - 1
        /\ \A n \in 1..(Len(s) - 1) : bindings'[n] = IF n <= i THEN s[n] ELSE s[n + 1]
    <3>1. /\ left \o right \in Seq(Binding)
          /\ Len(left \o right) = i + (Len(s) - i - 1)
          /\ \A n \in 1..(i + (Len(s) - i - 1)) :
                (left \o right)[n] = IF n <= i THEN left[n] ELSE right[n - i]
      BY <2>3, <2>4, ConcatProperties
    <3>2. i + (Len(s) - i - 1) = Len(s) - 1
      BY <1>1
    <3>3. ASSUME NEW n \in 1..(Len(s) - 1)
          PROVE  bindings'[n] = IF n <= i THEN s[n] ELSE s[n + 1]
      <4>1. CASE n <= i
        BY <2>2, <2>3, <3>1, <3>2, <4>1
      <4>2. CASE ~(n <= i)
        <5>1. n - i \in 1..(Len(s) - i - 1) /\ (n - i) + i + 1 = n + 1
          BY <1>1, <4>2
        <5>2. right[n - i] = s[n + 1]
          BY <2>4, <5>1
        <5> QED BY <2>2, <3>1, <3>2, <4>2, <5>2
      <4> QED BY <4>1, <4>2
    <3> QED BY <2>2, <3>1, <3>2, <3>3
  <2>6. BindingTypes'
    BY <1>1, <1>2, <2>1, <2>5 DEF BindingTypes
  <2>7. ASSUME NEW n \in 1..Len(bindings')
        PROVE  \E m \in 1..Len(s) : bindings'[n] = s[m] /\ m = IF n <= i THEN n ELSE n + 1
    BY <1>1, <2>5
  <2>8. IdsApart(bindings')
    <3> SUFFICES ASSUME NEW x \in 1..Len(bindings'), NEW y \in 1..Len(bindings'), x # y,
                        bindings'[x].pid = bindings'[y].pid
                 PROVE  bindings'[x].pid >= BlankBase
      BY DEF IdsApart
    <3>1. PICK m \in 1..Len(s) : bindings'[x] = s[m] /\ m = IF x <= i THEN x ELSE x + 1
      BY <2>7
    <3>2. PICK n \in 1..Len(s) : bindings'[y] = s[n] /\ n = IF y <= i THEN y ELSE y + 1
      BY <2>7
    <3>3. m # n
      BY <1>1, <2>5, <3>1, <3>2
    <3> QED BY <3>1, <3>2, <3>3 DEF IdsApart
  <2> QED BY <1>2, <2>6, <2>7, <2>8
<1>4. CASE ~(i < count) /\ count > 0
  <2>1. count = Len(bindings) /\ bindings' = SubSeq(bindings, 1, Len(bindings) - 1)
    BY <1>1, <1>4 DEF RemoveBinding, Front
  <2>2. /\ bindings' \in Seq(Binding) /\ Len(bindings') = Len(bindings) - 1
        /\ \A n \in 1..(Len(bindings) - 1) : bindings'[n] = bindings[n]
    <3>1. \A n \in 1..(Len(bindings) - 1) : bindings[n] \in Binding
      BY <1>1, ElementOfSeq
    <3>2. Len(bindings) - 1 \in Int
      BY <1>1
    <3>3. LET m == Len(bindings) - 1
          IN  /\ SubSeq(bindings, 1, m) \in Seq(Binding)
              /\ Len(SubSeq(bindings, 1, m)) = IF 1 <= m THEN m - 1 + 1 ELSE 0
              /\ \A n \in 1..(m - 1 + 1) : SubSeq(bindings, 1, m)[n] = bindings[1 + n - 1]
      BY <3>1, <3>2, SubSeqProperties
    <3> QED BY <1>1, <1>4, <2>1, <3>3
  <2>3. BindingTypes'
    BY <1>1, <1>2, <2>1, <2>2 DEF BindingTypes
  <2>4. IdsApart(bindings')
    <3>1. \A n \in 1..Len(bindings') : n \in 1..Len(bindings) /\ bindings'[n] = bindings[n]
      BY <1>1, <2>2
    <3> QED BY <1>1, <3>1 DEF IdsApart
  <2> QED BY <1>1, <1>2, <2>2, <2>3, <2>4
<1>5. CASE ~(i < count) /\ ~(count > 0)
  <2>1. bindings' = bindings
    BY <1>5 DEF RemoveBinding
  <2>2. BindingTypes'
    <3>1. bindings = <<>> /\ count' < 0 /\ count' \in Int
      BY <1>1, <1>2, <1>5, EmptySeq
    <3> QED BY <1>1, <2>1, <3>1 DEF BindingTypes
  <2> QED BY <1>2, <2>1, <2>2
<1> QED BY <1>3, <1>4, <1>5

LEMMA MiddleTypes ==
    ASSUME BindingTypes, ModeTypes, IdsApart(bindings), EditMiddleDown
    PROVE  /\ BindingTypes' /\ IdsApart(bindings') /\ selected' \in Index \cup {None}
           /\ dragging' = dragging
<1>1. /\ bindings \in Seq(Binding) /\ Len(bindings) \in Nat
      /\ Len(bindings) <= MaxBindings /\ MaxBindings \in Nat \ {0}
      /\ count \in Int
      /\ count = Len(bindings) \/ (count < 0 /\ bindings = <<>>)
  BY LenProperties, ConfigConstantsOK DEF BindingTypes
<1>2. dragging' = dragging
  BY DEF EditMiddleDown
<1>3. CASE UNCHANGED <<bindings, count, selected>>
  BY <1>2, <1>3 DEF BindingTypes, IdsApart, ModeTypes
<1>4. ASSUME count < MaxBindings, NEW pos \in Pos,
             bindings' = IF count >= 0 THEN Append(bindings, Blank(pos, count)) ELSE bindings,
             count' = count + 1, selected' = IF count >= 0 THEN count ELSE None
      PROVE  BindingTypes' /\ IdsApart(bindings') /\ selected' \in Index \cup {None}
  <2>1. CASE count >= 0
    <3> DEFINE b == Blank(pos, count)
    <3>1. b \in Binding /\ b.pid = BlankBase + count
      BY <1>1, <2>1, ConfigConstantsOK DEF Blank, Binding, BindingType, Code
    <3> HIDE DEF b
    <3>2. /\ bindings' \in Seq(Binding) /\ Len(bindings') = Len(bindings) + 1
          /\ \A n \in 1..Len(bindings) : bindings'[n] = bindings[n]
          /\ bindings'[Len(bindings) + 1] = b
      <4>1. bindings' = Append(bindings, b)
        BY <1>4, <2>1 DEF b
      <4> QED BY <1>1, <3>1, <4>1, AppendProperties
    <3>3. count = Len(bindings)
      BY <1>1, <2>1
    <3>4. BindingTypes'
      BY <1>1, <1>4, <3>2, <3>3 DEF BindingTypes
    <3>5. IdsApart(bindings')
      <4> SUFFICES ASSUME NEW x \in 1..Len(bindings'), NEW y \in 1..Len(bindings'), x # y,
                          bindings'[x].pid = bindings'[y].pid
                   PROVE  bindings'[x].pid >= BlankBase
        BY DEF IdsApart
      <4>1. CASE x \in 1..Len(bindings) /\ y \in 1..Len(bindings)
        BY <3>2, <4>1 DEF IdsApart
      <4>2. CASE x = Len(bindings) + 1 \/ y = Len(bindings) + 1
        BY <1>1, <2>1, <3>1, <3>2, <4>2, ConfigConstantsOK
      <4> QED BY <1>1, <3>2, <4>1, <4>2
    <3>6. selected' \in Index
      BY <1>1, <1>4, <2>1 DEF Index
    <3> QED BY <3>4, <3>5, <3>6
  <2>2. CASE ~(count >= 0)
    <3>1. bindings' = bindings /\ bindings = <<>> /\ Len(bindings) = 0 /\ selected' = None
      BY <1>1, <1>4, <2>2, EmptySeq
    <3>2. count' \in Int /\ (count' = 0 \/ count' < 0)
      BY <1>1, <1>4, <2>2
    <3>3. BindingTypes'
      BY <1>1, <3>1, <3>2 DEF BindingTypes
    <3> QED BY <3>1, <3>3 DEF IdsApart
  <2> QED BY <2>1, <2>2
<1> QED BY <1>2, <1>3, <1>4 DEF EditMiddleDown

LEMMA DragTypes ==
    ASSUME BindingTypes, IdsApart(bindings), Drag
    PROVE  BindingTypes' /\ IdsApart(bindings')
<1>1. /\ bindings \in Seq(Binding) /\ Len(bindings) \in Nat /\ count' = count
  BY LenProperties DEF BindingTypes, Drag
<1>2. PICK pos \in Pos :
         bindings' = [n \in 1..Len(bindings) |->
                         IF n = dragging + 1 THEN [bindings[n] EXCEPT !.pos = pos]
                                             ELSE bindings[n]]
  BY DEF Drag
<1>3. \A n \in 1..Len(bindings) : bindings[n] \in Binding
  BY <1>1, ElementOfSeq
<1>4. ASSUME NEW b \in Binding
      PROVE  [b EXCEPT !.pos = pos] \in Binding /\ [b EXCEPT !.pos = pos].pid = b.pid
  BY DEF Binding
<1>5. /\ bindings' \in Seq(Binding) /\ Len(bindings') = Len(bindings)
      /\ \A n \in 1..Len(bindings) : bindings'[n].pid = bindings[n].pid
  <2> DEFINE e(n) == IF n = dragging + 1 THEN [bindings[n] EXCEPT !.pos = pos] ELSE bindings[n]
  <2>1. \A n \in 1..Len(bindings) : e(n) \in Binding /\ e(n).pid = bindings[n].pid
    BY <1>3, <1>4
  <2>2. bindings' = [n \in 1..Len(bindings) |-> e(n)]
    BY <1>2
  <2> HIDE DEF e
  <2> QED BY <1>1, <2>1, <2>2
<1>6. IdsApart(bindings')
  BY <1>5 DEF IdsApart
<1>7. BindingTypes'
  <2>1. bindings = <<>> => bindings' = <<>>
    BY <1>1, <1>5, EmptySeq
  <2> QED BY <1>1, <1>5, <2>1 DEF BindingTypes
<1> QED BY <1>6, <1>7

LEMMA ReloadTypes ==
    ASSUME FileType, Reload
    PROVE  BindingTypes' /\ IdsApart(bindings')
<1>1. bindings' = Load(file) /\ count' = Len(bindings')
  BY DEF Reload
<1>2. /\ Load(file) \in Seq(Binding) /\ Len(Load(file)) \in Nat
      /\ Len(Load(file)) <= MaxBindings /\ IdsApart(Load(file))
  BY LoadTypes DEF FileType
<1> HIDE DEF IdsApart
<1> QED BY <1>1, <1>2 DEF BindingTypes

LEMMA FoundIds ==
    ASSUME BindingTypes
    PROVE  /\ \A k : \A b \in FindKey(bindings, k) : b.pid \in Nat
           /\ \A m : \A b \in FindMouse(bindings, m) : b.pid \in Nat
<1>1. \A b \in Binding : b.pid \in Nat
  BY DEF Binding
<1>2. bindings \in Seq(Binding)
  BY DEF BindingTypes
<1> QED BY <1>1, <1>2, Found

LEMMA MapKeyTypes ==
    ASSUME TouchTypes, BindingTypes, NEW k, NEW a, MapKey(k, a)
    PROVE  TouchTypes'
<1>1. {} \in SUBSET Kinds
  OBVIOUS
<1>2. CASE NoTouch({})
  BY <1>1, <1>2, NoTouchTypes
<1>3. ASSUME NEW b \in FindKey(bindings, k), Push(<<Touch(a, b.pid)>>, {})
      PROVE  TouchTypes'
  <2>1. b.pid \in Nat
    BY FoundIds
  <2> QED BY <1>1, <1>3, <2>1, PushOneTypes
<1> QED BY <1>2, <1>3 DEF MapKey

LEMMA PushBoundTypes ==
    ASSUME TouchTypes, BindingTypes, NEW m, NEW a, PushBound(m, a)
    PROVE  TouchTypes'
<1>1. PICK b \in FindMouse(bindings, m) : Push(<<Touch(a, b.pid)>>, {})
  BY DEF PushBound
<1>2. b.pid \in Nat
  BY FoundIds
<1> QED BY <1>1, <1>2, PushOneTypes

(* The touches of an aim motion.                                           *)
AimTouches(flag, reachedLimit) ==
    LET start == IF flag THEN <<>> ELSE <<Touch("DOWN", AimPid)>>
        move  == <<Touch("MOVE", AimPid)>>
        back  == <<Touch("UP", AimPid), Touch("DOWN", AimPid)>>
    IN  start \o move \o (IF reachedLimit THEN back ELSE <<>>)

LEMMA AimTouchesAre ==
    ASSUME NEW flag \in BOOLEAN, NEW far \in BOOLEAN
    PROVE  LET d == Touch("DOWN", AimPid)
               m == Touch("MOVE", AimPid)
               u == Touch("UP", AimPid)
           IN  AimTouches(flag, far) =
                  IF flag THEN IF far THEN <<m, u, d>> ELSE <<m>>
                  ELSE IF far THEN <<d, m, u, d>> ELSE <<d, m>>
<1> DEFINE d == Touch("DOWN", AimPid)
           m == Touch("MOVE", AimPid)
           u == Touch("UP", AimPid)
           T == {d, m, u}
<1>1. d \in T /\ m \in T /\ u \in T
  OBVIOUS
<1> HIDE DEF d, m, u, T
<1>2. /\ <<>> \in Seq(T) /\ <<d>> \in Seq(T) /\ <<m>> \in Seq(T) /\ <<u, d>> \in Seq(T)
      /\ <<d, m>> \in Seq(T)
  BY <1>1
<1>3. /\ <<>> \o <<m>> = <<m>> /\ <<m>> \o <<>> = <<m>>
      /\ <<d, m>> \o <<>> = <<d, m>>
  BY <1>2, ConcatEmptySeq
<1>4. /\ <<d>> \o <<m>> = <<d, m>>
      /\ <<m>> \o <<u, d>> = <<m, u, d>>
      /\ <<d, m>> \o <<u, d>> = <<d, m, u, d>>
  <2>1. ASSUME NEW x \in T, NEW y \in T PROVE <<x>> \o <<y>> = <<x, y>>
    <3> DEFINE q == <<x>> \o <<y>>
    <3>1. <<x>> \in Seq(T) /\ <<y>> \in Seq(T) /\ Len(<<x>>) = 1 /\ Len(<<y>>) = 1
      OBVIOUS
    <3>2. /\ q \in Seq(T) /\ Len(q) = 1 + 1
          /\ \A i \in 1..(1 + 1) : q[i] = IF i <= 1 THEN <<x>>[i] ELSE <<y>>[i - 1]
      BY <3>1, ConcatProperties
    <3> HIDE DEF q
    <3>3. Len(q) = 2 /\ q[1] = x /\ q[2] = y
      BY <3>2
    <3>4. <<x, y>> \in Seq(T) /\ Len(<<x, y>>) = 2 /\ \A i \in 1..2 : q[i] = <<x, y>>[i]
      BY <3>3
    <3>5. q = <<x, y>>
      BY <3>2, <3>3, <3>4, SeqEqual
    <3> QED BY <3>5 DEF q
  <2>2. ASSUME NEW x \in T, NEW y \in T, NEW z \in T PROVE <<x>> \o <<y, z>> = <<x, y, z>>
    <3> DEFINE q == <<x>> \o <<y, z>>
    <3>1. <<x>> \in Seq(T) /\ <<y, z>> \in Seq(T) /\ Len(<<x>>) = 1 /\ Len(<<y, z>>) = 2
      OBVIOUS
    <3>2. /\ q \in Seq(T) /\ Len(q) = 1 + 2
          /\ \A i \in 1..(1 + 2) : q[i] = IF i <= 1 THEN <<x>>[i] ELSE <<y, z>>[i - 1]
      BY <3>1, ConcatProperties
    <3> HIDE DEF q
    <3>3. Len(q) = 3 /\ q[1] = x /\ q[2] = y /\ q[3] = z
      BY <3>2
    <3>4. /\ <<x, y, z>> \in Seq(T) /\ Len(<<x, y, z>>) = 3
          /\ \A i \in 1..3 : q[i] = <<x, y, z>>[i]
      BY <3>3
    <3>5. q = <<x, y, z>>
      BY <3>2, <3>3, <3>4, SeqEqual
    <3> QED BY <3>5 DEF q
  <2>3. <<d, m>> \o <<u, d>> = <<d, m, u, d>>
    <3> DEFINE q == <<d, m>> \o <<u, d>>
    <3>1. /\ <<d, m>> \in Seq(T) /\ <<u, d>> \in Seq(T)
          /\ Len(<<d, m>>) = 2 /\ Len(<<u, d>>) = 2
      BY <1>1
    <3>2. /\ q \in Seq(T) /\ Len(q) = 2 + 2
          /\ \A i \in 1..(2 + 2) : q[i] = IF i <= 2 THEN <<d, m>>[i] ELSE <<u, d>>[i - 2]
      BY <3>1, ConcatProperties
    <3> HIDE DEF q
    <3>3. Len(q) = 4 /\ q[1] = d /\ q[2] = m /\ q[3] = u /\ q[4] = d
      BY <3>2
    <3>4. /\ <<d, m, u, d>> \in Seq(T) /\ Len(<<d, m, u, d>>) = 4
          /\ \A i \in 1..4 : q[i] = <<d, m, u, d>>[i]
      BY <1>1, <3>3
    <3>5. q = <<d, m, u, d>>
      BY <3>2, <3>3, <3>4, SeqEqual
    <3> QED BY <3>5 DEF q
  <2> QED BY <1>1, <2>1, <2>2, <2>3
<1> QED BY <1>3, <1>4 DEF AimTouches, d, m, u

LEMMA AimMotionIs ==
    ASSUME ModeTypes, AimMotion
    PROVE  /\ fpsMode /\ aimFingerDown' = TRUE
           /\ UNCHANGED <<bindings, count, editMode, fpsMode, capture, dragging, selected,
                          inputVars, buttonsState, file>>
           /\ \E far \in BOOLEAN : Push(AimTouches(aimFingerDown, far), {})
BY DEF AimMotion, AimTouches

LEMMA AimMotionTypes ==
    ASSUME TouchTypes, ModeTypes, AimMotion
    PROVE  TouchTypes'
<1>1. PICK far \in BOOLEAN : Push(AimTouches(aimFingerDown, far), {})
  BY AimMotionIs
<1> DEFINE t == AimTouches(aimFingerDown, far)
<1>2. \A n \in 1..Len(t) : t[n].pid \in Nat
  <2> DEFINE d == Touch("DOWN", AimPid)
             m == Touch("MOVE", AimPid)
             u == Touch("UP", AimPid)
  <2>1. d.pid \in Nat /\ m.pid \in Nat /\ u.pid \in Nat
    BY ConfigConstantsOK DEF Touch
  <2>2. aimFingerDown \in BOOLEAN
    BY DEF ModeTypes
  <2>3. t = IF aimFingerDown THEN IF far THEN <<m, u, d>> ELSE <<m>>
            ELSE IF far THEN <<d, m, u, d>> ELSE <<d, m>>
    BY <2>2, AimTouchesAre
  <2> HIDE DEF d, m, u, t
  <2>4. t \in {<<m, u, d>>, <<m>>, <<d, m, u, d>>, <<d, m>>}
    BY <2>3
  <2> QED BY <2>1, <2>4
<1> HIDE DEF t
<1> QED BY <1>1, <1>2, PushTypes DEF t

LEMMA InitTypes == Init => TypeInv
<1> SUFFICES ASSUME Init PROVE TypeInv
  OBVIOUS
<1>1. file \in Seq(Line)
  BY KeymapperConstantsOK DEF Init
<1>2. /\ Load(file) \in Seq(Binding) /\ Len(Load(file)) \in Nat
      /\ Len(Load(file)) <= MaxBindings /\ IdsApart(Load(file))
  BY <1>1, LoadTypes
<1>3. bindings = Load(file) /\ count = Len(bindings)
  BY DEF Init
<1>4. BindingTypes /\ IdsApart(bindings)
  <2> HIDE DEF IdsApart
  <2> QED BY <1>2, <1>3 DEF BindingTypes
<1>5. ModeTypes /\ InputTypes /\ TouchTypes /\ FileType
  BY <1>1 DEF Init, ModeTypes, InputTypes, TouchTypes, FileType, Kinds
<1> QED BY <1>4, <1>5, TypeParts DEF TypeInv

(* The parts that most actions leave as they are.                          *)
LEMMA Kept ==
    ASSUME BindingTypes, IdsApart(bindings), ModeTypes, InputTypes, FileType
    PROVE  /\ UNCHANGED <<bindings, count>> => BindingTypes' /\ IdsApart(bindings')
           /\ UNCHANGED <<editMode, fpsMode, aimFingerDown, capture, dragging, selected>>
                 => ModeTypes'
           /\ UNCHANGED <<inputVars, buttonsState>> => InputTypes'
           /\ UNCHANGED file => FileType'
BY DEF BindingTypes, IdsApart, ModeTypes, InputTypes, FileType, inputVars

(* Keys that are taken by the keymapper itself, and tasks of the timer.    *)
LEMMA TakenKeys ==
    ASSUME Posted \/ \E k : Press(k) \/ Repeat(k)
    PROVE  /\ UNCHANGED heldButtons
           /\ heldKeys \subseteq heldKeys'
           /\ heldKeys \subseteq Keyboard => heldKeys' \subseteq Keyboard
BY DEF Posted, Press, Repeat, inputVars

LEMMA OverlayIs ==
    ASSUME Overlay
    PROVE  /\ \E k : Press(k) \/ Repeat(k)
           /\ \E k \in Shortcuts : Press(k) \/ Repeat(k)
           /\ UNCHANGED <<kmVars, buttonsState, file, down, disturbed, aimOrphaned>>
BY DEF Overlay, Shortcuts, Opacity

LEMMA ToggleFpsTypes ==
    ASSUME ModeTypes, NEW window, ToggleFps(window), UNCHANGED <<editMode, dragging, selected>>
    PROVE  ModeTypes'
<1>1. fpsMode' \in BOOLEAN /\ aimFingerDown' \in BOOLEAN
  BY DEF ToggleFps, ModeTypes
<1>2. capture' \in {"unknown", "off", "on"}
  BY DEF ToggleFps, ModeTypes
<1> QED BY <1>1, <1>2 DEF ModeTypes

LEMMA FpsChangeIsKinds == FpsChange \in SUBSET Kinds
BY DEF FpsChange, When, Kinds

LEMMA EditButtonDownTypes ==
    ASSUME BindingTypes, IdsApart(bindings), ModeTypes, NEW m \in Button, EditButtonDown(m)
    PROVE  BindingTypes' /\ IdsApart(bindings') /\ ModeTypes'
<1>1. UNCHANGED <<editMode, fpsMode, aimFingerDown, capture>>
  BY DEF EditButtonDown
<1>2. /\ count \in Int /\ count <= MaxBindings /\ MaxBindings \in Nat \ {0}
  BY LenProperties, ConfigConstantsOK DEF BindingTypes
<1>3. /\ BindingTypes' /\ IdsApart(bindings') /\ dragging' \in Index \cup {None}
      /\ selected' \in Index \cup {None}
  <2>1. CASE m = Left
    <3>1. EditLeftDown /\ UNCHANGED <<bindings, count>>
      BY <2>1, ConfigConstantsOK DEF EditButtonDown
    <3>2. dragging' \in Index \cup {None} /\ selected' \in Index \cup {None}
      BY <1>2, <3>1 DEF EditLeftDown, Index, ModeTypes
    <3> QED BY <3>1, <3>2 DEF BindingTypes, IdsApart
  <2>2. CASE m = Right
    <3>1. EditRightDown
      BY <2>2, ConfigConstantsOK DEF EditButtonDown
    <3>2. CASE UNCHANGED <<bindings, count, selected>>
      BY <3>1, <3>2 DEF EditRightDown, BindingTypes, IdsApart, ModeTypes
    <3>3. ASSUME NEW i \in 0..(count - 1), RemoveBinding(i)
          PROVE  /\ BindingTypes' /\ IdsApart(bindings') /\ dragging' \in Index \cup {None}
                 /\ selected' \in Index \cup {None}
      <4>1. i \in Nat
        OBVIOUS
      <4>2. BindingTypes' /\ IdsApart(bindings') /\ selected' = None
        BY <3>3, <4>1, RemoveTypes
      <4>3. dragging' = dragging
        BY <3>1 DEF EditRightDown
      <4> HIDE DEF IdsApart
      <4> QED BY <4>2, <4>3 DEF ModeTypes
    <3> QED BY <3>1, <3>2, <3>3 DEF EditRightDown
  <2>3. CASE m # Left /\ m # Right
    <3>1. EditMiddleDown
      BY <2>3 DEF EditButtonDown
    <3>2. /\ BindingTypes' /\ IdsApart(bindings') /\ selected' \in Index \cup {None}
          /\ dragging' = dragging
      BY <3>1, MiddleTypes
    <3> QED BY <3>2 DEF ModeTypes
  <2> QED BY <2>1, <2>2, <2>3
<1> QED BY <1>1, <1>3 DEF ModeTypes

LEMMA StepTypes == TypeInv /\ [Next]_vars => TypeInv'
<1> SUFFICES ASSUME TypeInv, [Next]_vars PROVE TypeInv'
  OBVIOUS
<1>1. /\ BindingTypes /\ ModeTypes /\ InputTypes /\ TouchTypes /\ FileType
      /\ IdsApart(bindings)
  BY TypeParts DEF TypeInv
<1> SUFFICES /\ BindingTypes' /\ ModeTypes' /\ InputTypes' /\ TouchTypes' /\ FileType'
             /\ IdsApart(bindings')
  BY TypeParts DEF TypeInv
<1> DEFINE Goal == /\ BindingTypes' /\ ModeTypes' /\ InputTypes' /\ TouchTypes' /\ FileType'
                   /\ IdsApart(bindings')
<1> SUFFICES Goal
  OBVIOUS
<1> HIDE DEF IdsApart
<1>2. /\ UNCHANGED <<bindings, count>> => BindingTypes' /\ IdsApart(bindings')
      /\ UNCHANGED <<editMode, fpsMode, aimFingerDown, capture, dragging, selected>>
            => ModeTypes'
      /\ UNCHANGED <<inputVars, buttonsState>> => InputTypes'
      /\ UNCHANGED file => FileType'
      /\ UNCHANGED <<down, disturbed, aimOrphaned>> => TouchTypes'
  BY <1>1, Kept DEF TouchTypes
<1>0. ASSUME Posted \/ \E k : Press(k) \/ Repeat(k), UNCHANGED buttonsState PROVE InputTypes'
  BY <1>0, <1>1, TakenKeys DEF InputTypes
<1>3. /\ {} \in SUBSET Kinds
      /\ \A cond : When(cond, {"touch"}) \in SUBSET Kinds
      /\ \A cond : When(cond, {"click"}) \in SUBSET Kinds
  BY DEF When, Kinds
<1>4. ASSUME NEW k \in Keyboard, KeyDown(k) PROVE Goal
  <2>1. TouchTypes'
    BY <1>1, <1>4, MapKeyTypes DEF KeyDown
  <2>2. InputTypes'
    BY <1>0, <1>4 DEF KeyDown
  <2>3. UNCHANGED <<bindings, count, editMode, fpsMode, aimFingerDown, capture, dragging,
                    selected, file>>
    BY <1>4 DEF KeyDown, kmVars
  <2> QED BY <1>2, <2>1, <2>2, <2>3
<1>5. ASSUME NEW k \in Keyboard, KeyRepeat(k) PROVE Goal
  <2>1. TouchTypes'
    BY <1>1, <1>5, MapKeyTypes DEF KeyRepeat
  <2>2. UNCHANGED <<bindings, count, editMode, fpsMode, aimFingerDown, capture, dragging,
                    selected, buttonsState, file>>
    BY <1>5 DEF KeyRepeat, kmVars
  <2>3. InputTypes'
    BY <1>0, <1>5, <2>2 DEF KeyRepeat
  <2> QED BY <1>2, <2>1, <2>2, <2>3
<1>6. ASSUME NEW k \in Keyboard, KeyUp(k) PROVE Goal
  <2>1. TouchTypes'
    BY <1>1, <1>6, MapKeyTypes DEF KeyUp
  <2>2. InputTypes'
    BY <1>1, <1>6 DEF KeyUp, InputTypes
  <2>3. UNCHANGED <<bindings, count, editMode, fpsMode, aimFingerDown, capture, dragging,
                    selected, file>>
    BY <1>6 DEF KeyUp, kmVars
  <2> QED BY <1>2, <2>1, <2>2, <2>3
<1>7. ASSUME ToggleEdit, Press(F12) \/ Posted PROVE Goal
  <2>1. TouchTypes'
    BY <1>1, <1>3, <1>7, NoTouchTypes DEF ToggleEdit
  <2>2. ModeTypes'
    BY <1>1, <1>7 DEF ToggleEdit, ModeTypes
  <2>3. FileType'
    <3>1. Save(bindings) \in Seq(Line)
      BY <1>1, SaveType DEF BindingTypes
    <3>2. file' \in {file, Save(bindings)}
      BY <1>7 DEF ToggleEdit
    <3> QED BY <1>1, <3>1, <3>2 DEF FileType
  <2>4. UNCHANGED <<bindings, count, buttonsState>>
    BY <1>7 DEF ToggleEdit
  <2>5. InputTypes'
    BY <1>0, <1>7, <2>4
  <2> QED BY <1>2, <2>1, <2>2, <2>3, <2>4, <2>5
<1>8. ASSUME FpsKey, Press(F10) PROVE Goal
  <2>1. TouchTypes'
    <3>1. AimPid \in Nat
      BY ConfigConstantsOK
    <3>2. CASE Push(<<Touch("UP", AimPid)>>, FpsChange)
      BY <1>1, <3>1, <3>2, FpsChangeIsKinds, PushOneTypes
    <3>3. CASE NoTouch(FpsChange)
      BY <1>1, <3>3, FpsChangeIsKinds, NoTouchTypes
    <3> QED BY <1>8, <3>2, <3>3 DEF FpsKey
  <2>2. /\ ToggleFps(TRUE)
        /\ UNCHANGED <<bindings, count, editMode, dragging, selected, buttonsState,
                       file>>
    BY <1>8 DEF FpsKey
  <2>3. ModeTypes'
    BY <1>1, <2>2, ToggleFpsTypes
  <2>4. InputTypes'
    BY <1>0, <1>8, <2>2
  <2> QED BY <1>2, <2>1, <2>2, <2>3, <2>4
<1>9. CASE FpsCommand
  <2>1. TouchTypes'
    BY <1>1, <1>9, FpsChangeIsKinds DEF FpsCommand, TouchTypes, ModeTypes
  <2>2. /\ ToggleFps(FALSE)
        /\ UNCHANGED <<bindings, count, editMode, dragging, selected, inputVars,
                       buttonsState, file>>
    BY <1>9 DEF FpsCommand
  <2>3. ModeTypes'
    BY <1>1, <2>2, ToggleFpsTypes
  <2> QED BY <1>2, <2>1, <2>2, <2>3
<1>10. ASSUME Reload, Press(F5) \/ Posted PROVE Goal
  <2>1. BindingTypes' /\ IdsApart(bindings')
    BY <1>1, <1>10, ReloadTypes
  <2>2. TouchTypes'
    <3>1. PICK changed \in SUBSET Kinds : NoTouch(changed)
      BY <1>3, <1>10 DEF Reload
    <3> QED BY <1>1, <3>1, NoTouchTypes
  <2>3. UNCHANGED <<editMode, fpsMode, aimFingerDown, capture, dragging, selected,
                    buttonsState, file>>
    BY <1>10 DEF Reload
  <2>4. InputTypes'
    BY <1>0, <1>10, <2>3
  <2> QED BY <1>2, <2>1, <2>2, <2>3, <2>4
<1>11. CASE RewriteFile
  <2>1. FileType'
    BY <1>11, KeymapperConstantsOK DEF RewriteFile, FileType
  <2>2. UNCHANGED <<bindings, count, editMode, fpsMode, aimFingerDown, capture, dragging,
                    selected, inputVars, buttonsState, down, disturbed, aimOrphaned>>
    BY <1>11 DEF RewriteFile, kmVars
  <2> QED BY <1>2, <2>1, <2>2
<1>12. ASSUME DeleteSelected, Press(Delete) \/ Repeat(Delete) PROVE Goal
  <2>1. selected \in Nat /\ RemoveBinding(selected)
    BY <1>1, <1>12, ConfigConstantsOK DEF DeleteSelected, Deletes, ModeTypes, Index, None
  <2>2. BindingTypes' /\ IdsApart(bindings') /\ selected' = None
    BY <1>1, <2>1, RemoveTypes
  <2>3. UNCHANGED <<editMode, fpsMode, aimFingerDown, capture, dragging, buttonsState, file,
                    down, disturbed, aimOrphaned>>
    BY <1>12 DEF DeleteSelected
  <2>4. ModeTypes'
    BY <1>1, <2>2, <2>3 DEF ModeTypes
  <2>5. InputTypes'
    BY <1>0, <1>12, <2>3
  <2> QED BY <1>2, <2>2, <2>3, <2>4, <2>5
<1>13. CASE Drag
  <2>1. BindingTypes' /\ IdsApart(bindings')
    BY <1>1, <1>13, DragTypes
  <2>2. UNCHANGED <<editMode, fpsMode, aimFingerDown, capture, dragging, selected, inputVars,
                    buttonsState, file, down, disturbed, aimOrphaned>>
    BY <1>13 DEF Drag
  <2> QED BY <1>2, <2>1, <2>2
<1>14. ASSUME NEW m \in Button, EditButtonDown(m) PROVE Goal
  <2>1. BindingTypes' /\ IdsApart(bindings') /\ ModeTypes'
    BY <1>1, <1>14, EditButtonDownTypes
  <2>2. /\ heldButtons' = heldButtons \cup {m}
        /\ UNCHANGED <<heldKeys, buttonsState, file, down, disturbed, aimOrphaned>>
    BY <1>14 DEF EditButtonDown
  <2>3. InputTypes'
    BY <1>1, <2>2 DEF InputTypes
  <2> QED BY <1>2, <2>1, <2>2, <2>3
<1>15. ASSUME NEW m \in Button, EditButtonUp(m) PROVE Goal
  <2>1. TouchTypes'
    <3>1. CASE NoTouch({})
      BY <1>1, <1>3, <3>1, NoTouchTypes
    <3>2. CASE SendMouse(buttonsState')
      BY <1>1, <3>2, SendMouseTypes
    <3> QED BY <1>15, <3>1, <3>2 DEF EditButtonUp
  <2>2. InputTypes'
    BY <1>1, <1>15 DEF EditButtonUp, InputTypes
  <2>3. dragging' \in {None, dragging}
    BY <1>15 DEF EditButtonUp
  <2>4. UNCHANGED <<bindings, count, editMode, fpsMode, aimFingerDown, capture, selected, file>>
    BY <1>15 DEF EditButtonUp
  <2>5. ModeTypes'
    BY <1>1, <2>3, <2>4 DEF ModeTypes
  <2> QED BY <1>2, <2>1, <2>2, <2>4, <2>5
<1>16. ASSUME NEW m \in Button, NEW a,
              \/ PushBound(m, a)
              \/ \E buttons \in SUBSET Button : Click(buttons)
              \/ NoTouch({}) /\ UNCHANGED buttonsState
       PROVE  TouchTypes' /\ buttonsState' \subseteq Button
  <2>1. CASE PushBound(m, a)
    BY <1>1, <2>1, PushBoundTypes DEF PushBound, InputTypes
  <2>2. CASE \E buttons \in SUBSET Button : Click(buttons)
    BY <1>1, <2>2, SendMouseTypes DEF Click
  <2>3. CASE NoTouch({}) /\ UNCHANGED buttonsState
    BY <1>1, <1>3, <2>3, NoTouchTypes DEF InputTypes
  <2> QED BY <1>16, <2>1, <2>2, <2>3
<1>17. ASSUME NEW m \in Button, ButtonDown(m) PROVE Goal
  <2>1. buttonsState \cup {m} \in SUBSET Button
    BY <1>1 DEF InputTypes
  <2>2. \/ PushBound(m, "DOWN")
        \/ \E buttons \in SUBSET Button : Click(buttons)
        \/ NoTouch({}) /\ UNCHANGED buttonsState
    BY <1>17, <2>1 DEF ButtonDown
  <2>3. TouchTypes' /\ buttonsState' \subseteq Button
    BY <1>16, <2>2
  <2>4. /\ heldButtons' = heldButtons \cup {m}
        /\ UNCHANGED <<bindings, count, editMode, fpsMode, aimFingerDown, capture, dragging,
                       selected, heldKeys, file>>
    BY <1>17 DEF ButtonDown, kmVars
  <2>5. InputTypes'
    BY <1>1, <2>3, <2>4 DEF InputTypes
  <2> QED BY <1>2, <2>3, <2>4, <2>5
<1>18. ASSUME NEW m \in Button, ButtonUp(m) PROVE Goal
  <2>1. buttonsState \ {m} \in SUBSET Button
    BY <1>1 DEF InputTypes
  <2>2. \/ PushBound(m, "UP")
        \/ \E buttons \in SUBSET Button : Click(buttons)
        \/ NoTouch({}) /\ UNCHANGED buttonsState
    BY <1>18, <2>1 DEF ButtonUp
  <2>3. TouchTypes' /\ buttonsState' \subseteq Button
    BY <1>16, <2>2
  <2>4. /\ heldButtons' = heldButtons \ {m}
        /\ UNCHANGED <<bindings, count, editMode, fpsMode, aimFingerDown, capture, dragging,
                       selected, heldKeys, file>>
    BY <1>18 DEF ButtonUp, kmVars
  <2>5. InputTypes'
    BY <1>1, <2>3, <2>4 DEF InputTypes
  <2> QED BY <1>2, <2>3, <2>4, <2>5
<1>19. CASE MouseMotion
  <2>1. TouchTypes'
    BY <1>1, <1>19, SendMouseTypes DEF MouseMotion
  <2>2. UNCHANGED <<bindings, count, editMode, fpsMode, aimFingerDown, capture, dragging,
                    selected, inputVars, buttonsState, file>>
    BY <1>19 DEF MouseMotion, kmVars
  <2> QED BY <1>2, <2>1, <2>2
<1>20. CASE AimMotion
  <2>1. TouchTypes'
    BY <1>1, <1>20, AimMotionTypes
  <2>2. /\ aimFingerDown' = TRUE
        /\ UNCHANGED <<bindings, count, editMode, fpsMode, capture, dragging, selected,
                       inputVars, buttonsState, file>>
    BY <1>1, <1>20, AimMotionIs
  <2>3. ModeTypes'
    BY <1>1, <2>2 DEF ModeTypes
  <2> QED BY <1>2, <2>1, <2>2, <2>3
<1>22. CASE Overlay
  <2>1. UNCHANGED <<bindings, count, editMode, fpsMode, aimFingerDown, capture, dragging,
                    selected, buttonsState, file, down, disturbed, aimOrphaned>>
    BY <1>22, OverlayIs DEF kmVars
  <2>2. InputTypes'
    BY <1>0, <1>22, <2>1, OverlayIs
  <2> QED BY <1>2, <2>1, <2>2
<1>21. CASE UNCHANGED vars
  <2>1. UNCHANGED <<bindings, count, editMode, fpsMode, aimFingerDown, capture, dragging,
                    selected, inputVars, buttonsState, file, down, disturbed, aimOrphaned>>
    BY <1>21 DEF vars, kmVars
  <2> QED BY <1>2, <2>1
<1> QED BY <1>4, <1>5, <1>6, <1>7, <1>8, <1>9, <1>10, <1>11, <1>12, <1>13, <1>14, <1>15,
           <1>17, <1>18, <1>19, <1>20, <1>21, <1>22 DEF Next

(* Every state has the types of the code's variables: the array is never   *)
(* overrun, and count is its length unless it was taken below zero.        *)
THEOREM TypesHold == Spec => []TypeOK
<1>1. TypeInv => TypeOK
  BY DEF TypeInv
<1> QED BY <1>1, InitTypes, StepTypes, PTL DEF Spec

-------------------------------------------------------------------------------
(* The aim finger                                                          *)

(* A touch of another pointer does not matter to a finger.                 *)
LEMMA AfterOthers ==
    ASSUME NEW fingers, NEW touches, NEW refused, NEW f,
           \A n \in 1..Len(touches) : touches[n].pid # f
    PROVE  f \in After(fingers, touches, refused) <=> f \in fingers
BY DEF After

(* The last touch decides, when none is refused.                           *)
LEMMA AfterDown ==
    ASSUME NEW fingers, NEW touches, Len(touches) \in Nat, Len(touches) > 0,
           touches[Len(touches)].action = "DOWN"
    PROVE  touches[Len(touches)].pid \in After(fingers, touches, {})
<1> DEFINE taken == {n \in 1..Len(touches) : n \notin {} /\ touches[n].action # "MOVE"}
<1>1. Len(touches) \in taken
  OBVIOUS
<1>2. \A m \in taken : ~(m > Len(touches))
  OBVIOUS
<1> QED BY <1>1, <1>2 DEF After

LEMMA AfterOne ==
    ASSUME NEW fingers, NEW p
    PROVE  /\ After(fingers, <<Touch("DOWN", p)>>, {}) = fingers \cup {p}
           /\ After(fingers, <<Touch("UP", p)>>, {}) = fingers \ {p}
           /\ After(fingers, <<Touch("MOVE", p)>>, {}) = fingers
<1>1. ASSUME NEW a, NEW t, t = <<Touch(a, p)>>
      PROVE  Len(t) = 1 /\ 1..Len(t) = {1} /\ t[1].pid = p /\ t[1].action = a
  BY <1>1 DEF Touch
<1>2. After(fingers, <<Touch("DOWN", p)>>, {}) = fingers \cup {p}
  <2> DEFINE t == <<Touch("DOWN", p)>>
  <2>1. Len(t) = 1 /\ 1..Len(t) = {1} /\ t[1].pid = p /\ t[1].action = "DOWN"
    BY <1>1
  <2> HIDE DEF t
  <2>2. After(fingers, t, {}) = fingers \cup {p}
    BY <2>1 DEF After
  <2> QED BY <2>2 DEF t
<1>3. After(fingers, <<Touch("UP", p)>>, {}) = fingers \ {p}
  <2> DEFINE t == <<Touch("UP", p)>>
  <2>1. Len(t) = 1 /\ 1..Len(t) = {1} /\ t[1].pid = p /\ t[1].action = "UP"
    BY <1>1
  <2> HIDE DEF t
  <2>2. After(fingers, t, {}) = fingers \ {p}
    BY <2>1 DEF After
  <2> QED BY <2>2 DEF t
<1>4. After(fingers, <<Touch("MOVE", p)>>, {}) = fingers
  <2> DEFINE t == <<Touch("MOVE", p)>>
  <2>1. Len(t) = 1 /\ 1..Len(t) = {1} /\ t[1].pid = p /\ t[1].action = "MOVE"
    BY <1>1
  <2> HIDE DEF t
  <2>2. After(fingers, t, {}) = fingers
    BY <2>1 DEF After
  <2> QED BY <2>2 DEF t
<1> QED BY <1>2, <1>3, <1>4

(* One touch: another finger stays as it is, and if it was not refused, it *)
(* had its effect.                                                         *)
LEMMA PushOne ==
    ASSUME NEW a, NEW p, NEW changed, Push(<<Touch(a, p)>>, changed)
    PROVE  /\ \A f : f # p => (f \in down' <=> f \in down)
           /\ ~aimOrphaned' => ~aimOrphaned /\ ~AimShared
           /\ disturbed \cup changed \subseteq disturbed'
           /\ disturbed' \subseteq disturbed \cup changed \cup {"touch"}
           /\ ~aimOrphaned' \/ "touch" \notin disturbed' =>
                 /\ a = "DOWN" => down' = down \cup {p}
                 /\ a = "UP" => down' = down \ {p}
<1> DEFINE t == <<Touch(a, p)>>
<1>1. PICK refused \in SUBSET (1..Len(t)) :
         /\ down' = After(down, t, refused)
         /\ disturbed' = disturbed \cup changed \cup When(refused # {}, {"touch"})
         /\ aimOrphaned' = (aimOrphaned \/ refused # {} \/ AimShared)
  BY PushIs
<1>2. \A n \in 1..Len(t) : t[n].pid = p
  BY DEF Touch
<1> HIDE DEF t
<1>3. \A f : f # p => (f \in down' <=> f \in down)
  BY <1>1, <1>2, AfterOthers
<1>4. /\ disturbed \cup changed \subseteq disturbed'
      /\ disturbed' \subseteq disturbed \cup changed \cup {"touch"}
      /\ "touch" \notin disturbed' => refused = {}
  BY <1>1 DEF When
<1>5. ~aimOrphaned' => ~aimOrphaned /\ ~AimShared /\ refused = {}
  BY <1>1
<1>6. refused = {} => /\ a = "DOWN" => down' = down \cup {p}
                      /\ a = "UP" => down' = down \ {p}
  <2> SUFFICES ASSUME refused = {} PROVE /\ a = "DOWN" => down' = down \cup {p}
                                         /\ a = "UP" => down' = down \ {p}
    OBVIOUS
  <2>1. down' = After(down, <<Touch(a, p)>>, {})
    BY <1>1 DEF t
  <2>2. /\ After(down, <<Touch("DOWN", p)>>, {}) = down \cup {p}
        /\ After(down, <<Touch("UP", p)>>, {}) = down \ {p}
    BY AfterOne
  <2>3. CASE a = "DOWN"
    BY <2>1, <2>2, <2>3
  <2>4. CASE a = "UP"
    BY <2>1, <2>2, <2>4
  <2> QED BY <2>3, <2>4
<1> QED BY <1>3, <1>4, <1>5, <1>6

AimInv == AimFlagExact /\ (aimFingerDown => fpsMode)

(* What does not concern the aim finger.                                   *)
NotAim == ~aimOrphaned' => ~aimOrphaned /\ (AimPid \in down' <=> AimPid \in down)

LEMMA NotAimHolds ==
    ASSUME BindingTypes
    PROVE  /\ \A changed : NoTouch(changed) => NotAim
           /\ \A k, a : MapKey(k, a) => NotAim
           /\ \A m, a : PushBound(m, a) => NotAim
           /\ \A buttons : SendMouse(buttons) => NotAim
<1>1. ASSUME NEW changed, NoTouch(changed) PROVE NotAim
  BY <1>1 DEF NoTouch, NotAim
<1>2. ASSUME NEW a, NEW b, \E n \in 1..Len(bindings) : b = bindings[n],
             Push(<<Touch(a, b.pid)>>, {})
      PROVE  NotAim
  <2>1. ~AimShared => b.pid # AimPid
    BY <1>2 DEF AimShared
  <2> QED BY <1>2, <2>1, PushOne DEF NotAim
<1>3. bindings \in Seq(Binding)
  BY DEF BindingTypes
<1>4. ASSUME NEW k, NEW a, MapKey(k, a) PROVE NotAim
  <2>1. CASE NoTouch({})
    BY <1>1, <2>1
  <2>2. CASE \E b \in FindKey(bindings, k) : Push(<<Touch(a, b.pid)>>, {})
    <3>1. PICK b \in FindKey(bindings, k) : Push(<<Touch(a, b.pid)>>, {})
      BY <2>2
    <3>2. \E n \in 1..Len(bindings) : b = bindings[n]
      BY <1>3, Found
    <3> QED BY <1>2, <3>1, <3>2
  <2> QED BY <1>4, <2>1, <2>2 DEF MapKey
<1>5. ASSUME NEW m, NEW a, PushBound(m, a) PROVE NotAim
  <2>1. PICK b \in FindMouse(bindings, m) : Push(<<Touch(a, b.pid)>>, {})
    BY <1>5 DEF PushBound
  <2>2. \E n \in 1..Len(bindings) : b = bindings[n]
    BY <1>3, Found
  <2> QED BY <1>2, <2>1, <2>2
<1>6. ASSUME NEW buttons, SendMouse(buttons) PROVE NotAim
  <2>1. MousePid # AimPid
    BY ConfigConstantsOK
  <2> QED BY <1>1, <1>6, <2>1, PushOne DEF SendMouse, NotAim
<1> QED BY <1>1, <1>4, <1>5, <1>6

LEMMA AimStep == TypeInv /\ AimInv /\ [Next]_vars => AimInv'
<1> SUFFICES ASSUME TypeInv, AimInv, [Next]_vars PROVE AimInv'
  OBVIOUS
<1>1. BindingTypes /\ ModeTypes
  BY TypeParts DEF TypeInv
<1>2. ASSUME NotAim, UNCHANGED <<fpsMode, aimFingerDown>> PROVE AimInv'
  BY <1>2 DEF NotAim, AimInv, AimFlagExact
<1>3. ASSUME UNCHANGED <<down, aimOrphaned>> PROVE NotAim
  BY <1>3 DEF NotAim
<1>4. ASSUME NEW k \in Keyboard, KeyDown(k) \/ KeyRepeat(k) \/ KeyUp(k) PROVE AimInv'
  <2>1. NotAim
    BY <1>1, <1>4, NotAimHolds DEF KeyDown, KeyRepeat, KeyUp
  <2>2. UNCHANGED <<fpsMode, aimFingerDown>>
    BY <1>4 DEF KeyDown, KeyRepeat, KeyUp, kmVars
  <2> QED BY <1>2, <2>1, <2>2
<1>5. CASE ToggleEdit \/ Reload
  <2>1. NotAim /\ UNCHANGED <<fpsMode, aimFingerDown>>
    BY <1>3, <1>5 DEF ToggleEdit, Reload, NoTouch
  <2> QED BY <1>2, <2>1
<1>6. CASE RewriteFile \/ DeleteSelected \/ Drag \/ Overlay
  <2>1. NotAim /\ UNCHANGED <<fpsMode, aimFingerDown>>
    BY <1>3, <1>6, OverlayIs DEF RewriteFile, DeleteSelected, Drag, kmVars
  <2> QED BY <1>2, <2>1
<1>7. ASSUME NEW m \in Button, EditButtonDown(m) PROVE AimInv'
  <2>1. NotAim /\ UNCHANGED <<fpsMode, aimFingerDown>>
    BY <1>3, <1>7 DEF EditButtonDown
  <2> QED BY <1>2, <2>1
<1>8. ASSUME NEW m \in Button, EditButtonUp(m) PROVE AimInv'
  <2>1. NotAim
    BY <1>1, <1>8, NotAimHolds DEF EditButtonUp
  <2>2. UNCHANGED <<fpsMode, aimFingerDown>>
    BY <1>8 DEF EditButtonUp
  <2> QED BY <1>2, <2>1, <2>2
<1>9. ASSUME NEW m \in Button, ButtonDown(m) \/ ButtonUp(m) PROVE AimInv'
  <2>1. NotAim
    BY <1>1, <1>9, NotAimHolds DEF ButtonDown, ButtonUp, Click
  <2>2. UNCHANGED <<fpsMode, aimFingerDown>>
    BY <1>9 DEF ButtonDown, ButtonUp, kmVars
  <2> QED BY <1>2, <2>1, <2>2
<1>10. CASE MouseMotion
  <2>1. NotAim
    BY <1>1, <1>10, NotAimHolds DEF MouseMotion
  <2>2. UNCHANGED <<fpsMode, aimFingerDown>>
    BY <1>10 DEF MouseMotion, kmVars
  <2> QED BY <1>2, <2>1, <2>2
<1>11. CASE FpsKey
  <2>1. aimFingerDown' = FALSE
    BY <1>11 DEF FpsKey, ToggleFps
  <2>2. CASE fpsMode /\ aimFingerDown
    <3>1. Push(<<Touch("UP", AimPid)>>, FpsChange)
      BY <1>11, <2>2 DEF FpsKey
    <3>2. ~aimOrphaned' => AimPid \notin down'
      BY <3>1, PushOne
    <3> QED BY <2>1, <3>2 DEF AimInv, AimFlagExact
  <2>3. CASE ~(fpsMode /\ aimFingerDown)
    <3>1. NotAim
      BY <1>1, <1>11, <2>3, NotAimHolds DEF FpsKey
    <3>2. ~aimFingerDown
      BY <1>1, <2>3 DEF AimInv, ModeTypes
    <3> QED BY <2>1, <3>1, <3>2 DEF NotAim, AimInv, AimFlagExact
  <2> QED BY <2>2, <2>3
<1>12. CASE FpsCommand
  <2>1. aimFingerDown' = FALSE /\ down' = down
    BY <1>12 DEF FpsCommand, ToggleFps
  <2>2. ~aimOrphaned' => ~aimOrphaned /\ ~aimFingerDown
    BY <1>12 DEF FpsCommand
  <2> QED BY <2>1, <2>2 DEF AimInv, AimFlagExact
<1>13. CASE AimMotion
  <2>1. /\ fpsMode /\ fpsMode' = fpsMode /\ aimFingerDown' = TRUE
        /\ \E far \in BOOLEAN : Push(AimTouches(aimFingerDown, far), {})
    BY <1>1, <1>13, AimMotionIs
  <2>2. PICK far \in BOOLEAN : Push(AimTouches(aimFingerDown, far), {})
    BY <2>1
  <2> DEFINE t == AimTouches(aimFingerDown, far)
             d == Touch("DOWN", AimPid)
             m == Touch("MOVE", AimPid)
             u == Touch("UP", AimPid)
  <2>3. PICK refused \in SUBSET (1..Len(t)) :
           /\ down' = After(down, t, refused)
           /\ aimOrphaned' = (aimOrphaned \/ refused # {} \/ AimShared)
    BY <2>2, PushIs
  <2>4. d.action = "DOWN" /\ d.pid = AimPid
    BY DEF Touch
  <2>5. t = IF aimFingerDown THEN IF far THEN <<m, u, d>> ELSE <<m>>
            ELSE IF far THEN <<d, m, u, d>> ELSE <<d, m>>
    BY <1>1, AimTouchesAre DEF ModeTypes
  <2> HIDE DEF t
  <2>6. ASSUME ~aimOrphaned' PROVE AimPid \in down'
    <3>1. ~aimOrphaned /\ down' = After(down, t, {})
      BY <2>3, <2>6
    <3>2. CASE aimFingerDown /\ ~far
      <4>1. After(down, <<m>>, {}) = down
        BY AfterOne
      <4>2. AimPid \in down
        BY <3>1, <3>2 DEF AimInv, AimFlagExact
      <4> QED BY <2>5, <3>1, <3>2, <4>1, <4>2
    <3>3. CASE far
      <4> HIDE DEF d, m, u
      <4>1. t \in {<<m, u, d>>, <<d, m, u, d>>}
        BY <2>5, <3>3
      <4>2. Len(t) \in Nat /\ Len(t) > 0 /\ t[Len(t)] = d
        <5>1. CASE t = <<m, u, d>>
          <6>1. Len(t) = 3 /\ t[3] = d
            BY <5>1
          <6> QED BY <6>1
        <5>2. CASE t = <<d, m, u, d>>
          <6>1. Len(t) = 4 /\ t[4] = d
            BY <5>2
          <6> QED BY <6>1
        <5> QED BY <4>1, <5>1, <5>2
      <4> QED BY <2>4, <3>1, <4>2, AfterDown
    <3>4. CASE ~aimFingerDown /\ ~far
      <4> DEFINE s == <<d, m>>
      <4>1. /\ Len(s) = 2 /\ s[1].action = "DOWN" /\ s[1].pid = AimPid
            /\ s[2].action = "MOVE"
        BY DEF Touch
      <4> HIDE DEF s, d, m
      <4>2. AimPid \in After(down, s, {})
        <5>1. 1..Len(s) = {1, 2}
          BY <4>1
        <5> QED BY <4>1, <5>1 DEF After
      <4>3. t = s
        BY <2>5, <3>4 DEF s
      <4> QED BY <3>1, <4>2, <4>3
    <3> QED BY <1>1, <3>2, <3>3, <3>4 DEF ModeTypes
  <2> QED BY <2>1, <2>6 DEF AimInv, AimFlagExact
<1>14. CASE UNCHANGED vars
  <2>1. NotAim /\ UNCHANGED <<fpsMode, aimFingerDown>>
    BY <1>3, <1>14 DEF vars, kmVars
  <2> QED BY <1>2, <2>1
<1> QED BY <1>4, <1>5, <1>6, <1>7, <1>8, <1>9, <1>10, <1>11, <1>12, <1>13, <1>14 DEF Next

(* The flag aim_finger_down, kept by hand in the hooks, is the state of the*)
(* aim finger on the device, unless it was orphaned by the command         *)
(* TOGGLE_FPS, a touch was refused or a binding has its id.                *)
THEOREM AimFlagIsExact == Spec => []AimFlagExact
<1>1. Init => AimInv
  BY DEF Init, AimInv, AimFlagExact
<1>2. AimInv => AimFlagExact
  BY DEF AimInv
<1> QED BY <1>1, <1>2, InitTypes, StepTypes, AimStep, PTL DEF Spec

-------------------------------------------------------------------------------
(* Saved bindings                                                          *)

(* Whatever was loaded and edited, every binding that can be triggered is  *)
(* found at the same place after a save and a reload.                      *)
THEOREM RoundTrips == Spec => []RoundTrip
<1>1. TypeInv => RoundTrip
  <2> SUFFICES ASSUME TypeInv PROVE RoundTrip
    OBVIOUS
  <2>1. bindings \in Seq(Binding) /\ Len(bindings) <= MaxBindings
    BY TypeParts DEF TypeInv, BindingTypes
  <2> QED BY <2>1, SavedBindingsSurvive DEF RoundTrip
<1> QED BY <1>1, InitTypes, StepTypes, PTL DEF Spec

-------------------------------------------------------------------------------
(* The mask of buttons                                                     *)

HasMouse(list, m) ==
    \E n \in 1..Len(list) : list[n].type = "MOUSE" /\ list[n].code = m

LEMMA MouseFound ==
    ASSUME NEW s \in Seq(Binding), NEW m
    PROVE  FindMouse(s, m) # {} <=> HasMouse(s, m)
<1>1. ASSUME FindMouse(s, m) # {} PROVE HasMouse(s, m)
  <2>1. PICK b \in FindMouse(s, m) : TRUE
    BY <1>1
  <2>2. b.type = "MOUSE" /\ b.code = m /\ \E n \in 1..Len(s) : b = s[n]
    BY Found
  <2> QED BY <2>2 DEF HasMouse
<1>2. ASSUME HasMouse(s, m) PROVE FindMouse(s, m) # {}
  <2> DEFINE T == {n \in 1..Len(s) : s[n].type = "MOUSE" /\ s[n].code = m}
  <2>1. Len(s) \in Nat
    BY LenProperties
  <2>2. T \in SUBSET Nat /\ T # {}
    BY <1>2, <2>1 DEF HasMouse
  <2>3. PICK i \in T : \A n \in T : i <= n
    <3> HIDE DEF T
    <3> QED BY <2>2, Least
  <2>4. \A j \in 1..(i - 1) : ~(s[j].type = "MOUSE" /\ s[j].code = m)
    <3> SUFFICES ASSUME NEW j \in 1..(i - 1), s[j].type = "MOUSE", s[j].code = m
                 PROVE  FALSE
      OBVIOUS
    <3>1. j \in T /\ j < i
      BY <2>1, <2>3
    <3> QED BY <2>1, <2>3, <3>1
  <2>5. s[i] \in FindMouse(s, m)
    BY <2>3, <2>4 DEF FindMouse, FirstMatch
  <2> QED BY <2>5
<1> QED BY <1>1, <1>2

(* Editing adds no binding of a button.                                    *)
LEMMA EditsAddNoMouse ==
    ASSUME BindingTypes, ModeTypes, IdsApart(bindings),
           DeleteSelected \/ Drag \/ \E b \in Button : EditButtonDown(b)
    PROVE  \A m : HasMouse(bindings', m) => HasMouse(bindings, m)
<1> HIDE DEF IdsApart
<1>1. bindings \in Seq(Binding) /\ Len(bindings) \in Nat /\ count \in Int
  BY LenProperties DEF BindingTypes
<1>2. ASSUME NEW i \in Nat, RemoveBinding(i)
      PROVE  \A m : HasMouse(bindings', m) => HasMouse(bindings, m)
  <2>1. \A n \in 1..Len(bindings') : \E x \in 1..Len(bindings) : bindings'[n] = bindings[x]
    BY <1>2, RemoveTypes
  <2> QED BY <2>1 DEF HasMouse
<1>3. ASSUME UNCHANGED bindings PROVE \A m : HasMouse(bindings', m) => HasMouse(bindings, m)
  BY <1>3 DEF HasMouse
<1>4. CASE DeleteSelected
  <2>1. selected \in Nat /\ RemoveBinding(selected)
    BY <1>4, ConfigConstantsOK DEF DeleteSelected, Deletes, ModeTypes, Index, None
  <2> QED BY <1>2, <2>1
<1>5. CASE Drag
  <2>1. PICK pos \in Pos :
           bindings' = [n \in 1..Len(bindings) |->
                           IF n = dragging + 1 THEN [bindings[n] EXCEPT !.pos = pos]
                                               ELSE bindings[n]]
    BY <1>5 DEF Drag
  <2>2. \A b \in Binding : /\ [b EXCEPT !.pos = pos].type = b.type
                           /\ [b EXCEPT !.pos = pos].code = b.code
    BY DEF Binding
  <2>3. \A n \in 1..Len(bindings) : bindings[n] \in Binding
    BY <1>1, ElementOfSeq
  <2>4. Len(bindings') = Len(bindings)
    BY <1>1, <2>1
  <2>5. \A n \in 1..Len(bindings) :
           bindings'[n].type = bindings[n].type /\ bindings'[n].code = bindings[n].code
    BY <2>1, <2>2, <2>3
  <2> QED BY <2>4, <2>5 DEF HasMouse
<1>6. ASSUME NEW b \in Button, EditButtonDown(b)
      PROVE  \A m : HasMouse(bindings', m) => HasMouse(bindings, m)
  <2>1. CASE b = Left
    <3>1. UNCHANGED bindings
      BY <1>6, <2>1, ConfigConstantsOK DEF EditButtonDown
    <3> QED BY <1>3, <3>1
  <2>2. CASE b = Right
    <3>1. EditRightDown
      BY <1>6, <2>2, ConfigConstantsOK DEF EditButtonDown
    <3>2. UNCHANGED bindings \/ \E i \in Nat : RemoveBinding(i)
      BY <1>1, <3>1 DEF EditRightDown
    <3> QED BY <1>2, <1>3, <3>2
  <2>3. CASE b # Left /\ b # Right
    <3>1. EditMiddleDown
      BY <1>6, <2>3 DEF EditButtonDown
    <3>2. CASE UNCHANGED bindings
      BY <1>3, <3>2
    <3>3. ASSUME NEW pos \in Pos, count >= 0, bindings' = Append(bindings, Blank(pos, count))
          PROVE  \A m : HasMouse(bindings', m) => HasMouse(bindings, m)
      <4> DEFINE e == Blank(pos, count)
      <4>1. e \in Binding /\ e.type = "KEY"
        BY <1>1, <3>3, ConfigConstantsOK DEF Blank, Binding, BindingType, Code
      <4> HIDE DEF e
      <4>2. /\ Len(bindings') = Len(bindings) + 1
            /\ \A n \in 1..Len(bindings) : bindings'[n] = bindings[n]
            /\ bindings'[Len(bindings) + 1] = e
        <5>1. bindings' = Append(bindings, e)
          BY <3>3 DEF e
        <5> QED BY <1>1, <4>1, <5>1, AppendProperties
      <4>3. \A n \in 1..Len(bindings') : n \in 1..Len(bindings) \/ bindings'[n].type = "KEY"
        BY <1>1, <4>1, <4>2
      <4>4. \A n \in 1..Len(bindings') :
               bindings'[n].type = "MOUSE" => /\ n \in 1..Len(bindings)
                                              /\ bindings'[n] = bindings[n]
        BY <4>2, <4>3
      <4> HIDE DEF EditButtonDown, EditMiddleDown
      <4> QED BY <4>4 DEF HasMouse
    <3>4. \/ UNCHANGED bindings
          \/ \E pos \in Pos : count >= 0 /\ bindings' = Append(bindings, Blank(pos, count))
      BY <3>1 DEF EditMiddleDown
    <3> QED BY <3>2, <3>3, <3>4
  <2> QED BY <2>1, <2>2, <2>3
<1> QED BY <1>4, <1>5, <1>6

(* No step forgets that held input was disturbed.                          *)
LEMMA DisturbedGrows ==
    /\ \A changed : NoTouch(changed) => disturbed \cup changed \subseteq disturbed'
    /\ \A t, changed : Push(t, changed) => disturbed \cup changed \subseteq disturbed'
    /\ \A k, a : MapKey(k, a) => disturbed \subseteq disturbed'
    /\ \A m, a : PushBound(m, a) => disturbed \subseteq disturbed'
    /\ \A buttons : SendMouse(buttons) => disturbed \subseteq disturbed'
<1>1. ASSUME NEW changed, NoTouch(changed) PROVE disturbed \cup changed \subseteq disturbed'
  BY <1>1 DEF NoTouch
<1>2. ASSUME NEW t, NEW changed, Push(t, changed)
      PROVE  disturbed \cup changed \subseteq disturbed'
  BY <1>2, PushIs
<1>3. ASSUME NEW k, NEW a, MapKey(k, a) PROVE disturbed \subseteq disturbed'
  <2>1. NoTouch({}) \/ \E t : Push(t, {})
    BY <1>3 DEF MapKey
  <2> QED BY <1>1, <1>2, <2>1
<1>4. ASSUME NEW m, NEW a, PushBound(m, a) PROVE disturbed \subseteq disturbed'
  <2>1. \E t : Push(t, {})
    BY <1>4 DEF PushBound
  <2> QED BY <1>2, <2>1
<1>5. ASSUME NEW buttons, SendMouse(buttons) PROVE disturbed \subseteq disturbed'
  <2>1. NoTouch({}) \/ \E t, changed : Push(t, changed)
    BY <1>5 DEF SendMouse
  <2> QED BY <1>1, <1>2, <2>1
<1> QED BY <1>1, <1>2, <1>3, <1>4, <1>5

(* A drag begins with a press that the mask does not see, so that its      *)
(* release may be consumed; a press of a bound button in FPS mode, too.    *)
DragInv == dragging # None => editMode /\ ("click" \notin disturbed => Left \notin buttonsState)

BoundInv ==
    "click" \notin disturbed /\ fpsMode =>
        \A m \in heldButtons : HasMouse(bindings, m) => m \notin buttonsState

ButtonsInv == ButtonsStateHeld /\ DragInv /\ BoundInv

LEMMA ButtonsKept ==
    ASSUME ButtonsInv, disturbed \subseteq disturbed',
           UNCHANGED <<buttonsState, heldButtons, fpsMode>>,
           dragging' # None => dragging' = dragging /\ editMode' = editMode,
           \A m : HasMouse(bindings', m) => HasMouse(bindings, m)
    PROVE  ButtonsInv'
<1>1. ButtonsStateHeld'
  BY DEF ButtonsInv, ButtonsStateHeld
<1>2. DragInv'
  BY DEF ButtonsInv, DragInv
<1>3. BoundInv'
  BY DEF ButtonsInv, BoundInv
<1> QED BY <1>1, <1>2, <1>3 DEF ButtonsInv

LEMMA ButtonsStep == TypeInv /\ ButtonsInv /\ [Next]_vars => ButtonsInv'
<1> SUFFICES ASSUME TypeInv, ButtonsInv, [Next]_vars PROVE ButtonsInv'
  OBVIOUS
<1>1. BindingTypes /\ ModeTypes /\ IdsApart(bindings)
  BY TypeParts DEF TypeInv
<1>2. ButtonsStateHeld /\ DragInv /\ BoundInv
  BY DEF ButtonsInv
<1> HIDE DEF IdsApart
<1>3. bindings \in Seq(Binding)
  BY <1>1 DEF BindingTypes
<1>4. UNCHANGED bindings => \A m : HasMouse(bindings', m) => HasMouse(bindings, m)
  BY DEF HasMouse
<1>5. ASSUME NEW k \in Keyboard, KeyDown(k) \/ KeyRepeat(k) \/ KeyUp(k) PROVE ButtonsInv'
  <2>1. disturbed \subseteq disturbed'
    BY <1>5, DisturbedGrows DEF KeyDown, KeyRepeat, KeyUp
  <2>2. UNCHANGED <<bindings, buttonsState, heldButtons, fpsMode, dragging, editMode>>
    BY <1>5, TakenKeys DEF KeyDown, KeyRepeat, KeyUp, kmVars
  <2> QED BY <1>4, <2>1, <2>2, ButtonsKept
<1>6. ASSUME ToggleEdit, Press(F12) \/ Posted PROVE ButtonsInv'
  <2>1. disturbed \subseteq disturbed'
    BY <1>6 DEF ToggleEdit, NoTouch
  <2>2. UNCHANGED <<bindings, buttonsState, heldButtons, fpsMode>>
    BY <1>6, TakenKeys DEF ToggleEdit
  <2>3. dragging' = None
    <3>1. CASE editMode
      BY <1>6, <3>1 DEF ToggleEdit
    <3>2. CASE ~editMode
      BY <1>2, <1>6, <3>2 DEF ToggleEdit, DragInv
    <3> QED BY <3>1, <3>2
  <2> QED BY <1>4, <2>1, <2>2, <2>3, ButtonsKept
<1>7. ASSUME (FpsKey /\ Press(F10)) \/ FpsCommand PROVE ButtonsInv'
  <2>1. disturbed \cup FpsChange \subseteq disturbed'
    BY <1>7, DisturbedGrows DEF FpsKey, FpsCommand
  <2>2. UNCHANGED <<bindings, buttonsState, heldButtons, dragging, editMode>>
    BY <1>7, TakenKeys DEF FpsKey, FpsCommand, inputVars
  <2>3. "click" \notin disturbed' => heldButtons = {}
    BY <2>1 DEF FpsChange, When
  <2>4. ButtonsStateHeld'
    BY <1>2, <2>1, <2>2 DEF ButtonsStateHeld
  <2>5. DragInv'
    BY <1>2, <2>1, <2>2 DEF DragInv
  <2>6. BoundInv'
    BY <2>2, <2>3 DEF BoundInv
  <2> QED BY <2>4, <2>5, <2>6 DEF ButtonsInv
<1>8. ASSUME Reload, Press(F5) \/ Posted PROVE ButtonsInv'
  <2> DEFINE changed == When(Holding, {"touch"}) \cup When(fpsMode /\ heldButtons # {}, {"click"})
  <2>1. disturbed \cup changed \subseteq disturbed'
    BY <1>8 DEF Reload, NoTouch
  <2>2. UNCHANGED <<buttonsState, heldButtons, dragging, editMode, fpsMode>>
    BY <1>8, TakenKeys DEF Reload
  <2>3. "click" \notin disturbed' /\ fpsMode => heldButtons = {}
    BY <2>1 DEF When
  <2>4. ButtonsStateHeld'
    BY <1>2, <2>1, <2>2 DEF ButtonsStateHeld
  <2>5. DragInv'
    BY <1>2, <2>1, <2>2 DEF DragInv
  <2>6. BoundInv'
    BY <2>2, <2>3 DEF BoundInv
  <2> QED BY <2>4, <2>5, <2>6 DEF ButtonsInv
<1>9. CASE RewriteFile \/ Overlay
  <2>1. UNCHANGED <<bindings, buttonsState, heldButtons, fpsMode, dragging, editMode, disturbed>>
    BY <1>9, OverlayIs, TakenKeys DEF RewriteFile, kmVars, inputVars
  <2> QED BY <1>4, <2>1, ButtonsKept
<1>10. ASSUME (DeleteSelected /\ (Press(Delete) \/ Repeat(Delete))) \/ Drag PROVE ButtonsInv'
  <2>1. UNCHANGED <<buttonsState, heldButtons, fpsMode, dragging, editMode, disturbed>>
    BY <1>10, TakenKeys DEF DeleteSelected, Drag, inputVars
  <2>2. \A m : HasMouse(bindings', m) => HasMouse(bindings, m)
    BY <1>1, <1>10, EditsAddNoMouse
  <2> QED BY <2>1, <2>2, ButtonsKept
<1>11. ASSUME NEW b \in Button, EditButtonDown(b) PROVE ButtonsInv'
  <2>1. /\ editMode /\ b \notin heldButtons /\ heldButtons' = heldButtons \cup {b}
        /\ UNCHANGED <<buttonsState, fpsMode, editMode, disturbed>>
    BY <1>11 DEF EditButtonDown
  <2>2. \A m : HasMouse(bindings', m) => HasMouse(bindings, m)
    BY <1>1, <1>11, EditsAddNoMouse
  <2>3. "click" \notin disturbed => b \notin buttonsState
    BY <1>2, <2>1 DEF ButtonsStateHeld
  <2>4. dragging' = dragging \/ b = Left
    BY <1>11 DEF EditButtonDown, EditRightDown, EditMiddleDown
  <2>5. ButtonsStateHeld'
    BY <1>2, <2>1 DEF ButtonsStateHeld
  <2>6. DragInv'
    BY <1>2, <2>1, <2>3, <2>4 DEF DragInv
  <2>7. BoundInv'
    BY <1>2, <2>1, <2>2, <2>3 DEF BoundInv
  <2> QED BY <2>5, <2>6, <2>7 DEF ButtonsInv
<1>12. ASSUME NEW b \in Button, EditButtonUp(b) PROVE ButtonsInv'
  <2>1. /\ heldButtons' = heldButtons \ {b}
        /\ UNCHANGED <<bindings, fpsMode, editMode>>
    BY <1>12 DEF EditButtonUp
  <2>2. disturbed \subseteq disturbed'
    BY <1>12, DisturbedGrows DEF EditButtonUp
  <2>3. dragging' # None => dragging' = dragging
    BY <1>12 DEF EditButtonUp
  <2>4. /\ buttonsState' \subseteq buttonsState
        /\ "click" \notin disturbed => b \notin buttonsState'
    <3>1. CASE b = Left /\ dragging # None
      <4>1. UNCHANGED buttonsState
        BY <1>12, <3>1 DEF EditButtonUp
      <4> QED BY <1>2, <3>1, <4>1 DEF DragInv
    <3>2. CASE ~(b = Left /\ dragging # None)
      <4>1. buttonsState' = buttonsState \ {b}
        BY <1>12, <3>2 DEF EditButtonUp
      <4> QED BY <4>1
    <3> QED BY <3>1, <3>2
  <2>5. ButtonsStateHeld'
    BY <1>2, <2>1, <2>2, <2>4 DEF ButtonsStateHeld
  <2>6. DragInv'
    BY <1>2, <2>1, <2>2, <2>3, <2>4 DEF DragInv
  <2>7. BoundInv'
    BY <1>2, <1>4, <2>1, <2>2, <2>4 DEF BoundInv
  <2> QED BY <2>5, <2>6, <2>7 DEF ButtonsInv
<1>13. ASSUME NEW b \in Button, ButtonDown(b) PROVE ButtonsInv'
  <2>1. /\ ~editMode /\ b \notin heldButtons /\ heldButtons' = heldButtons \cup {b}
        /\ UNCHANGED <<bindings, fpsMode, editMode, dragging>>
    BY <1>13 DEF ButtonDown, kmVars
  <2>2. disturbed \subseteq disturbed'
    BY <1>13, DisturbedGrows DEF ButtonDown, Click
  <2>3. dragging' = None
    BY <1>2, <2>1 DEF DragInv
  <2>4. /\ buttonsState' \subseteq buttonsState \cup {b}
        /\ fpsMode /\ HasMouse(bindings, b) => buttonsState' = buttonsState
    <3>1. Bound(b) <=> fpsMode /\ HasMouse(bindings, b)
      BY <1>3, MouseFound DEF Bound
    <3>2. CASE Bound(b)
      BY <1>13, <3>2 DEF ButtonDown, PushBound
    <3>3. CASE ~Bound(b)
      BY <1>13, <3>1, <3>3 DEF ButtonDown, Click
    <3> QED BY <3>2, <3>3
  <2>5. ButtonsStateHeld'
    BY <1>2, <2>1, <2>2, <2>4 DEF ButtonsStateHeld
  <2>6. DragInv'
    BY <2>3 DEF DragInv
  <2>7. BoundInv'
    <3> SUFFICES ASSUME "click" \notin disturbed', fpsMode', NEW m \in heldButtons',
                        HasMouse(bindings', m)
                 PROVE  m \notin buttonsState'
      BY DEF BoundInv
    <3>1. "click" \notin disturbed /\ fpsMode /\ HasMouse(bindings, m)
      BY <1>4, <2>1, <2>2
    <3>2. CASE m = b
      BY <1>2, <2>1, <2>4, <3>1, <3>2 DEF ButtonsStateHeld
    <3>3. CASE m # b
      BY <1>2, <2>1, <2>4, <3>1, <3>3 DEF BoundInv
    <3> QED BY <3>2, <3>3
  <2> QED BY <2>5, <2>6, <2>7 DEF ButtonsInv
<1>14. ASSUME NEW b \in Button, ButtonUp(b) PROVE ButtonsInv'
  <2>1. /\ b \in heldButtons /\ heldButtons' = heldButtons \ {b}
        /\ UNCHANGED <<bindings, fpsMode, editMode, dragging>>
    BY <1>14 DEF ButtonUp, kmVars
  <2>2. disturbed \subseteq disturbed'
    BY <1>14, DisturbedGrows DEF ButtonUp, Click
  <2>3. /\ buttonsState' \subseteq buttonsState
        /\ "click" \notin disturbed => b \notin buttonsState'
    <3>1. CASE Bound(b)
      <4>1. UNCHANGED buttonsState
        BY <1>14, <3>1 DEF ButtonUp, PushBound
      <4>2. fpsMode /\ HasMouse(bindings, b)
        BY <1>3, <3>1, MouseFound DEF Bound
      <4> QED BY <1>2, <2>1, <4>1, <4>2 DEF BoundInv
    <3>2. CASE ~Bound(b)
      BY <1>14, <3>2 DEF ButtonUp, Click
    <3> QED BY <3>1, <3>2
  <2>4. ButtonsStateHeld'
    BY <1>2, <2>1, <2>2, <2>3 DEF ButtonsStateHeld
  <2>5. DragInv'
    BY <1>2, <2>1, <2>2, <2>3 DEF DragInv
  <2>6. BoundInv'
    BY <1>2, <1>4, <2>1, <2>2, <2>3 DEF BoundInv
  <2> QED BY <2>4, <2>5, <2>6 DEF ButtonsInv
<1>15. CASE MouseMotion
  <2>1. disturbed \subseteq disturbed'
    BY <1>15, DisturbedGrows DEF MouseMotion
  <2>2. UNCHANGED <<bindings, buttonsState, heldButtons, fpsMode, dragging, editMode>>
    BY <1>15 DEF MouseMotion, kmVars, inputVars
  <2> QED BY <1>4, <2>1, <2>2, ButtonsKept
<1>16. CASE AimMotion
  <2>1. \E t : Push(t, {})
    BY <1>1, <1>16, AimMotionIs
  <2>2. disturbed \subseteq disturbed'
    BY <2>1, DisturbedGrows
  <2>3. UNCHANGED <<bindings, buttonsState, heldButtons, fpsMode, dragging, editMode>>
    BY <1>1, <1>16, AimMotionIs DEF inputVars
  <2> QED BY <1>4, <2>2, <2>3, ButtonsKept
<1>17. CASE UNCHANGED vars
  <2>1. UNCHANGED <<bindings, buttonsState, heldButtons, fpsMode, dragging, editMode, disturbed>>
    BY <1>17 DEF vars, kmVars, inputVars
  <2> QED BY <1>4, <2>1, ButtonsKept
<1> QED BY <1>5, <1>6, <1>7, <1>8, <1>9, <1>10, <1>11, <1>12, <1>13, <1>14, <1>15, <1>16,
           <1>17 DEF Next

(* The buttons that motion events report as pressed are held by the user,  *)
(* although edit mode, drags and FPS bindings consume some of the presses  *)
(* and releases, as long as neither FPS mode nor its bindings change while *)
(* a button is held.                                                       *)
THEOREM ButtonsAreHeld == Spec => []ButtonsStateHeld
<1>1. Init => ButtonsInv
  BY DEF Init, ButtonsInv, ButtonsStateHeld, DragInv, BoundInv
<1>2. ButtonsInv => ButtonsStateHeld
  BY DEF ButtonsInv
<1> QED BY <1>1, <1>2, InitTypes, StepTypes, ButtonsStep, PTL DEF Spec

-------------------------------------------------------------------------------
(* The fingers                                                             *)

(* The fingers of bindings that are found for a held key or button.        *)
Finger(f, list, keys, buttons, fps) ==
    \/ \E k \in keys : \E b \in FindKey(list, k) : f = b.pid
    \/ fps /\ \E m \in buttons : \E b \in FindMouse(list, m) : f = b.pid

(* The fingers that may be down, and those that must be: a shortcut of the *)
(* keymapper presses its own when it is repeated, if at all.               *)
MayDown  == Fingers(heldKeys)
MustDown == Fingers(heldKeys \ Shortcuts)

LEMMA FingersAre ==
    \A f : /\ f \in MayDown <=>
                 ~editMode /\ Finger(f, bindings, heldKeys, heldButtons, fpsMode)
           /\ f \in MayDown' <=>
                 ~editMode' /\ Finger(f, bindings', heldKeys', heldButtons', fpsMode')
           /\ f \in MustDown <=>
                 ~editMode /\ Finger(f, bindings, heldKeys \ Shortcuts, heldButtons, fpsMode)
           /\ f \in MustDown' <=>
                 ~editMode' /\ Finger(f, bindings', heldKeys' \ Shortcuts, heldButtons', fpsMode')
<1> SUFFICES ASSUME NEW f
             PROVE  /\ f \in MayDown <=>
                          ~editMode /\ Finger(f, bindings, heldKeys, heldButtons, fpsMode)
                    /\ f \in MayDown' <=>
                          ~editMode' /\ Finger(f, bindings', heldKeys', heldButtons', fpsMode')
                    /\ f \in MustDown <=>
                          ~editMode /\ Finger(f, bindings, heldKeys \ Shortcuts, heldButtons,
                                              fpsMode)
                    /\ f \in MustDown' <=>
                          ~editMode' /\ Finger(f, bindings', heldKeys' \ Shortcuts, heldButtons',
                                               fpsMode')
  OBVIOUS
<1>1. f \in MayDown <=> ~editMode /\ Finger(f, bindings, heldKeys, heldButtons, fpsMode)
  BY DEF MayDown, Fingers, Finger
<1>2. f \in MayDown' <=>
         ~editMode' /\ Finger(f, bindings', heldKeys', heldButtons', fpsMode')
  BY DEF MayDown, Fingers, Finger
<1>3. f \in MustDown <=>
         ~editMode /\ Finger(f, bindings, heldKeys \ Shortcuts, heldButtons, fpsMode)
  BY DEF MustDown, Fingers, Finger
<1>4. f \in MustDown' <=>
         ~editMode' /\ Finger(f, bindings', heldKeys' \ Shortcuts, heldButtons', fpsMode')
  BY DEF MustDown, Fingers, Finger, Shortcuts, Opacity
<1> QED BY <1>1, <1>2, <1>3, <1>4

(* Two bindings of the array that are found for different inputs have      *)
(* different fingers.                                                      *)
LEMMA FingersApart ==
    ASSUME BindingTypes, IdsApart(bindings), IdsAreOwn
    PROVE  /\ \A k, l : k # l => \A b \in FindKey(bindings, k) :
                                 \A c \in FindKey(bindings, l) : b.pid # c.pid
           /\ \A k, m : \A b \in FindKey(bindings, k) :
                        \A c \in FindMouse(bindings, m) : b.pid # c.pid
           /\ \A m, n : m # n => \A b \in FindMouse(bindings, m) :
                                 \A c \in FindMouse(bindings, n) : b.pid # c.pid
<1>1. bindings \in Seq(Binding)
  BY DEF BindingTypes
<1>2. ASSUME NEW b, NEW c, b.pid = c.pid, b \in Binding,
             \E i \in 1..Len(bindings) : b = bindings[i],
             \E j \in 1..Len(bindings) : c = bindings[j]
      PROVE  b = c \/ (IsPlaceholder(b) /\ IsPlaceholder(c))
  <2>1. PICK i \in 1..Len(bindings) : b = bindings[i]
    BY <1>2
  <2>2. PICK j \in 1..Len(bindings) : c = bindings[j]
    BY <1>2
  <2>3. CASE i = j
    BY <2>1, <2>2, <2>3
  <2>4. CASE i # j
    <3>1. b.pid >= BlankBase
      BY <1>2, <2>1, <2>2, <2>4 DEF IdsApart
    <3>2. b.pid \in Nat /\ BlankBase \in Nat
      BY <1>2, ConfigConstantsOK DEF Binding
    <3>3. ~(b.pid < BlankBase) /\ ~(c.pid < BlankBase)
      BY <1>2, <3>1, <3>2
    <3> QED BY <2>1, <2>2, <3>3 DEF IdsAreOwn
  <2> QED BY <2>3, <2>4
<1>3. ASSUME NEW k, NEW l, k # l, NEW b \in FindKey(bindings, k),
             NEW c \in FindKey(bindings, l)
      PROVE  b.pid # c.pid
  <2>1. b.code = k /\ c.code = l /\ b \in Binding
    BY <1>1, Found
  <2>2. /\ \E i \in 1..Len(bindings) : b = bindings[i]
        /\ \E j \in 1..Len(bindings) : c = bindings[j]
    BY <1>1, Found
  <2>3. b # c /\ ~(IsPlaceholder(b) /\ IsPlaceholder(c))
    BY <1>3, <2>1 DEF IsPlaceholder
  <2> QED BY <1>2, <2>1, <2>2, <2>3
<1>4. ASSUME NEW k, NEW m, NEW b \in FindKey(bindings, k),
             NEW c \in FindMouse(bindings, m)
      PROVE  b.pid # c.pid
  <2>1. b.type = "KEY" /\ c.type = "MOUSE" /\ b \in Binding
    BY <1>1, Found
  <2>2. /\ \E i \in 1..Len(bindings) : b = bindings[i]
        /\ \E j \in 1..Len(bindings) : c = bindings[j]
    BY <1>1, Found
  <2>3. b # c /\ ~(IsPlaceholder(b) /\ IsPlaceholder(c))
    BY <2>1 DEF IsPlaceholder
  <2> QED BY <1>2, <2>1, <2>2, <2>3
<1>5. ASSUME NEW m, NEW n, m # n, NEW b \in FindMouse(bindings, m),
             NEW c \in FindMouse(bindings, n)
      PROVE  b.pid # c.pid
  <2>1. b.code = m /\ c.code = n /\ b.type = "MOUSE" /\ b \in Binding
    BY <1>1, Found
  <2>2. /\ \E i \in 1..Len(bindings) : b = bindings[i]
        /\ \E j \in 1..Len(bindings) : c = bindings[j]
    BY <1>1, Found
  <2>3. b # c /\ ~(IsPlaceholder(b) /\ IsPlaceholder(c))
    BY <1>5, <2>1 DEF IsPlaceholder
  <2> QED BY <1>2, <2>1, <2>2, <2>3
<1> QED BY <1>3, <1>4, <1>5

(* NoStuckTouch, finger by finger.                                         *)
FingerInv ==
    "touch" \notin disturbed =>
        \A f : f \notin Others =>
                  /\ f \in down => f \in MayDown
                  /\ IdsAreOwn /\ f \in MustDown => f \in down

LEMMA FingerInvIs == FingerInv <=> NoStuckTouch
BY DEF FingerInv, NoStuckTouch, MayDown, MustDown

LEMMA OthersGrow ==
    ASSUME disturbed \subseteq disturbed'
    PROVE  Others \subseteq Others'
BY DEF Others

(* An event that touches no finger of a binding, takes none from those     *)
(* that may be down and adds none to those that must.                      *)
LEMMA FingersKept ==
    ASSUME FingerInv, disturbed \subseteq disturbed',
           \A f : f \notin Others' /\ "touch" \notin disturbed' => (f \in down' <=> f \in down),
           "touch" \notin disturbed' => MayDown \subseteq MayDown' /\ MustDown' \subseteq MustDown,
           UNCHANGED bindings \/ ("touch" \notin disturbed' => MustDown' = {})
    PROVE  FingerInv'
<1> SUFFICES ASSUME "touch" \notin disturbed', NEW f, f \notin Others'
             PROVE  /\ f \in down' => f \in MayDown'
                    /\ IdsAreOwn' /\ f \in MustDown' => f \in down'
  BY DEF FingerInv
<1>1. f \notin Others /\ "touch" \notin disturbed
  BY OthersGrow
<1>2. /\ f \in down => f \in MayDown
      /\ IdsAreOwn /\ f \in MustDown => f \in down
  BY <1>1 DEF FingerInv
<1>3. /\ f \in down' <=> f \in down
      /\ f \in MayDown => f \in MayDown'
      /\ f \in MustDown' => f \in MustDown
  OBVIOUS
<1>4. CASE UNCHANGED bindings
  <2>1. IdsAreOwn' => IdsAreOwn
    BY <1>4 DEF IdsAreOwn
  <2> QED BY <1>2, <1>3, <2>1
<1>5. CASE MustDown' = {}
  BY <1>2, <1>3, <1>5
<1> QED BY <1>4, <1>5

(* A touch of a binding, for an input that is now, or no longer, held.     *)
LEMMA Pressed ==
    ASSUME FingerInv, NEW p, Push(<<Touch("DOWN", p)>>, {}), UNCHANGED bindings,
           \A f : f \in MayDown \/ f = p => f \in MayDown',
           \A f : f \in MustDown' => f \in MustDown \/ f = p
    PROVE  FingerInv'
<1> SUFFICES ASSUME "touch" \notin disturbed', NEW f, f \notin Others'
             PROVE  /\ f \in down' => f \in MayDown'
                    /\ IdsAreOwn' /\ f \in MustDown' => f \in down'
  BY DEF FingerInv
<1>1. disturbed' = disturbed /\ down' = down \cup {p}
  BY PushOne
<1>2. f \notin Others /\ "touch" \notin disturbed
  BY <1>1, OthersGrow
<1>3. /\ f \in down => f \in MayDown
      /\ IdsAreOwn /\ f \in MustDown => f \in down
  BY <1>2 DEF FingerInv
<1>4. IdsAreOwn' => IdsAreOwn
  BY DEF IdsAreOwn
<1> QED BY <1>1, <1>3, <1>4

LEMMA Released ==
    ASSUME FingerInv, NEW p, Push(<<Touch("UP", p)>>, {}), UNCHANGED bindings,
           \A f : f # p => (f \in MayDown => f \in MayDown'),
           \A f : f \in MustDown' => f \in MustDown,
           IdsAreOwn => p \notin MustDown'
    PROVE  FingerInv'
<1> SUFFICES ASSUME "touch" \notin disturbed', NEW f, f \notin Others'
             PROVE  /\ f \in down' => f \in MayDown'
                    /\ IdsAreOwn' /\ f \in MustDown' => f \in down'
  BY DEF FingerInv
<1>1. disturbed' = disturbed /\ down' = down \ {p}
  BY PushOne
<1>2. f \notin Others /\ "touch" \notin disturbed
  BY <1>1, OthersGrow
<1>3. /\ f \in down => f \in MayDown
      /\ IdsAreOwn /\ f \in MustDown => f \in down
  BY <1>2 DEF FingerInv
<1>4. IdsAreOwn' => IdsAreOwn
  BY DEF IdsAreOwn
<1> QED BY <1>1, <1>3, <1>4

(* The mouse and the aim are not fingers of bindings.                      *)
LEMMA OthersTouch ==
    /\ \A changed : NoTouch(changed) => down' = down
    /\ \A buttons : SendMouse(buttons) =>
          \A f : f \notin Others' => (f \in down' <=> f \in down)
    /\ \A changed : Push(<<Touch("UP", AimPid)>>, changed) =>
          \A f : f \notin Others' => (f \in down' <=> f \in down)
    /\ ModeTypes /\ AimMotion =>
          \A f : f \notin Others' => (f \in down' <=> f \in down)
<1>1. ASSUME NEW changed, NoTouch(changed) PROVE down' = down
  BY <1>1 DEF NoTouch
<1>2. ASSUME NEW buttons, SendMouse(buttons), NEW f, f \notin Others'
      PROVE  f \in down' <=> f \in down
  <2>1. CASE NoTouch({})
    BY <1>1, <2>1
  <2>2. CASE Push(<<Touch(IF buttons = {} THEN "UP" ELSE "DOWN", MousePid)>>, {"mouse"})
    <3>1. "mouse" \in disturbed' /\ \A g : g # MousePid => (g \in down' <=> g \in down)
      BY <2>2, PushOne
    <3>2. f # MousePid
      BY <1>2, <3>1 DEF Others
    <3> QED BY <3>1, <3>2
  <2> QED BY <1>2, <2>1, <2>2 DEF SendMouse
<1>3. ASSUME NEW changed, Push(<<Touch("UP", AimPid)>>, changed), NEW f, f \notin Others'
      PROVE  f \in down' <=> f \in down
  <2>1. f # AimPid
    BY <1>3 DEF Others
  <2> QED BY <1>3, <2>1, PushOne
<1>4. ASSUME ModeTypes, AimMotion, NEW f, f \notin Others'
      PROVE  f \in down' <=> f \in down
  <2>1. PICK far \in BOOLEAN : Push(AimTouches(aimFingerDown, far), {})
    BY <1>4, AimMotionIs
  <2> DEFINE t == AimTouches(aimFingerDown, far)
             d == Touch("DOWN", AimPid)
             m == Touch("MOVE", AimPid)
             u == Touch("UP", AimPid)
  <2>2. d.pid = AimPid /\ m.pid = AimPid /\ u.pid = AimPid /\ f # AimPid
    BY <1>4 DEF Touch, Others
  <2>3. t = IF aimFingerDown THEN IF far THEN <<m, u, d>> ELSE <<m>>
            ELSE IF far THEN <<d, m, u, d>> ELSE <<d, m>>
    BY <1>4, AimTouchesAre DEF ModeTypes
  <2>4. PICK refused \in SUBSET (1..Len(t)) : down' = After(down, t, refused)
    BY <2>1, PushIs
  <2> HIDE DEF t, d, m, u
  <2>5. t \in {<<m, u, d>>, <<m>>, <<d, m, u, d>>, <<d, m>>}
    BY <2>3
  <2>6. \A n \in 1..Len(t) : t[n].pid # f
    BY <2>2, <2>5
  <2> QED BY <2>4, <2>6, AfterOthers
<1> QED BY <1>1, <1>2, <1>3, <1>4

(* A key or a button goes down or up.                                      *)
LEMMA FingerChanges ==
    ASSUME NEW list, NEW keys, NEW buttons, NEW fps
    PROVE  /\ \A k, f : Finger(f, list, keys \cup {k}, buttons, fps) <=>
                 \/ Finger(f, list, keys, buttons, fps)
                 \/ \E b \in FindKey(list, k) : f = b.pid
           /\ \A m, f : Finger(f, list, keys, buttons \cup {m}, fps) <=>
                 \/ Finger(f, list, keys, buttons, fps)
                 \/ fps /\ \E b \in FindMouse(list, m) : f = b.pid
BY DEF Finger

LEMMA FingersGrow ==
    ASSUME NEW list, NEW keys, NEW fewer \in SUBSET keys, NEW buttons, NEW fps
    PROVE  \A f : Finger(f, list, fewer, buttons, fps) => Finger(f, list, keys, buttons, fps)
BY DEF Finger

LEMMA KeyDownFingers ==
    ASSUME TypeInv, FingerInv, NEW k \in Keyboard,
           MapKey(k, "DOWN"), heldKeys' = heldKeys \cup {k},
           UNCHANGED <<bindings, editMode, fpsMode, heldButtons>>
    PROVE  FingerInv'
<1> HIDE DEF IdsApart
<1>1. bindings \in Seq(Binding)
  BY TypeParts DEF TypeInv, BindingTypes
<1>2. /\ \A f : f \in MayDown' <=>
               \/ f \in MayDown
               \/ ~editMode /\ \E b \in FindKey(bindings, k) : f = b.pid
      /\ \A f : f \in MustDown' =>
               \/ f \in MustDown
               \/ ~editMode /\ \E b \in FindKey(bindings, k) : f = b.pid
  <2> DEFINE own == heldKeys \ Shortcuts
  <2>1. \A f : Finger(f, bindings, heldKeys \cup {k}, heldButtons, fpsMode) <=>
           \/ Finger(f, bindings, heldKeys, heldButtons, fpsMode)
           \/ \E b \in FindKey(bindings, k) : f = b.pid
    BY DEF Finger
  <2>2. \A f : Finger(f, bindings, own \cup {k}, heldButtons, fpsMode) <=>
           \/ Finger(f, bindings, own, heldButtons, fpsMode)
           \/ \E b \in FindKey(bindings, k) : f = b.pid
    BY DEF Finger
  <2>3. heldKeys' \ Shortcuts \in SUBSET (own \cup {k})
    OBVIOUS
  <2>4. \A f : Finger(f, bindings, heldKeys' \ Shortcuts, heldButtons, fpsMode) =>
                  Finger(f, bindings, own \cup {k}, heldButtons, fpsMode)
    BY <2>3, FingersGrow
  <2> QED BY <2>1, <2>2, <2>4, FingersAre
<1>3. CASE ~editMode /\ FindKey(bindings, k) # {}
  <2>1. PICK b \in FindKey(bindings, k) : Push(<<Touch("DOWN", b.pid)>>, {})
    BY <1>3 DEF MapKey
  <2>2. /\ \A f : f \in MayDown \/ f = b.pid => f \in MayDown'
        /\ \A f : f \in MustDown' => f \in MustDown \/ f = b.pid
    BY <1>1, <1>2, <1>3, <2>1, FoundOnce
  <2> QED BY <2>1, <2>2, Pressed
<1>4. CASE ~(~editMode /\ FindKey(bindings, k) # {})
  <2>1. NoTouch({})
    BY <1>4 DEF MapKey
  <2>2. MayDown \subseteq MayDown' /\ MustDown' \subseteq MustDown
    BY <1>2, <1>4
  <2>3. disturbed \subseteq disturbed' /\ down' = down
    BY <2>1, DisturbedGrows, OthersTouch
  <2> QED BY <2>2, <2>3, FingersKept
<1> QED BY <1>3, <1>4

LEMMA KeyUpFingers ==
    ASSUME TypeInv, FingerInv, NEW k \in heldKeys,
           MapKey(k, "UP"), heldKeys' = heldKeys \ {k},
           UNCHANGED <<bindings, editMode, fpsMode, heldButtons>>
    PROVE  FingerInv'
<1> HIDE DEF IdsApart
<1>1. bindings \in Seq(Binding) /\ BindingTypes /\ IdsApart(bindings)
  BY TypeParts DEF TypeInv, BindingTypes
<1>2. heldKeys = heldKeys' \cup {k}
  OBVIOUS
<1>3. \A f : f \in MayDown <=>
         \/ f \in MayDown'
         \/ ~editMode /\ \E b \in FindKey(bindings, k) : f = b.pid
  <2>1. \A f : Finger(f, bindings, heldKeys' \cup {k}, heldButtons, fpsMode) <=>
           \/ Finger(f, bindings, heldKeys', heldButtons, fpsMode)
           \/ \E b \in FindKey(bindings, k) : f = b.pid
    BY FingerChanges
  <2> QED BY <1>2, <2>1, FingersAre
<1>4. \A f : f \in MustDown' => f \in MustDown
  <2>1. heldKeys' \ Shortcuts \in SUBSET (heldKeys \ Shortcuts)
    OBVIOUS
  <2>2. \A f : Finger(f, bindings, heldKeys' \ Shortcuts, heldButtons, fpsMode) =>
                  Finger(f, bindings, heldKeys \ Shortcuts, heldButtons, fpsMode)
    BY <2>1, FingersGrow
  <2> QED BY <2>2, FingersAre
<1>5. CASE ~editMode /\ FindKey(bindings, k) # {}
  <2>1. PICK b \in FindKey(bindings, k) : Push(<<Touch("UP", b.pid)>>, {})
    BY <1>5 DEF MapKey
  <2>2. \A f : f # b.pid => (f \in MayDown => f \in MayDown')
    BY <1>1, <1>3, <2>1, FoundOnce
  <2>3. IdsAreOwn => b.pid \notin MustDown'
    <3> SUFFICES ASSUME IdsAreOwn, b.pid \in MustDown' PROVE FALSE
      OBVIOUS
    <3>1. Finger(b.pid, bindings, heldKeys' \ Shortcuts, heldButtons, fpsMode)
      BY FingersAre
    <3>2. ASSUME NEW l \in heldKeys' \ Shortcuts, NEW c \in FindKey(bindings, l), b.pid = c.pid
          PROVE  FALSE
      BY <1>1, <2>1, <3>2, FingersApart
    <3>3. ASSUME NEW m \in heldButtons, NEW c \in FindMouse(bindings, m), b.pid = c.pid
          PROVE  FALSE
      BY <1>1, <2>1, <3>3, FingersApart
    <3> QED BY <3>1, <3>2, <3>3 DEF Finger
  <2> QED BY <1>4, <2>1, <2>2, <2>3, Released
<1>6. CASE ~(~editMode /\ FindKey(bindings, k) # {})
  <2>1. NoTouch({})
    BY <1>6 DEF MapKey
  <2>2. MayDown \subseteq MayDown' /\ MustDown' \subseteq MustDown
    BY <1>3, <1>4, <1>6
  <2>3. disturbed \subseteq disturbed' /\ down' = down
    BY <2>1, DisturbedGrows, OthersTouch
  <2> QED BY <2>2, <2>3, FingersKept
<1> QED BY <1>5, <1>6

LEMMA ButtonDownFingers ==
    ASSUME TypeInv, FingerInv, NEW m \in Button, ButtonDown(m)
    PROVE  FingerInv'
<1> HIDE DEF IdsApart
<1>1. bindings \in Seq(Binding)
  BY TypeParts DEF TypeInv, BindingTypes
<1>2. /\ ~editMode /\ heldButtons' = heldButtons \cup {m}
      /\ UNCHANGED <<bindings, editMode, fpsMode, heldKeys>>
  BY DEF ButtonDown, kmVars
<1>3. \A f : /\ f \in MayDown' <=>
                   \/ f \in MayDown
                   \/ fpsMode /\ \E b \in FindMouse(bindings, m) : f = b.pid
             /\ f \in MustDown' <=>
                   \/ f \in MustDown
                   \/ fpsMode /\ \E b \in FindMouse(bindings, m) : f = b.pid
  <2>1. \A keys, f : Finger(f, bindings, keys, heldButtons \cup {m}, fpsMode) <=>
           \/ Finger(f, bindings, keys, heldButtons, fpsMode)
           \/ fpsMode /\ \E b \in FindMouse(bindings, m) : f = b.pid
    BY FingerChanges
  <2> QED BY <1>2, <2>1, FingersAre
<1>4. CASE Bound(m)
  <2>1. PICK b \in FindMouse(bindings, m) : Push(<<Touch("DOWN", b.pid)>>, {})
    BY <1>4 DEF ButtonDown, PushBound
  <2>2. /\ \A f : f \in MayDown \/ f = b.pid => f \in MayDown'
        /\ \A f : f \in MustDown' => f \in MustDown \/ f = b.pid
    BY <1>1, <1>3, <1>4, <2>1, FoundOnce DEF Bound
  <2> QED BY <1>2, <2>1, <2>2, Pressed
<1>5. CASE ~Bound(m)
  <2>1. NoTouch({}) \/ \E buttons : SendMouse(buttons)
    BY <1>5 DEF ButtonDown, Click
  <2>2. MayDown \subseteq MayDown' /\ MustDown' \subseteq MustDown
    BY <1>3, <1>5 DEF Bound
  <2>3. disturbed \subseteq disturbed' /\ \A f : f \notin Others' => (f \in down' <=> f \in down)
    BY <2>1, DisturbedGrows, OthersTouch
  <2> QED BY <1>2, <2>2, <2>3, FingersKept
<1> QED BY <1>4, <1>5

LEMMA ButtonUpFingers ==
    ASSUME TypeInv, FingerInv, NEW m \in Button, ButtonUp(m)
    PROVE  FingerInv'
<1> HIDE DEF IdsApart
<1>1. bindings \in Seq(Binding) /\ BindingTypes /\ IdsApart(bindings)
  BY TypeParts DEF TypeInv, BindingTypes
<1>2. /\ ~editMode /\ heldButtons = heldButtons' \cup {m} /\ m \notin heldButtons'
      /\ UNCHANGED <<bindings, editMode, fpsMode, heldKeys>>
  BY DEF ButtonUp, kmVars
<1>3. \A f : /\ f \in MayDown <=>
                   \/ f \in MayDown'
                   \/ fpsMode /\ \E b \in FindMouse(bindings, m) : f = b.pid
             /\ f \in MustDown <=>
                   \/ f \in MustDown'
                   \/ fpsMode /\ \E b \in FindMouse(bindings, m) : f = b.pid
  <2>1. \A keys, f : Finger(f, bindings, keys, heldButtons' \cup {m}, fpsMode) <=>
           \/ Finger(f, bindings, keys, heldButtons', fpsMode)
           \/ fpsMode /\ \E b \in FindMouse(bindings, m) : f = b.pid
    BY FingerChanges
  <2> QED BY <1>2, <2>1, FingersAre
<1>4. CASE Bound(m)
  <2>1. PICK b \in FindMouse(bindings, m) : Push(<<Touch("UP", b.pid)>>, {})
    BY <1>4 DEF ButtonUp, PushBound
  <2>2. /\ \A f : f # b.pid => (f \in MayDown => f \in MayDown')
        /\ \A f : f \in MustDown' => f \in MustDown
    BY <1>1, <1>3, <2>1, FoundOnce
  <2>3. IdsAreOwn => b.pid \notin MustDown'
    <3> SUFFICES ASSUME IdsAreOwn, b.pid \in MustDown' PROVE FALSE
      OBVIOUS
    <3>1. Finger(b.pid, bindings, heldKeys \ Shortcuts, heldButtons', fpsMode)
      BY <1>2, FingersAre
    <3>2. ASSUME NEW k \in heldKeys \ Shortcuts, NEW c \in FindKey(bindings, k), b.pid = c.pid
          PROVE  FALSE
      BY <1>1, <2>1, <3>2, FingersApart
    <3>3. ASSUME NEW n \in heldButtons', NEW c \in FindMouse(bindings, n), b.pid = c.pid
          PROVE  FALSE
      BY <1>1, <1>2, <2>1, <3>3, FingersApart
    <3> QED BY <3>1, <3>2, <3>3 DEF Finger
  <2> QED BY <1>2, <2>1, <2>2, <2>3, Released
<1>5. CASE ~Bound(m)
  <2>1. \E buttons : SendMouse(buttons)
    BY <1>5 DEF ButtonUp, Click
  <2>2. MayDown \subseteq MayDown' /\ MustDown' \subseteq MustDown
    BY <1>3, <1>5 DEF Bound
  <2>3. disturbed \subseteq disturbed' /\ \A f : f \notin Others' => (f \in down' <=> f \in down)
    BY <2>1, DisturbedGrows, OthersTouch
  <2> QED BY <1>2, <2>2, <2>3, FingersKept
<1> QED BY <1>4, <1>5

LEMMA FingerStep == TypeInv /\ FingerInv /\ [Next]_vars => FingerInv'
<1> SUFFICES ASSUME TypeInv, FingerInv, [Next]_vars PROVE FingerInv'
  OBVIOUS
<1> HIDE DEF IdsApart
<1>1. bindings \in Seq(Binding) /\ ModeTypes
  BY TypeParts DEF TypeInv, BindingTypes
<1>2. UNCHANGED <<bindings, editMode, heldKeys, heldButtons, fpsMode>> =>
         MayDown' = MayDown /\ MustDown' = MustDown
  BY FingersAre
<1>3. ASSUME heldKeys = {}, heldButtons' = {}, heldButtons = {}, heldKeys' \subseteq Shortcuts
      PROVE  MayDown = {} /\ MustDown' = {}
  <2>1. heldKeys' \ Shortcuts = {}
    BY <1>3
  <2> QED BY <1>3, <2>1, FingersAre DEF Finger
<1>4. ASSUME editMode, UNCHANGED editMode
      PROVE  MayDown = {} /\ MustDown' = {}
  BY <1>4, FingersAre
<1>17. ASSUME NEW k \in Shortcuts, Press(k) \/ Repeat(k)
       PROVE  /\ UNCHANGED heldButtons
              /\ heldKeys \subseteq heldKeys'
              /\ heldKeys' \ Shortcuts = heldKeys \ Shortcuts
              /\ heldKeys = {} => heldKeys' \subseteq Shortcuts
  BY <1>17 DEF Press, Repeat, inputVars
<1>18. F5 \in Shortcuts /\ F10 \in Shortcuts /\ F12 \in Shortcuts
  BY DEF Shortcuts
<1>19. ASSUME UNCHANGED <<bindings, editMode, fpsMode, heldButtons>>,
              heldKeys \subseteq heldKeys', heldKeys' \ Shortcuts = heldKeys \ Shortcuts
       PROVE  MayDown \subseteq MayDown' /\ MustDown' \subseteq MustDown
  <2>1. \A f : Finger(f, bindings, heldKeys, heldButtons, fpsMode) =>
                  Finger(f, bindings, heldKeys', heldButtons, fpsMode)
    BY <1>19, FingersGrow
  <2> QED BY <1>19, <2>1, FingersAre
<1>5. ASSUME NEW k \in Keyboard, KeyDown(k) PROVE FingerInv'
  <2>1. /\ MapKey(k, "DOWN") /\ heldKeys' = heldKeys \cup {k}
        /\ UNCHANGED <<bindings, editMode, fpsMode, heldButtons>>
    BY <1>5 DEF KeyDown, Press, kmVars
  <2> QED BY <2>1, KeyDownFingers
<1>6. ASSUME NEW k \in Keyboard, KeyRepeat(k) PROVE FingerInv'
  <2>1. /\ MapKey(k, "DOWN") /\ heldKeys' = heldKeys \cup {k}
        /\ UNCHANGED <<bindings, editMode, fpsMode, heldButtons>>
    BY <1>6 DEF KeyRepeat, Repeat, kmVars, inputVars
  <2> QED BY <2>1, KeyDownFingers
<1>7. ASSUME NEW k \in Keyboard, KeyUp(k) PROVE FingerInv'
  <2>1. /\ MapKey(k, "UP") /\ k \in heldKeys /\ heldKeys' = heldKeys \ {k}
        /\ UNCHANGED <<bindings, editMode, fpsMode, heldButtons>>
    BY <1>7 DEF KeyUp, kmVars
  <2> QED BY <2>1, KeyUpFingers
<1>8. ASSUME \/ ToggleEdit /\ (Press(F12) \/ Posted)
             \/ Reload /\ (Press(F5) \/ Posted)
      PROVE  FingerInv'
  <2>1. /\ disturbed \cup When(Holding, {"touch"}) \subseteq disturbed'
        /\ down' = down
    BY <1>8 DEF ToggleEdit, Reload, NoTouch
  <2>2. UNCHANGED heldButtons /\ (heldKeys = {} => heldKeys' \subseteq Shortcuts)
    BY <1>8, <1>17, <1>18 DEF Posted, inputVars
  <2>3. "touch" \notin disturbed' => heldKeys = {} /\ heldButtons = {}
    BY <2>1 DEF When, Holding
  <2>4. "touch" \notin disturbed' => MayDown = {} /\ MustDown' = {}
    BY <1>3, <2>2, <2>3
  <2> QED BY <2>1, <2>4, FingersKept
<1>9. ASSUME (FpsKey /\ Press(F10)) \/ FpsCommand PROVE FingerInv'
  <2>1. /\ disturbed \cup FpsChange \subseteq disturbed'
        /\ \A f : f \notin Others' => (f \in down' <=> f \in down)
    BY <1>9, DisturbedGrows, OthersTouch DEF FpsKey, FpsCommand
  <2>2. /\ UNCHANGED <<bindings, editMode, heldButtons>>
        /\ heldKeys \subseteq heldKeys' /\ heldKeys' \ Shortcuts = heldKeys \ Shortcuts
    BY <1>9, <1>17, <1>18 DEF FpsKey, FpsCommand, inputVars
  <2>3. "touch" \notin disturbed' => heldButtons = {}
    BY <2>1 DEF FpsChange, When
  <2>4. ASSUME "touch" \notin disturbed'
        PROVE  MayDown \subseteq MayDown' /\ MustDown' \subseteq MustDown
    <3>1. \A f, keys : Finger(f, bindings, keys, heldButtons, fpsMode) <=>
                          Finger(f, bindings, keys, heldButtons, fpsMode')
      BY <2>3, <2>4 DEF Finger
    <3>2. \A f : Finger(f, bindings, heldKeys, heldButtons, fpsMode') =>
                    Finger(f, bindings, heldKeys', heldButtons, fpsMode')
      BY <2>2, FingersGrow
    <3> QED BY <2>2, <3>1, <3>2, FingersAre
  <2> QED BY <2>1, <2>2, <2>4, FingersKept
<1>20. CASE Overlay
  <2>1. UNCHANGED <<bindings, editMode, fpsMode, down, disturbed>>
    BY <1>20, OverlayIs DEF kmVars
  <2>2. MayDown \subseteq MayDown' /\ MustDown' \subseteq MustDown
    BY <1>17, <1>19, <1>20, <2>1, OverlayIs
  <2> QED BY <2>1, <2>2, FingersKept
<1>10. CASE RewriteFile
  <2>1. UNCHANGED <<bindings, editMode, heldKeys, heldButtons, fpsMode, down, disturbed>>
    BY <1>10 DEF RewriteFile, kmVars, inputVars
  <2> QED BY <1>2, <2>1, FingersKept
<1>11. ASSUME DeleteSelected \/ Drag \/ \E b \in Button : EditButtonDown(b)
       PROVE  FingerInv'
  <2>1. editMode /\ UNCHANGED <<editMode, down, disturbed>>
    BY <1>11 DEF DeleteSelected, Deletes, Drag, EditButtonDown
  <2>2. MayDown = {} /\ MustDown' = {}
    BY <1>4, <2>1
  <2> QED BY <2>1, <2>2, FingersKept
<1>12. ASSUME NEW b \in Button, EditButtonUp(b) PROVE FingerInv'
  <2>1. editMode /\ UNCHANGED editMode
    BY <1>12 DEF EditButtonUp
  <2>2. NoTouch({}) \/ \E buttons : SendMouse(buttons)
    BY <1>12 DEF EditButtonUp
  <2>3. disturbed \subseteq disturbed' /\ \A f : f \notin Others' => (f \in down' <=> f \in down)
    BY <2>2, DisturbedGrows, OthersTouch
  <2>4. MayDown = {} /\ MustDown' = {}
    BY <1>4, <2>1
  <2> QED BY <2>3, <2>4, FingersKept
<1>13. ASSUME NEW b \in Button, ButtonDown(b) \/ ButtonUp(b) PROVE FingerInv'
  BY <1>13, ButtonDownFingers, ButtonUpFingers
<1>14. CASE MouseMotion
  <2>1. SendMouse(buttonsState)
    BY <1>14 DEF MouseMotion
  <2>2. UNCHANGED <<bindings, editMode, heldKeys, heldButtons, fpsMode>>
    BY <1>14 DEF MouseMotion, kmVars, inputVars
  <2>3. disturbed \subseteq disturbed' /\ \A f : f \notin Others' => (f \in down' <=> f \in down)
    BY <2>1, DisturbedGrows, OthersTouch
  <2> QED BY <1>2, <2>2, <2>3, FingersKept
<1>15. CASE AimMotion
  <2>1. \E t : Push(t, {})
    BY <1>1, <1>15, AimMotionIs
  <2>2. UNCHANGED <<bindings, editMode, heldKeys, heldButtons, fpsMode>>
    BY <1>1, <1>15, AimMotionIs DEF inputVars
  <2>3. disturbed \subseteq disturbed' /\ \A f : f \notin Others' => (f \in down' <=> f \in down)
    BY <1>1, <1>15, <2>1, DisturbedGrows, OthersTouch
  <2> QED BY <1>2, <2>2, <2>3, FingersKept
<1>16. CASE UNCHANGED vars
  <2>1. UNCHANGED <<bindings, editMode, heldKeys, heldButtons, fpsMode, down, disturbed>>
    BY <1>16 DEF vars, kmVars, inputVars
  <2> QED BY <1>2, <2>1, FingersKept
<1> QED BY <1>5, <1>6, <1>7, <1>8, <1>9, <1>10, <1>11, <1>12, <1>13, <1>14, <1>15, <1>16,
           <1>20 DEF Next

(* No touch gets stuck on the device, and none is missing: the fingers of  *)
(* the bindings that are down there are those of the inputs the user holds,*)
(* as long as nothing changes their meaning meanwhile.  A bound key that is*)
(* also a shortcut of the keymapper has its finger down only once it is    *)
(* repeated, and never longer than it is held.                             *)
THEOREM NoTouchIsStuck == Spec => []NoStuckTouch
<1>1. Init => FingerInv
  BY FingersAre DEF Init, FingerInv, Finger
<1>2. FingerInv => NoStuckTouch
  BY FingerInvIs
<1> QED BY <1>1, <1>2, InitTypes, StepTypes, FingerStep, PTL DEF Spec
===============================================================================
