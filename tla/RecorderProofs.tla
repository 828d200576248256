---------------------------- MODULE RecorderProofs ----------------------------
(***************************************************************************)
(* Proofs about the recorder (Recorder), for any times, any scale and any  *)
(* number of packets: its types, that a recording reported complete lacks  *)
(* nothing, and that the file can be played.                               *)
(***************************************************************************)
EXTENDS Recorder, SequenceTheorems, WellFoundedInduction, TLAPS

Times == {x \in Int : NoPts < Rescaled(x)}
Shifted == [of : Packet, time : Times]
Written == [of : Packet, time : Int]

SinkTypes ==
    /\ enabled \in [Stream -> BOOLEAN] /\ inited \in [Stream -> BOOLEAN]
    /\ expects \in [Stream -> BOOLEAN]

QueueTypes == queue \in [Stream -> Seq(Packet)] /\ accepted \in [Stream -> Seq(Packet)]

HeldTypes == held \in [Stream -> Seq(Packet)] /\ \A s \in Stream : Len(held[s]) <= 1

FileTypes ==
    /\ file \in [Stream -> Seq(Written)]
    /\ previous \in Seq(Shifted) /\ Len(previous) <= 1
    /\ lastPts \in [Stream -> Int]
    /\ origin \in Pts \cup {NoPts}
    /\ extradata \in Nat

DemuxTypes ==
    /\ demux \in [Stream -> {"start", "reading", "closing", "ended"}]
    /\ merges \in BOOLEAN
    /\ sent \in [Stream -> Nat] /\ \A s \in Stream : sent[s] <= MaxPackets[s]
    /\ version \in Nat /\ version <= sent["video"]
    /\ merger \in Nat /\ merger <= sent["video"]

ThreadTypes ==
    /\ stopped \in BOOLEAN /\ waiting \in BOOLEAN /\ crashed \in BOOLEAN
    /\ rec \in {"open", "header", "packet", "process", "trailer", "close", "end",
                "ended"}
    /\ ctx \in {"none", "open", "freed"}
    /\ streams \subseteq Stream
    /\ outcome \in {"none", "io", "noHeader", "noVideo", "complete"}

(* A stream that is not recorded has no packets, nor one that did not begin.*)
Quiet(s) == queue[s] = <<>> /\ held[s] = <<>>

StreamInv ==
    /\ \A s \in Stream : demux[s] = "start" => enabled[s] /\ Quiet(s) /\ accepted[s] = <<>>
    /\ \A s \in Stream : ~enabled[s] => Quiet(s) /\ demux[s] = "ended"
    /\ demux["video"] = "start" => version = 0 /\ merger = 0 /\ extradata = 0
    /\ rec \in {"open", "header"} => /\ \A s \in Stream : file[s] = <<>> /\ held[s] = <<>>
                                     /\ previous = <<>>
    /\ rec = "process" => \E s \in Stream : held[s] # <<>>

TypeInv == /\ SinkTypes /\ QueueTypes /\ HeldTypes /\ FileTypes /\ DemuxTypes /\ ThreadTypes
           /\ StreamInv

TimesInv ==
    \A s \in Stream :
        /\ NoPts <= lastPts[s]
        /\ file[s] # <<>> => lastPts[s] = file[s][Len(file[s])].time

Live == {"open", "header", "packet", "process", "trailer"}

(* The media packets of a queue are those accepted after the first `from`. *)
InOrder(packets, all, from) ==
    \E g \in [1..(Len(packets) + 1) -> 1..(Len(all) + 1)] :
        /\ g[1] = from + 1
        /\ g[Len(packets) + 1] = Len(all) + 1
        /\ \A n \in 1..Len(packets) :
              IF IsConfig(packets[n]) THEN g[n + 1] = g[n]
              ELSE g[n + 1] = g[n] + 1 /\ packets[n] = all[g[n]]

(* How many packets of a stream were written, or wait for the next one.    *)
Past(s) == Len(file[s]) + IF s = "video" THEN Len(previous) ELSE 0

Pending(s) ==
    /\ s = "video" /\ previous # <<>> =>
          /\ Len(file[s]) < Len(accepted[s])
          /\ previous[1].of = accepted[s][Len(file[s]) + 1]
    /\ Media(held[s]) # <<>> => /\ Past(s) < Len(accepted[s])
                                /\ held[s][1] = accepted[s][Past(s) + 1]
    /\ InOrder(queue[s], accepted[s], Past(s) + Len(Media(held[s])))

Prefix(s) ==
    /\ Len(file[s]) <= Len(accepted[s])
    /\ \A i \in 1..Len(file[s]) : file[s][i].of = accepted[s][i]

Complete(s) == \/ Len(file[s]) = Len(accepted[s])
               \/ s = "video" /\ Len(file[s]) + 1 = Len(accepted[s])

ChainInv ==
    /\ \A s \in Stream : Prefix(s)
    /\ rec \in Live => \A s \in Stream : Pending(s)
    /\ rec = "trailer" => stopped /\ \A s \in Stream : Quiet(s)
    /\ outcome = "complete" => stopped /\ rec \notin Live /\ \A s \in Stream : Complete(s)

(* Packets carry versions in order, and each new one at its first packet.  *)
VersionsOf(all) ==
    \A i \in 1..Len(all) :
        /\ all[i].config <= all[i].needs /\ extradata <= all[i].needs
        /\ \A j \in 1..i : all[j].needs <= all[i].needs
        /\ \E j \in 1..i : all[j].config = all[i].needs

Current(all) ==
    /\ extradata <= version /\ merger \in {0, version}
    /\ ~merges => version = 0
    /\ \A i \in 1..Len(all) : all[i].needs <= version
    /\ merger = 0 => version = IF all = <<>> THEN 0 ELSE all[Len(all)].needs

FirstConfig(all) ==
    rec \in {"open", "header"} /\ queue["video"] # <<>> /\ IsConfig(queue["video"][1]) =>
        /\ \A i \in 1..Len(all) : queue["video"][1].config <= all[i].needs
        /\ demux["video"] = "reading" => queue["video"][1].config <= version

ConfigInv ==
    /\ VersionsOf(accepted["video"])
    /\ demux["video"] = "reading" => Current(accepted["video"])
    /\ rec \in {"open", "header"} => extradata = 0
    /\ FirstConfig(accepted["video"])

-------------------------------------------------------------------------------
(* Constants and packets                                                   *)

LEMMA TimeFacts ==
    /\ Pts \subseteq Nat /\ NoPts \in Int /\ NoPts \notin Pts /\ Scale \in Nat \ {0}
    /\ \A x \in Int : Rescaled(x) \in Int
    /\ \A t, u \in Pts : t - u \in Times
<1>1. /\ Pts \subseteq Nat /\ NoPts \in Int /\ NoPts \notin Pts /\ Scale \in Nat \ {0}
      /\ \A t, u \in Pts : NoPts < Rescaled(t - u)
  BY RecorderConstantsOK
<1>2. ASSUME NEW x \in Int PROVE Rescaled(x) \in Int
  <2> DEFINE d == 2 * Scale
  <2>1. d \in Nat \ {0} /\ 2 * x + Scale \in Int /\ Scale - 2 * x \in Int
    BY <1>1
  <2> HIDE DEF d
  <2>2. (2 * x + Scale) \div d \in Int /\ (Scale - 2 * x) \div d \in Int
    BY <2>1
  <2>3. -((Scale - 2 * x) \div d) \in Int
    BY <2>2
  <2> QED BY <2>2, <2>3 DEF Rescaled, d
<1>3. \A t, u \in Pts : t - u \in Times
  BY <1>1 DEF Times
<1> QED BY <1>1, <1>2, <1>3

LEMMA StreamFacts == Stream = {"video", "audio"} /\ MaxPackets \in [Stream -> Nat]
BY RecorderConstantsOK DEF Stream

LEMMA SentIs ==
    ASSUME DemuxTypes, NEW s \in Stream, sent[s] < MaxPackets[s], NEW p \in Sent(s)
    PROVE  /\ p \in Packet /\ Merged(s, p) \in Packet
           /\ Merged(s, p).pts = p.pts /\ Merged(s, p).needs = p.needs
           /\ p.needs = IF s = "video" /\ merges
                        THEN IF IsConfig(p) THEN version + 1 ELSE version ELSE 0
           /\ IsConfig(p) => p.config = p.needs /\ Merged(s, p) = p
           /\ ~IsConfig(p) => /\ p.pts \in Pts
                              /\ Merged(s, p).config =
                                    IF s = "video" /\ merges THEN merger ELSE 0
<1> DEFINE next == IF s = "video" /\ merges THEN version + 1 ELSE 0
           current == IF s = "video" /\ merges THEN version ELSE 0
           B == 0..(MaxPackets["video"] + 1)
<1>1. "video" \in Stream /\ MaxPackets["video"] \in Nat
  BY StreamFacts
<1>2. next \in B /\ current \in B /\ 0 \in B /\ merger \in B
  BY <1>1 DEF DemuxTypes
<1>3. \/ p = [pts |-> NoPts, config |-> next, needs |-> next]
      \/ p \in [pts : Pts, config : {0}, needs : {current}]
  BY DEF Sent
<1> HIDE DEF next, current, B
<1>4. CASE p = [pts |-> NoPts, config |-> next, needs |-> next]
  <2>1. p \in [pts : Pts \cup {NoPts}, config : B, needs : B]
    BY <1>2, <1>4
  <2>2. IsConfig(p) /\ Merged(s, p) = p
    BY <1>4 DEF IsConfig, Merged
  <2> QED BY <1>4, <2>1, <2>2 DEF Packet, B, next
<1>5. CASE p \in [pts : Pts, config : {0}, needs : {current}]
  <2>1. p.pts \in Pts /\ p.config = 0 /\ p.needs = current
    BY <1>5
  <2>2. p \in [pts : Pts \cup {NoPts}, config : B, needs : B]
    BY <1>2, <1>5
  <2>3. ~IsConfig(p)
    BY <2>1, TimeFacts DEF IsConfig
  <2>4. CASE s = "video" /\ merges
    <3>1. Merged(s, p) = [p EXCEPT !.config = merger]
      BY <2>3, <2>4 DEF Merged
    <3>2. /\ [p EXCEPT !.config = merger] \in [pts : Pts \cup {NoPts}, config : B, needs : B]
          /\ [p EXCEPT !.config = merger].pts = p.pts
          /\ [p EXCEPT !.config = merger].needs = p.needs
          /\ [p EXCEPT !.config = merger].config = merger
      BY <1>2, <2>2
    <3> QED BY <2>1, <2>2, <2>3, <2>4, <3>1, <3>2 DEF Packet, B, current
  <2>5. CASE ~(s = "video" /\ merges)
    <3>1. Merged(s, p) = p
      BY <2>5 DEF Merged
    <3> QED BY <2>1, <2>2, <2>3, <2>5, <3>1 DEF Packet, B, current
  <2> QED BY <2>4, <2>5
<1> QED BY <1>3, <1>4, <1>5

LEMMA MediaIs ==
    ASSUME NEW h \in Seq(Packet), Len(h) <= 1
    PROVE  /\ Media(h) \in Seq(Packet) /\ Len(Media(h)) <= 1
           /\ Media(h) = <<>> \/ (Media(h) = h /\ Len(h) = 1)
           /\ Media(h) # <<>> <=> h # <<>> /\ ~IsConfig(h[1])
           /\ Media(h) # <<>> => h[1] \in Packet /\ h[1].pts \in Pts /\ Media(h)[1] = h[1]
<1>1. Len(h) \in {0, 1} /\ (h = <<>> <=> Len(h) = 0)
  <2>1. Len(h) \in Nat
    BY LenProperties
  <2>2. h = <<>> <=> Len(h) = 0
    BY EmptySeq
  <2> DEFINE n == Len(h)
  <2>3. n \in Nat /\ n <= 1
    BY <2>1
  <2> HIDE DEF n
  <2>4. n \in {0, 1}
    BY <2>3
  <2> QED BY <2>2, <2>4 DEF n
<1>2. CASE h = <<>>
  BY <1>1, <1>2, EmptySeq DEF Media
<1>3. CASE h # <<>>
  <2>1. Len(h) = 1
    BY <1>1, <1>3
  <2>2. h[1] \in Packet
    BY <2>1, ElementOfSeq
  <2>3. CASE IsConfig(h[1])
    <3>1. Media(h) = <<>>
      BY <1>3, <2>3 DEF Media
    <3> QED BY <2>3, <3>1, EmptySeq
  <2>4. CASE ~IsConfig(h[1])
    <3>1. Media(h) = h
      BY <2>4 DEF Media
    <3>2. h[1].pts \in Pts
      BY <2>2, <2>4 DEF IsConfig, Packet
    <3> QED BY <1>3, <2>1, <2>2, <2>4, <3>1, <3>2
  <2> QED BY <2>3, <2>4
<1> QED BY <1>2, <1>3

(* The least element of a set of numbers.                                  *)
LEMMA Least ==
    ASSUME NEW T \in SUBSET Nat, T # {}
    PROVE  Min(T) \in T
<1>1. \E m \in T : \A n \in T : ~(<<n, m>> \in OpToRel(<, Nat))
  BY NatLessThanWellFounded, WFMin
<1>2. PICK m \in T : \A n \in T : ~(<<n, m>> \in OpToRel(<, Nat))
  BY <1>1
<1>3. ASSUME NEW n \in T PROVE m <= n
  <2>1. ~(n < m)
    BY <1>2 DEF OpToRel
  <2> QED BY <2>1
<1>4. \E x \in T : \A y \in T : x <= y
  BY <1>3
<1> QED BY <1>4 DEF Min

-------------------------------------------------------------------------------
(* What a step of the recorder thread writes                               *)

Kept(s) == file'[s] = file[s] /\ lastPts'[s] = lastPts[s]

Wrote(s, p) == /\ lastPts[s] < lastPts'[s]
               /\ file'[s] = Append(file[s], [of |-> p, time |-> lastPts'[s]])

(* The packet, if any, that is written when those that are held are.       *)
Due(s) == IF Media(held[s]) = <<>> THEN <<>>
          ELSE IF s = "audio" THEN <<held[s][1]>>
          ELSE IF previous = <<>> THEN <<>> ELSE <<previous[1].of>>

LEMMA WriteIs ==
    ASSUME FileTypes, NEW to \in SUBSET Stream, NEW sh, \A s \in to : sh[s] \in Shifted,
           Write(to, sh)
    PROVE  /\ file' \in [Stream -> Seq(Written)] /\ lastPts' \in [Stream -> Int]
           /\ \A s \in Stream \ to : Kept(s)
           /\ \A s \in to : Wrote(s, sh[s].of)
<1> DEFINE T(s) == Increasing(s, Rescaled(sh[s].time))
           F(s) == Append(file[s], [of |-> sh[s].of, time |-> T(s)])
<1>1. /\ lastPts' = [s \in Stream |-> IF s \in to THEN T(s) ELSE lastPts[s]]
      /\ file' = [s \in Stream |-> IF s \in to THEN F(s) ELSE file[s]]
  BY DEF Write
<1>2. ASSUME NEW s \in to
      PROVE  T(s) \in Int /\ lastPts[s] < T(s) /\ F(s) \in Seq(Written)
  <2> DEFINE r == Rescaled(sh[s].time)
  <2>1. sh[s] \in Shifted /\ s \in Stream
    OBVIOUS
  <2>2. sh[s].time \in Int /\ NoPts < Rescaled(sh[s].time) /\ sh[s].of \in Packet
    BY <2>1 DEF Shifted, Times
  <2>3. r \in Int /\ NoPts < r /\ NoPts \in Int
    BY <2>2, TimeFacts
  <2>4. lastPts[s] \in Int /\ file[s] \in Seq(Written)
    BY <2>1 DEF FileTypes
  <2>5. T(s) = IF lastPts[s] # NoPts /\ r <= lastPts[s] THEN lastPts[s] + 1 ELSE r
    BY DEF Increasing
  <2> HIDE DEF r, T
  <2>6. T(s) \in Int /\ lastPts[s] < T(s)
    BY <2>3, <2>4, <2>5
  <2>7. [of |-> sh[s].of, time |-> T(s)] \in Written
    BY <2>2, <2>6 DEF Written
  <2>8. F(s) \in Seq(Written)
    BY <2>4, <2>7, AppendProperties
  <2> QED BY <2>6, <2>8
<1>3. file \in [Stream -> Seq(Written)] /\ lastPts \in [Stream -> Int]
  BY DEF FileTypes
<1>4. ASSUME NEW s \in Stream \ to PROVE Kept(s)
  BY <1>1 DEF Kept
<1>5. ASSUME NEW s \in to PROVE Wrote(s, sh[s].of)
  <2>1. lastPts'[s] = T(s) /\ file'[s] = F(s)
    BY <1>1
  <2> QED BY <1>2, <2>1 DEF Wrote
<1> HIDE DEF T, F
<1>6. file' \in [Stream -> Seq(Written)] /\ lastPts' \in [Stream -> Int]
  BY <1>1, <1>2, <1>3
<1> QED BY <1>4, <1>5, <1>6

(* The last video packet is written, or it is not.                         *)
LEMMA TrailerIs ==
    ASSUME FileTypes, WriteTrailer
    PROVE  /\ file' \in [Stream -> Seq(Written)] /\ lastPts' \in [Stream -> Int]
           /\ \A s \in Stream \ {"video"} : Kept(s)
           /\ Kept("video") \/ (previous # <<>> /\ Wrote("video", previous[1].of))
<1>1. "video" \in Stream /\ previous \in Seq(Shifted)
  BY StreamFacts DEF FileTypes
<1>2. Write({}, <<>>) \/ (previous # <<>> /\ Write({"video"}, [video |-> previous[1]]))
  BY DEF WriteTrailer
<1>3. CASE Write({}, <<>>)
  <2> DEFINE none == {}
             sh == <<>>
  <2>1. none \in SUBSET Stream /\ (\A s \in none : sh[s] \in Shifted) /\ Write(none, sh)
    BY <1>3
  <2>2. \A s : s \notin none
    OBVIOUS
  <2> HIDE DEF none, sh
  <2>3. /\ file' \in [Stream -> Seq(Written)] /\ lastPts' \in [Stream -> Int]
        /\ \A s \in Stream \ none : Kept(s)
    BY <2>1, WriteIs
  <2> QED BY <1>1, <2>2, <2>3
<1>4. CASE previous # <<>> /\ Write({"video"}, [video |-> previous[1]])
  <2> DEFINE to == {"video"}
             sh == [video |-> previous[1]]
  <2>1. previous[1] \in Shifted
    <3>1. 1 \in 1..Len(previous)
      BY <1>1, <1>4, LenProperties, EmptySeq
    <3> QED BY <1>1, <3>1, ElementOfSeq
  <2>2. to \in SUBSET Stream /\ (\A s \in to : sh[s] \in Shifted) /\ Write(to, sh)
        /\ sh["video"] = previous[1]
    BY <1>1, <1>4, <2>1
  <2>3. \A s : s \in to <=> s = "video"
    OBVIOUS
  <2> HIDE DEF to, sh
  <2>4. /\ file' \in [Stream -> Seq(Written)] /\ lastPts' \in [Stream -> Int]
        /\ \A s \in Stream \ to : Kept(s)
        /\ \A s \in to : Wrote(s, sh[s].of)
    BY <2>2, WriteIs
  <2>5. Wrote("video", previous[1].of)
    BY <2>2, <2>3, <2>4
  <2>6. \A s \in Stream \ {"video"} : Kept(s)
    BY <2>3, <2>4
  <2> QED BY <1>4, <2>4, <2>5, <2>6
<1> QED BY <1>2, <1>3, <1>4

LEMMA OriginIs ==
    ASSUME SinkTypes, HeldTypes, origin \in Pts \cup {NoPts}, StreamInv, rec = "process"
    PROVE  Origin(Media(held["video"]), Media(held["audio"])) \in Pts \cup {NoPts}
<1> DEFINE v == Media(held["video"])
           a == Media(held["audio"])
           first == {p.pts : p \in ToSet(v) \cup ToSet(a)}
           complete == (enabled["video"] => v # <<>>) /\ (enabled["audio"] => a # <<>>)
<1>1. Stream = {"video", "audio"}
  BY StreamFacts
<1>2. ASSUME NEW s \in Stream
      PROVE  /\ \A p \in ToSet(Media(held[s])) : p.pts \in Pts
             /\ Media(held[s]) # <<>> => Media(held[s])[1] \in ToSet(Media(held[s]))
                                         /\ Media(held[s])[1].pts \in Pts
  <2> DEFINE h == held[s]
             m == Media(h)
  <2>1. h \in Seq(Packet) /\ Len(h) <= 1
    BY DEF HeldTypes
  <2> HIDE DEF h
  <2>2. /\ m = <<>> \/ (m = h /\ Len(h) = 1)
        /\ m # <<>> => h[1] \in Packet /\ h[1].pts \in Pts /\ m[1] = h[1]
    BY <2>1, MediaIs
  <2>3. DOMAIN m = 1..Len(m)
    <3>1. m \in Seq(Packet)
      BY <2>1, MediaIs
    <3> QED BY <3>1, LenProperties
  <2> HIDE DEF m
  <2>4. CASE m = <<>>
    <3>1. DOMAIN m = {}
      BY <2>4
    <3> QED BY <2>4, <3>1 DEF ToSet, m, h
  <2>5. CASE m # <<>>
    <3>1. DOMAIN m = {1}
      <4>1. Len(m) = 1
        BY <2>2, <2>5
      <4>2. 1..1 = {1}
        OBVIOUS
      <4> QED BY <2>3, <4>1, <4>2
    <3>2. ToSet(m) = {m[1]}
      BY <3>1 DEF ToSet
    <3> QED BY <2>2, <2>5, <3>2 DEF m, h
  <2> QED BY <2>4, <2>5
<1>3. first \in SUBSET Pts
  BY <1>1, <1>2
<1>4. PICK s \in Stream : held[s] # <<>>
  BY DEF StreamInv
<1>5. enabled[s]
  BY <1>4 DEF StreamInv, Quiet
<1>6. complete => first # {}
  BY <1>1, <1>2, <1>5
<1>7. complete => Min(first) \in Pts
  <2>1. first \in SUBSET Nat
    BY <1>3, TimeFacts
  <2> QED BY <1>3, <1>6, <2>1, Least
<1>8. v # <<>> => v[1].pts \in Pts
  BY <1>1, <1>2
<1> HIDE DEF v, a
<1>9. Origin(v, a) \in Pts \cup {NoPts}
  BY <1>7, <1>8 DEF Origin
<1> QED BY <1>9 DEF v, a

(* Either nothing can be written yet, or every stream goes one packet      *)
(* further unless a write fails, that ends the recording.                  *)
LEMMA ProcessIs ==
    ASSUME TypeInv, ProcessPackets
    PROVE  /\ file' \in [Stream -> Seq(Written)] /\ lastPts' \in [Stream -> Int]
           /\ origin' \in Pts \cup {NoPts}
           /\ rec' \in {"packet", "close"}
           /\ outcome' \in {outcome, "io", "noVideo"}
           /\ rec' = "packet" => outcome' = outcome
           /\ previous' \in Seq(Shifted) /\ Len(previous') <= 1
           /\ \A s \in Stream : Kept(s) \/ (Due(s) # <<>> /\ Wrote(s, Due(s)[1]))
           /\ \/ /\ held' = [s \in Stream |-> Media(held[s])]
                 /\ previous' = previous
                 /\ \A s \in Stream : Kept(s)
              \/ /\ held' = [s \in Stream |-> <<>>]
                 /\ rec' = "packet" =>
                       \A s \in Stream : Due(s) # <<>> => Wrote(s, Due(s)[1])
                 /\ Media(held["video"]) = <<>> => previous' = previous
                 /\ Media(held["video"]) # <<>> => /\ Len(previous') = 1
                                                   /\ previous'[1].of = held["video"][1]
<1> DEFINE v == Media(held["video"])
           a == Media(held["audio"])
           o == Origin(v, a)
           Sh(p) == [of |-> p, time |-> p.pts - o]
           ready == [video |-> IF v # <<>> THEN previous ELSE <<>>,
                     audio |-> IF a # <<>> THEN <<Sh(a[1])>> ELSE <<>>]
           due == {s \in Stream : ready[s] # <<>>}
<1>1. Stream = {"video", "audio"}
  BY StreamFacts
<1>2. o \in Pts \cup {NoPts}
  BY OriginIs DEF TypeInv, FileTypes, ProcessPackets
<1>3. origin' = o
  BY DEF ProcessPackets
<1>4. /\ v # <<>> => held["video"][1] \in Packet /\ v[1] = held["video"][1]
                     /\ v[1].pts \in Pts
      /\ a # <<>> => held["audio"][1] \in Packet /\ a[1] = held["audio"][1]
                     /\ a[1].pts \in Pts
  <2>1. ASSUME NEW s \in Stream
        PROVE  Media(held[s]) # <<>> => /\ held[s][1] \in Packet
                                        /\ Media(held[s])[1] = held[s][1]
                                        /\ held[s][1].pts \in Pts
    <3> DEFINE h == held[s]
    <3>1. h \in Seq(Packet) /\ Len(h) <= 1
      BY DEF TypeInv, HeldTypes
    <3> HIDE DEF h
    <3>2. Media(h) # <<>> => h[1] \in Packet /\ h[1].pts \in Pts /\ Media(h)[1] = h[1]
      BY <3>1, MediaIs
    <3> QED BY <3>2 DEF h
  <2> QED BY <1>1, <2>1
<1>5. FileTypes /\ file \in [Stream -> Seq(Written)] /\ lastPts \in [Stream -> Int]
      /\ previous \in Seq(Shifted) /\ Len(previous) <= 1
  BY DEF TypeInv, FileTypes
<1>6. CASE o = NoPts
  <2>1. /\ held' = [video |-> v, audio |-> a]
        /\ rec' = IF stopped THEN "close" ELSE "packet"
        /\ outcome' = IF stopped THEN "noVideo" ELSE outcome
        /\ previous' = previous /\ lastPts' = lastPts /\ file' = file
    BY <1>6 DEF ProcessPackets
  <2>2. held' = [s \in Stream |-> Media(held[s])]
    BY <1>1, <2>1
  <2>3. \A s \in Stream : Kept(s)
    BY <2>1 DEF Kept
  <2> QED BY <1>2, <1>3, <1>5, <2>1, <2>2, <2>3
<1>7. CASE o # NoPts
  <2>1. /\ held' = [s \in Stream |-> <<>>]
        /\ previous' = IF v # <<>> THEN <<Sh(v[1])>> ELSE previous
        /\ \E done \in {due, {}, due \ {"audio"}} :
              /\ Write(done, [s \in due |-> ready[s][1]])
              /\ rec' = IF done = due THEN "packet" ELSE "close"
              /\ outcome' = IF done = due THEN outcome ELSE "io"
    BY <1>7 DEF ProcessPackets
  <2>2. PICK done \in {due, {}, due \ {"audio"}} :
              /\ Write(done, [s \in due |-> ready[s][1]])
              /\ rec' = IF done = due THEN "packet" ELSE "close"
              /\ outcome' = IF done = due THEN outcome ELSE "io"
    BY <2>1
  <2>3. o \in Pts
    BY <1>2, <1>7
  <2> HIDE DEF v, a, o
  <2>4. /\ v # <<>> => Sh(v[1]) \in Shifted /\ Sh(v[1]).of = v[1]
        /\ a # <<>> => Sh(a[1]) \in Shifted /\ Sh(a[1]).of = a[1]
    <3>1. ASSUME NEW p \in Packet, p.pts \in Pts PROVE Sh(p) \in Shifted /\ Sh(p).of = p
      <4>1. p.pts - o \in Times
        BY <2>3, <3>1, TimeFacts
      <4> QED BY <4>1 DEF Shifted
    <3> QED BY <1>4, <3>1
  <2> HIDE DEF Sh
  <2>5. previous # <<>> => previous[1] \in Shifted
    <3>1. previous # <<>> => 1 \in 1..Len(previous)
      BY <1>5, LenProperties, EmptySeq
    <3> QED BY <1>5, <3>1, ElementOfSeq
  <2>6. ASSUME NEW s \in due
        PROVE  /\ ready[s][1] \in Shifted /\ Due(s) = <<ready[s][1].of>>
               /\ s \in Stream
    <3>1. CASE s = "video"
      <4>1. v # <<>> /\ previous # <<>> /\ ready[s] = previous
        BY <3>1
      <4>2. Due(s) = <<previous[1].of>>
        BY <3>1, <4>1 DEF Due, v
      <4> QED BY <2>5, <3>1, <4>1, <4>2, <1>1
    <3>2. CASE s = "audio"
      <4>1. a # <<>> /\ ready[s] = <<Sh(a[1])>>
        BY <3>2
      <4>2. Due(s) = <<a[1]>>
        BY <1>4, <3>2, <4>1 DEF Due, a
      <4> QED BY <2>4, <3>2, <4>1, <4>2, <1>1
    <3> QED BY <1>1, <3>1, <3>2
  <2>7. ASSUME NEW s \in Stream, Due(s) # <<>> PROVE s \in due
    <3>1. CASE s = "video"
      <4>1. v # <<>> /\ previous # <<>>
        BY <2>7, <3>1 DEF Due, v
      <4> QED BY <3>1, <4>1
    <3>2. CASE s = "audio"
      <4>1. a # <<>>
        BY <2>7, <3>2 DEF Due, a
      <4> QED BY <3>2, <4>1
    <3> QED BY <1>1, <3>1, <3>2
  <2> DEFINE sh == [s \in due |-> ready[s][1]]
  <2> HIDE DEF ready
  <2>8. \A s \in due : sh[s] = ready[s][1]
    OBVIOUS
  <2>9. done \in SUBSET due /\ done \in SUBSET Stream
    OBVIOUS
  <2> HIDE DEF sh, due
  <2>10. \A s \in done : sh[s] \in Shifted /\ Due(s) = <<sh[s].of>>
    BY <2>6, <2>8, <2>9
  <2>11. Write(done, sh)
    BY <2>2 DEF sh
  <2>12. /\ file' \in [Stream -> Seq(Written)] /\ lastPts' \in [Stream -> Int]
         /\ \A s \in Stream \ done : Kept(s)
         /\ \A s \in done : Wrote(s, sh[s].of)
    BY <1>5, <2>9, <2>10, <2>11, WriteIs
  <2>13. \A s \in done : Due(s) # <<>> /\ Wrote(s, Due(s)[1])
    BY <2>10, <2>12
  <2>14. \A s \in Stream : Kept(s) \/ (Due(s) # <<>> /\ Wrote(s, Due(s)[1]))
    BY <2>12, <2>13
  <2>15. rec' = "packet" => \A s \in Stream : Due(s) # <<>> => Wrote(s, Due(s)[1])
    BY <2>2, <2>7, <2>13
  <2>16. /\ previous' \in Seq(Shifted) /\ Len(previous') <= 1
         /\ v = <<>> => previous' = previous
         /\ v # <<>> => Len(previous') = 1 /\ previous'[1].of = held["video"][1]
    <3>1. CASE v = <<>>
      BY <1>5, <2>1, <3>1
    <3>2. CASE v # <<>>
      <4>1. previous' = <<Sh(v[1])>>
        BY <2>1, <3>2
      <4>2. Sh(v[1]) \in Shifted /\ Sh(v[1]).of = held["video"][1]
        BY <1>4, <2>4, <3>2
      <4> QED BY <3>2, <4>1, <4>2
    <3> QED BY <3>1, <3>2
  <2>17. rec' \in {"packet", "close"} /\ outcome' \in {outcome, "io", "noVideo"}
         /\ (rec' = "packet" => outcome' = outcome)
    BY <2>2
  <2>18. origin' \in Pts \cup {NoPts}
    BY <1>2, <1>3
  <2> QED BY <2>1, <2>12, <2>14, <2>15, <2>16, <2>17, <2>18 DEF v
<1> QED BY <1>6, <1>7

-------------------------------------------------------------------------------
(* Types                                                                   *)

LEMMA TypeInit == Init => TypeInv
<1> SUFFICES ASSUME Init PROVE TypeInv
  OBVIOUS
<1>1. <<>> \in Seq(Packet) /\ <<>> \in Seq(Written) /\ <<>> \in Seq(Shifted) /\ Len(<<>>) = 0
  BY EmptySeq
<1>2. NoPts \in Int /\ "video" \in Stream /\ MaxPackets \in [Stream -> Nat]
  BY TimeFacts, StreamFacts
<1>3. SinkTypes /\ QueueTypes /\ HeldTypes /\ FileTypes
  BY <1>1, <1>2 DEF Init, SinkTypes, QueueTypes, HeldTypes, FileTypes
<1>4. DemuxTypes /\ ThreadTypes
  <2>1. \A s \in Stream : MaxPackets[s] \in Nat
    BY <1>2
  <2>2. DemuxTypes
    <3>1. /\ demux \in [Stream -> {"start", "ended"}] /\ merges = FALSE
          /\ sent = [s \in Stream |-> 0] /\ version = 0 /\ merger = 0
      BY DEF Init
    <3>2. 0 \in Nat /\ 0 <= 0 /\ sent["video"] = 0 /\ \A n \in Nat : 0 <= n
      BY <1>2, <3>1
    <3> QED BY <2>1, <3>1, <3>2 DEF DemuxTypes
  <2>3. ThreadTypes
    BY DEF Init, ThreadTypes
  <2> QED BY <2>2, <2>3
<1>5. StreamInv
  BY <1>2 DEF Init, StreamInv, Quiet
<1> QED BY <1>3, <1>4, <1>5 DEF TypeInv

(* What the queues hold after the first packets of some were taken.        *)
LEMMA PopIs ==
    ASSUME QueueTypes, NEW from \in SUBSET Stream,
           \A s \in from : queue[s] # <<>>, Pop(from)
    PROVE  /\ queue' \in [Stream -> Seq(Packet)]
           /\ \A s \in Stream \ from : queue'[s] = queue[s]
           /\ \A s \in from : /\ queue'[s] = Tail(queue[s])
                              /\ Head(queue[s]) = queue[s][1] /\ queue[s][1] \in Packet
                              /\ <<Head(queue[s])>> \in Seq(Packet)
<1>1. queue' = [s \in Stream |-> IF s \in from THEN Tail(queue[s]) ELSE queue[s]]
  BY DEF Pop
<1>2. queue \in [Stream -> Seq(Packet)]
  BY DEF QueueTypes
<1>3. ASSUME NEW s \in from
      PROVE  /\ Tail(queue[s]) \in Seq(Packet)
             /\ Head(queue[s]) = queue[s][1] /\ queue[s][1] \in Packet
             /\ <<Head(queue[s])>> \in Seq(Packet)
  <2>1. queue[s] \in Seq(Packet) /\ queue[s] # <<>>
    BY <1>2
  <2>2. Tail(queue[s]) \in Seq(Packet) /\ Head(queue[s]) \in Packet
    BY <2>1, HeadTailProperties
  <2>3. Head(queue[s]) = queue[s][1]
    BY <2>1
  <2> QED BY <2>2, <2>3
<1> QED BY <1>1, <1>2, <1>3

LEMMA SinkStep == TypeInv /\ [Next]_vars => SinkTypes' /\ ThreadTypes'
<1> SUFFICES ASSUME TypeInv, [Next]_vars PROVE SinkTypes' /\ ThreadTypes'
  OBVIOUS
<1> USE DEF TypeInv
<1>1. CASE UNCHANGED vars
  <2>1. UNCHANGED <<sinkVars, recVars, ctxVars, localVars, stopped, crashed>>
    BY <1>1 DEF vars
  <2> QED BY <2>1 DEF SinkTypes, ThreadTypes, sinkVars, recVars, ctxVars, localVars
<1>2. ASSUME NEW s \in Stream, OpenSinks(s) PROVE SinkTypes' /\ ThreadTypes'
  <2>1. /\ UNCHANGED <<enabled, stopped, rec, outcome, ctx>> /\ waiting' = FALSE
        /\ streams' = streams \cup {s} /\ crashed' \in BOOLEAN
        /\ inited' = [inited EXCEPT ![s] = TRUE]
    <3>1. crashed' \in BOOLEAN
      <4>1. crashed' \in CASE ctx = "none"                  -> {TRUE}
                           [] ctx = "open" /\ rec = "header" -> {FALSE}
                           [] OTHER                         -> BOOLEAN
        BY <1>2 DEF OpenSinks, AddStream
      <4> QED BY <4>1
    <3> QED BY <1>2, <3>1 DEF OpenSinks, AddStream, Signal, localVars
  <2>2. PICK b \in BOOLEAN : expects' = [expects EXCEPT ![s] = b]
    BY <1>2 DEF OpenSinks
  <2> QED BY <2>1, <2>2 DEF SinkTypes, ThreadTypes
<1>3. ASSUME NEW s \in Stream,
             OpenFails(s) \/ Push(s) \/ Break(s) \/ CloseSinks(s)
      PROVE  SinkTypes' /\ ThreadTypes'
  <2>1. UNCHANGED <<enabled, inited, expects, rec, ctx, streams, outcome, crashed>>
    BY <1>3 DEF OpenFails, Push, Break, CloseSinks, sinkVars, recVars, ctxVars, localVars
  <2>2. waiting' \in {waiting, FALSE} /\ stopped' \in {stopped, TRUE}
    BY <1>3 DEF OpenFails, Push, Break, CloseSinks, SetStopped, Signal, recVars
  <2> QED BY <2>1, <2>2 DEF SinkTypes, ThreadTypes
<1>4. CASE DisableAudio
  BY <1>4 DEF DisableAudio, SinkTypes, ThreadTypes, Signal, ctxVars, localVars
<1>5. CASE Stop \/ SpuriousWakeup \/ Wait
  <2>1. UNCHANGED <<enabled, inited, expects, rec, ctx, streams, outcome, crashed>>
    BY <1>5 DEF Stop, SpuriousWakeup, Wait, sinkVars, recVars, ctxVars, localVars
  <2>2. waiting' \in BOOLEAN /\ stopped' \in {stopped, TRUE}
    BY <1>5 DEF Stop, SpuriousWakeup, Wait, SetStopped, Signal
  <2> QED BY <2>1, <2>2 DEF SinkTypes, ThreadTypes
<1>6. CASE OpenFile
  BY <1>6 DEF OpenFile, SinkTypes, ThreadTypes, sinkVars
<1>7. CASE ProcessHeader
  <2>1. UNCHANGED <<enabled, inited, expects, stopped, waiting, ctx, streams, crashed>>
    BY <1>7 DEF ProcessHeader, sinkVars, ctxVars
  <2>2. /\ rec' \in {"close", "packet"}
        /\ outcome' \in {outcome, "io", "noHeader"}
    BY <1>7 DEF ProcessHeader
  <2> QED BY <2>1, <2>2 DEF SinkTypes, ThreadTypes
<1>8. CASE TakePackets
  <2>1. UNCHANGED <<enabled, inited, expects, stopped, waiting, ctx, streams, crashed,
                    outcome>>
    BY <1>8 DEF TakePackets, sinkVars, ctxVars
  <2>2. rec' \in {"trailer", "process"}
    BY <1>8 DEF TakePackets
  <2> QED BY <2>1, <2>2 DEF SinkTypes, ThreadTypes
<1>9. CASE ProcessPackets
  <2>1. UNCHANGED <<enabled, inited, expects, stopped, waiting, ctx, streams, crashed>>
    BY <1>9 DEF ProcessPackets, sinkVars, ctxVars
  <2>2. rec' \in {"packet", "close"} /\ outcome' \in {outcome, "io", "noVideo"}
    BY <1>9, ProcessIs
  <2> QED BY <2>1, <2>2 DEF SinkTypes, ThreadTypes
<1>10. CASE WriteTrailer
  <2>1. UNCHANGED <<enabled, inited, expects, stopped, waiting, ctx, streams, crashed>>
    BY <1>10 DEF WriteTrailer, sinkVars, ctxVars
  <2>2. rec' = "close" /\ outcome' \in {"complete", "io"}
    BY <1>10 DEF WriteTrailer
  <2> QED BY <2>1, <2>2 DEF SinkTypes, ThreadTypes
<1>11. CASE CloseFile \/ End
  <2>1. UNCHANGED <<enabled, inited, expects, waiting, streams, crashed, outcome>>
    BY <1>11 DEF CloseFile, End, sinkVars, ctxVars, localVars
  <2>2. rec' \in {"end", "ended"} /\ ctx' \in {ctx, "freed"} /\ stopped' \in {stopped, TRUE}
    BY <1>11 DEF CloseFile, End, ctxVars
  <2> QED BY <2>1, <2>2 DEF SinkTypes, ThreadTypes
<1> QED
  BY <1>1, <1>2, <1>3, <1>4, <1>5, <1>6, <1>7, <1>8, <1>9, <1>10, <1>11
     DEF Next, Demuxer, RecorderThread

(* One step of the sink of the recorder.                                   *)
LEMMA PushIs ==
    ASSUME TypeInv, NEW s \in Stream, Push(s)
    PROVE  \E p \in Sent(s) :
              /\ p \in Packet /\ Merged(s, p) \in Packet
              /\ sent' = [sent EXCEPT ![s] = @ + 1]
              /\ version' = IF s = "video" THEN p.needs ELSE version
              /\ merger' = IF s = "audio" \/ ~merges THEN merger
                           ELSE IF IsConfig(p) THEN p.config ELSE 0
              /\ \/ /\ stopped
                    /\ demux' = [demux EXCEPT ![s] = "closing"]
                    /\ UNCHANGED <<queue, accepted>>
                 \/ /\ ~stopped
                    /\ queue' = [queue EXCEPT ![s] = Append(@, Merged(s, p))]
                    /\ accepted' = IF IsConfig(p) THEN accepted
                                   ELSE [accepted EXCEPT ![s] = Append(@, Merged(s, p))]
                    /\ UNCHANGED demux
<1>1. PICK p \in Sent(s) :
          /\ version' = IF s = "video" THEN p.needs ELSE version
          /\ merger' = IF s = "audio" \/ ~merges THEN merger
                       ELSE IF IsConfig(p) THEN p.config ELSE 0
          /\ IF stopped
             THEN /\ demux' = [demux EXCEPT ![s] = "closing"]
                  /\ UNCHANGED <<queue, accepted, waiting>>
             ELSE /\ queue' = [queue EXCEPT ![s] = Append(@, Merged(s, p))]
                  /\ accepted' = IF IsConfig(p) THEN accepted
                                 ELSE [accepted EXCEPT ![s] = Append(@, Merged(s, p))]
                  /\ Signal
                  /\ UNCHANGED demux
  BY DEF Push
<1>2. p \in Packet /\ Merged(s, p) \in Packet
  BY SentIs DEF Push, TypeInv
<1>3. sent' = [sent EXCEPT ![s] = @ + 1]
  BY DEF Push
<1> QED BY <1>1, <1>2, <1>3

LEMMA QueueStep == TypeInv /\ [Next]_vars => QueueTypes' /\ HeldTypes'
<1> SUFFICES ASSUME TypeInv, [Next]_vars PROVE QueueTypes' /\ HeldTypes'
  OBVIOUS
<1>0. /\ queue \in [Stream -> Seq(Packet)] /\ accepted \in [Stream -> Seq(Packet)]
      /\ held \in [Stream -> Seq(Packet)] /\ \A s \in Stream : Len(held[s]) <= 1
      /\ QueueTypes /\ <<>> \in Seq(Packet) /\ Len(<<>>) = 0
  BY EmptySeq DEF TypeInv, QueueTypes, HeldTypes
<1>1. CASE UNCHANGED <<queue, accepted, held>>
  BY <1>0, <1>1 DEF QueueTypes, HeldTypes
<1>2. ASSUME NEW s \in Stream, Push(s) PROVE QueueTypes' /\ HeldTypes'
  <2>1. PICK p \in Sent(s) :
           /\ Merged(s, p) \in Packet
           /\ \/ UNCHANGED <<queue, accepted>>
              \/ /\ queue' = [queue EXCEPT ![s] = Append(@, Merged(s, p))]
                 /\ accepted' = IF IsConfig(p) THEN accepted
                                ELSE [accepted EXCEPT ![s] = Append(@, Merged(s, p))]
    BY <1>2, PushIs
  <2>2. held' = held
    BY <1>2 DEF Push, localVars
  <2>3. /\ Append(queue[s], Merged(s, p)) \in Seq(Packet)
        /\ Append(accepted[s], Merged(s, p)) \in Seq(Packet)
    <3>1. queue[s] \in Seq(Packet) /\ accepted[s] \in Seq(Packet)
      BY <1>0
    <3> QED BY <2>1, <3>1, AppendProperties
  <2>4. queue' \in [Stream -> Seq(Packet)] /\ accepted' \in [Stream -> Seq(Packet)]
    BY <1>0, <2>1, <2>3
  <2> QED BY <1>0, <2>2, <2>4 DEF QueueTypes, HeldTypes
<1>3. CASE ProcessHeader
  <2>1. held' = held /\ accepted' = accepted
    BY <1>3 DEF ProcessHeader
  <2> DEFINE first == {s \in Stream : expects[s] /\ queue[s] # <<>>}
  <2>2. UNCHANGED queue \/ Pop(first)
    BY <1>3 DEF ProcessHeader
  <2>3. first \in SUBSET Stream /\ \A s \in first : queue[s] # <<>>
    OBVIOUS
  <2> HIDE DEF first
  <2>4. queue' \in [Stream -> Seq(Packet)]
    <3>1. CASE UNCHANGED queue
      BY <1>0, <3>1
    <3>2. CASE Pop(first)
      BY <1>0, <2>3, <3>2, PopIs
    <3> QED BY <2>2, <3>1, <3>2
  <2> QED BY <1>0, <2>1, <2>4 DEF QueueTypes, HeldTypes
<1>4. CASE TakePackets
  <2> DEFINE from == {s \in Stream : held[s] = <<>> /\ queue[s] # <<>>}
  <2>1. accepted' = accepted
    BY <1>4 DEF TakePackets
  <2>2. \/ UNCHANGED <<queue, held>>
        \/ /\ Pop(from)
           /\ held' = [s \in Stream |-> IF s \in from THEN <<Head(queue[s])>> ELSE held[s]]
    BY <1>4 DEF TakePackets
  <2>3. CASE UNCHANGED <<queue, held>>
    BY <1>0, <2>1, <2>3 DEF QueueTypes, HeldTypes
  <2>4. CASE /\ Pop(from)
             /\ held' = [s \in Stream |-> IF s \in from THEN <<Head(queue[s])>> ELSE held[s]]
    <3>1. from \in SUBSET Stream /\ \A s \in from : queue[s] # <<>>
      OBVIOUS
    <3> HIDE DEF from
    <3>2. /\ queue' \in [Stream -> Seq(Packet)]
          /\ \A s \in from : <<Head(queue[s])>> \in Seq(Packet)
      BY <1>0, <2>4, <3>1, PopIs
    <3>3. held' \in [Stream -> Seq(Packet)] /\ \A s \in Stream : Len(held'[s]) <= 1
      <4>1. ASSUME NEW s \in Stream
            PROVE  LET h == IF s \in from THEN <<Head(queue[s])>> ELSE held[s]
                   IN  h \in Seq(Packet) /\ Len(h) <= 1
        <5>1. Len(<<Head(queue[s])>>) <= 1
          OBVIOUS
        <5> QED BY <1>0, <3>2, <5>1
      <4> QED BY <2>4, <4>1
    <3> QED BY <1>0, <2>1, <3>2, <3>3 DEF QueueTypes, HeldTypes
  <2> QED BY <2>2, <2>3, <2>4
<1>5. CASE ProcessPackets
  <2>1. UNCHANGED <<queue, accepted>>
    BY <1>5 DEF ProcessPackets
  <2>2. \/ held' = [s \in Stream |-> Media(held[s])] \/ held' = [s \in Stream |-> <<>>]
    BY <1>5, ProcessIs
  <2>3. \A s \in Stream : Media(held[s]) \in Seq(Packet) /\ Len(Media(held[s])) <= 1
    BY <1>0, MediaIs
  <2>4. held' \in [Stream -> Seq(Packet)] /\ \A s \in Stream : Len(held'[s]) <= 1
    <3>1. CASE held' = [s \in Stream |-> Media(held[s])]
      BY <2>3, <3>1
    <3>2. CASE held' = [s \in Stream |-> <<>>]
      BY <1>0, <3>2
    <3> QED BY <2>2, <3>1, <3>2
  <2> QED BY <1>0, <2>1, <2>4 DEF QueueTypes, HeldTypes
<1>6. CASE CloseFile
  BY <1>0, <1>6 DEF CloseFile, QueueTypes, HeldTypes
<1>7. CASE End
  BY <1>0, <1>7 DEF End, localVars, QueueTypes, HeldTypes
<1>8. ASSUME NEW s \in Stream,
             OpenSinks(s) \/ OpenFails(s) \/ Break(s) \/ CloseSinks(s)
      PROVE  UNCHANGED <<queue, accepted, held>>
  BY <1>8 DEF OpenSinks, OpenFails, Break, CloseSinks, localVars
<1>9. ASSUME DisableAudio \/ Stop \/ SpuriousWakeup \/ OpenFile \/ Wait \/ WriteTrailer
      PROVE  UNCHANGED <<queue, accepted, held>>
  BY <1>9 DEF DisableAudio, Stop, SpuriousWakeup, OpenFile, Wait, WriteTrailer, localVars
<1>10. ASSUME UNCHANGED vars PROVE UNCHANGED <<queue, accepted, held>>
  BY <1>10 DEF vars, localVars
<1> QED
  BY <1>1, <1>2, <1>3, <1>4, <1>5, <1>6, <1>7, <1>8, <1>9, <1>10
     DEF Next, Demuxer, RecorderThread

LEMMA FileStep == TypeInv /\ [Next]_vars => FileTypes'
<1> SUFFICES ASSUME TypeInv, [Next]_vars PROVE FileTypes'
  OBVIOUS
<1>0. /\ FileTypes /\ file \in [Stream -> Seq(Written)] /\ lastPts \in [Stream -> Int]
      /\ previous \in Seq(Shifted) /\ Len(previous) <= 1 /\ origin \in Pts \cup {NoPts}
      /\ <<>> \in Seq(Shifted) /\ Len(<<>>) = 0
  BY EmptySeq DEF TypeInv, FileTypes
<1>1. CASE UNCHANGED <<file, previous, lastPts, origin, extradata>>
  BY <1>0, <1>1 DEF FileTypes
<1>2. CASE ProcessHeader
  <2> DEFINE first == {s \in Stream : expects[s] /\ queue[s] # <<>>}
  <2>1. UNCHANGED <<file, previous, lastPts, origin>>
    BY <1>2 DEF ProcessHeader
  <2>2. \/ extradata' = extradata
        \/ queue["video"] # <<>> /\ extradata' = Head(queue["video"]).config
    <3>1. \/ UNCHANGED extradata
          \/ extradata' = IF /\ \A s \in first : IsConfig(Head(queue[s]))
                             /\ "video" \in first
                          THEN Head(queue["video"]).config ELSE extradata
      BY <1>2 DEF ProcessHeader
    <3> QED BY <3>1
  <2>3. queue["video"] # <<>> => Head(queue["video"]).config \in Nat
    <3>1. queue["video"] \in Seq(Packet) /\ MaxPackets["video"] \in Nat
      BY StreamFacts DEF TypeInv, QueueTypes
    <3>2. queue["video"] # <<>> => Head(queue["video"]) \in Packet
      BY <3>1, HeadTailProperties
    <3> QED BY <3>1, <3>2 DEF Packet
  <2>4. extradata' \in Nat
    BY <1>0, <2>2, <2>3 DEF FileTypes
  <2> QED BY <1>0, <2>1, <2>4 DEF FileTypes
<1>3. CASE ProcessPackets
  <2>1. extradata' = extradata
    BY <1>3 DEF ProcessPackets
  <2>2. /\ file' \in [Stream -> Seq(Written)] /\ lastPts' \in [Stream -> Int]
        /\ origin' \in Pts \cup {NoPts} /\ previous' \in Seq(Shifted) /\ Len(previous') <= 1
    BY <1>3, ProcessIs
  <2> QED BY <1>0, <2>1, <2>2 DEF FileTypes
<1>4. CASE WriteTrailer
  <2>1. UNCHANGED <<origin, extradata>> /\ previous' = <<>>
    BY <1>4 DEF WriteTrailer
  <2>2. file' \in [Stream -> Seq(Written)] /\ lastPts' \in [Stream -> Int]
    BY <1>0, <1>4, TrailerIs
  <2> QED BY <1>0, <2>1, <2>2 DEF FileTypes
<1>5. CASE CloseFile
  BY <1>0, <1>5 DEF CloseFile, FileTypes
<1>6. ASSUME NEW s \in Stream, Demuxer(s)
      PROVE  UNCHANGED <<file, previous, lastPts, origin, extradata>>
  BY <1>6 DEF Demuxer, OpenSinks, OpenFails, Push, Break, CloseSinks, localVars
<1>7. ASSUME DisableAudio \/ Stop \/ SpuriousWakeup \/ OpenFile \/ Wait \/ TakePackets
             \/ End \/ UNCHANGED vars
      PROVE  UNCHANGED <<file, previous, lastPts, origin, extradata>>
  BY <1>7 DEF DisableAudio, Stop, SpuriousWakeup, OpenFile, Wait, TakePackets, End, vars,
              localVars
<1> QED BY <1>1, <1>2, <1>3, <1>4, <1>5, <1>6, <1>7 DEF Next, RecorderThread

LEMMA DemuxStep == TypeInv /\ [Next]_vars => DemuxTypes'
<1> SUFFICES ASSUME TypeInv, [Next]_vars PROVE DemuxTypes'
  OBVIOUS
<1>0. /\ demux \in [Stream -> {"start", "reading", "closing", "ended"}]
      /\ merges \in BOOLEAN
      /\ sent \in [Stream -> Nat] /\ \A s \in Stream : sent[s] <= MaxPackets[s]
      /\ version \in Nat /\ version <= sent["video"]
      /\ merger \in Nat /\ merger <= sent["video"]
      /\ "video" \in Stream /\ MaxPackets \in [Stream -> Nat]
  BY StreamFacts DEF TypeInv, DemuxTypes
<1>1. CASE UNCHANGED demuxVars
  BY <1>1 DEF demuxVars, DemuxTypes, TypeInv
<1>2. ASSUME NEW s \in Stream, OpenSinks(s) PROVE DemuxTypes'
  <2>1. UNCHANGED <<merger, sent, version>> /\ demux' = [demux EXCEPT ![s] = "reading"]
    BY <1>2 DEF OpenSinks
  <2>2. merges' \in BOOLEAN
    <3>1. PICK b \in BOOLEAN : merges' \in IF s = "video" THEN {FALSE, b} ELSE {merges}
      BY <1>2 DEF OpenSinks
    <3> QED BY <1>0, <3>1
  <2>3. demux' \in [Stream -> {"start", "reading", "closing", "ended"}]
    BY <1>0, <2>1
  <2> QED BY <1>0, <2>1, <2>2, <2>3 DEF DemuxTypes
<1>3. ASSUME NEW s \in Stream, OpenFails(s) \/ Break(s) PROVE DemuxTypes'
  <2>1. UNCHANGED <<merges, merger, sent, version>>
    BY <1>3 DEF OpenFails, Break
  <2>2. demux' \in [Stream -> {"start", "reading", "closing", "ended"}]
    BY <1>0, <1>3 DEF OpenFails, Break
  <2> QED BY <1>0, <2>1, <2>2 DEF DemuxTypes
<1>4. CASE DisableAudio
  <2>1. UNCHANGED <<merges, merger, sent, version>>
    BY <1>4 DEF DisableAudio
  <2>2. demux' \in [Stream -> {"start", "reading", "closing", "ended"}]
    BY <1>0, <1>4 DEF DisableAudio
  <2> QED BY <1>0, <2>1, <2>2 DEF DemuxTypes
<1>5. ASSUME NEW s \in Stream, Push(s) PROVE DemuxTypes'
  <2>1. PICK p \in Sent(s) :
           /\ sent' = [sent EXCEPT ![s] = @ + 1]
           /\ version' = IF s = "video" THEN p.needs ELSE version
           /\ merger' = IF s = "audio" \/ ~merges THEN merger
                        ELSE IF IsConfig(p) THEN p.config ELSE 0
           /\ demux' = [demux EXCEPT ![s] = "closing"] \/ UNCHANGED demux
    BY <1>5, PushIs
  <2>2. merges' = merges /\ sent[s] < MaxPackets[s]
    BY <1>5 DEF Push
  <2>3. /\ p.needs = IF s = "video" /\ merges
                     THEN IF IsConfig(p) THEN version + 1 ELSE version ELSE 0
        /\ IsConfig(p) => p.config = p.needs
    BY <2>2, SentIs DEF TypeInv
  <2>4. demux' \in [Stream -> {"start", "reading", "closing", "ended"}]
    BY <1>0, <2>1
  <2>5. /\ sent' \in [Stream -> Nat] /\ \A t \in Stream : sent'[t] <= MaxPackets[t]
    BY <1>0, <2>1, <2>2
  <2>6. /\ s = "video" => sent'["video"] = sent["video"] + 1
        /\ s # "video" => sent'["video"] = sent["video"]
    BY <1>0, <2>1
  <2>7. sent["video"] \in Nat
    BY <1>0
  <2>8. version' \in Nat /\ version' <= sent'["video"]
    <3> DEFINE n == sent["video"]
               m == sent'["video"]
    <3>1. version' \in {version, version + 1, 0} /\ (s # "video" => version' = version)
      BY <2>1, <2>3
    <3>2. s = "video" => m = n + 1
      BY <2>6
    <3>3. s # "video" => m = n
      BY <2>6
    <3>4. n \in Nat /\ version \in Nat /\ version <= n
      BY <1>0, <2>7
    <3> HIDE DEF n, m
    <3>5. version' \in Nat /\ version' <= m
      BY <3>1, <3>2, <3>3, <3>4
    <3> QED BY <3>5 DEF m
  <2>9. merger' \in Nat /\ merger' <= sent'["video"]
    <3> DEFINE n == sent["video"]
               m == sent'["video"]
    <3>1. merger' \in {merger, version + 1, 0} /\ (s # "video" => merger' = merger)
      <4>1. CASE s = "video"
        BY <2>1, <2>3, <4>1
      <4>2. CASE s # "video"
        <5>1. s = "audio"
          BY <4>2, StreamFacts
        <5> QED BY <2>1, <5>1
      <4> QED BY <4>1, <4>2
    <3>2. s = "video" => m = n + 1
      BY <2>6
    <3>3. s # "video" => m = n
      BY <2>6
    <3>4. n \in Nat /\ merger \in Nat /\ merger <= n /\ version \in Nat /\ version <= n
      BY <1>0, <2>7
    <3> HIDE DEF n, m
    <3>5. merger' \in Nat /\ merger' <= m
      BY <3>1, <3>2, <3>3, <3>4
    <3> QED BY <3>5 DEF m
  <2> QED BY <1>0, <2>2, <2>4, <2>5, <2>8, <2>9 DEF DemuxTypes
<1>6. ASSUME NEW s \in Stream, CloseSinks(s) PROVE DemuxTypes'
  <2>1. /\ merges' = merges /\ demux' = [demux EXCEPT ![s] = "ended"]
        /\ sent' = [sent EXCEPT ![s] = 0]
        /\ IF s = "video" THEN merger' = 0 /\ version' = 0 ELSE UNCHANGED <<merger, version>>
    BY <1>6 DEF CloseSinks
  <2>2. demux' \in [Stream -> {"start", "reading", "closing", "ended"}]
    BY <1>0, <2>1
  <2>3. /\ sent' \in [Stream -> Nat] /\ \A t \in Stream : sent'[t] <= MaxPackets[t]
    BY <1>0, <2>1
  <2>4. /\ version' \in Nat /\ version' <= sent'["video"]
        /\ merger' \in Nat /\ merger' <= sent'["video"]
    <3>1. CASE s = "video"
      BY <1>0, <2>1, <3>1
    <3>2. CASE s # "video"
      BY <1>0, <2>1, <3>2
    <3> QED BY <3>1, <3>2
  <2> QED BY <1>0, <2>1, <2>2, <2>3, <2>4 DEF DemuxTypes
<1>7. ASSUME Stop \/ SpuriousWakeup \/ OpenFile \/ Wait \/ ProcessHeader \/ TakePackets
             \/ ProcessPackets \/ WriteTrailer \/ CloseFile \/ End \/ UNCHANGED vars
      PROVE  UNCHANGED demuxVars
  BY <1>7 DEF Stop, SpuriousWakeup, OpenFile, Wait, ProcessHeader, TakePackets,
              ProcessPackets, WriteTrailer, CloseFile, End, vars
<1> QED BY <1>1, <1>2, <1>3, <1>4, <1>5, <1>6, <1>7 DEF Next, Demuxer, RecorderThread

LEMMA StreamStep == TypeInv /\ [Next]_vars => StreamInv'
<1> SUFFICES ASSUME TypeInv, [Next]_vars PROVE StreamInv'
  OBVIOUS
<1>0. /\ StreamInv /\ QueueTypes
      /\ queue \in [Stream -> Seq(Packet)] /\ accepted \in [Stream -> Seq(Packet)]
      /\ held \in [Stream -> Seq(Packet)]
      /\ enabled \in [Stream -> BOOLEAN]
      /\ demux \in [Stream -> {"start", "reading", "closing", "ended"}]
      /\ "video" \in Stream /\ "audio" \in Stream /\ Stream = {"video", "audio"}
  BY StreamFacts DEF TypeInv, QueueTypes, HeldTypes, SinkTypes, DemuxTypes
<1>1. CASE UNCHANGED <<enabled, queue, held, accepted, file, previous, demux, rec,
                       version, merger, extradata>>
  BY <1>0, <1>1 DEF StreamInv, Quiet
<1>2. ASSUME NEW s \in Stream,
             OpenSinks(s) \/ OpenFails(s) \/ (s = "audio" /\ DisableAudio)
             \/ Break(s) \/ CloseSinks(s)
      PROVE  StreamInv'
  <2>1. UNCHANGED <<queue, held, accepted, file, previous, rec, extradata>>
    <3>1. CASE OpenSinks(s) \/ OpenFails(s)
      BY <3>1 DEF OpenSinks, OpenFails, localVars, recVars
    <3>2. CASE DisableAudio
      BY <3>2 DEF DisableAudio, localVars
    <3>3. CASE Break(s) \/ CloseSinks(s)
      BY <3>3 DEF Break, CloseSinks, localVars, recVars
    <3> QED BY <1>2, <3>1, <3>2, <3>3
  <2>2. /\ \/ demux' = [demux EXCEPT ![s] = "reading"] /\ demux[s] = "start"
           \/ demux' = [demux EXCEPT ![s] = "ended"]
           \/ demux' = [demux EXCEPT ![s] = "closing"] /\ demux[s] = "reading"
        /\ \/ enabled' = enabled
           \/ /\ enabled' = [enabled EXCEPT ![s] = FALSE]
              /\ demux[s] = "start" /\ demux' = [demux EXCEPT ![s] = "ended"]
        /\ UNCHANGED <<version, merger>> \/ (s = "video" /\ demux[s] = "closing")
    BY <1>2 DEF OpenSinks, OpenFails, DisableAudio, Break, CloseSinks, sinkVars
  <2>3. \A t \in Stream : demux'[t] = "start" => demux[t] = "start" /\ t # s
    BY <1>0, <2>2
  <2>4. \A t \in Stream : t # s => enabled'[t] = enabled[t] /\ demux'[t] = demux[t]
    BY <1>0, <2>2
  <2>5. ~enabled[s] => demux[s] = "ended" /\ Quiet(s)
    BY <1>0 DEF StreamInv
  <2>6. ~enabled'[s] => demux'[s] = "ended" /\ Quiet(s)
    <3>1. CASE enabled' = enabled
      BY <1>0, <2>2, <2>5, <3>1
    <3>2. CASE demux[s] = "start" /\ demux' = [demux EXCEPT ![s] = "ended"]
      BY <1>0, <3>2 DEF StreamInv
    <3> QED BY <2>2, <3>1, <3>2
  <2>7. \A t \in Stream : Quiet(t) => Quiet(t)'
    BY <2>1 DEF Quiet
  <2>8. ASSUME NEW t \in Stream
        PROVE  /\ demux'[t] = "start" => enabled'[t] /\ Quiet(t)' /\ accepted'[t] = <<>>
               /\ ~enabled'[t] => Quiet(t)' /\ demux'[t] = "ended"
    <3>1. demux[t] = "start" => enabled[t] /\ Quiet(t) /\ accepted[t] = <<>>
      BY <1>0 DEF StreamInv
    <3>2. ~enabled[t] => Quiet(t) /\ demux[t] = "ended"
      BY <1>0 DEF StreamInv
    <3>3. CASE t = s
      BY <2>3, <2>6, <2>7, <3>3
    <3>4. CASE t # s
      BY <2>1, <2>4, <2>7, <3>1, <3>2, <3>4
    <3> QED BY <3>3, <3>4
  <2>9. demux'["video"] = "start" => version' = 0 /\ merger' = 0 /\ extradata' = 0
    BY <1>0, <2>1, <2>2, <2>3 DEF StreamInv
  <2>10. /\ rec' \in {"open", "header"} => /\ \A t \in Stream : file'[t] = <<>>
                                                               /\ held'[t] = <<>>
                                           /\ previous' = <<>>
         /\ rec' = "process" => \E t \in Stream : held'[t] # <<>>
    BY <1>0, <2>1 DEF StreamInv
  <2> QED BY <2>8, <2>9, <2>10 DEF StreamInv
<1>3. ASSUME NEW s \in Stream, Push(s) PROVE StreamInv'
  <2>1. PICK p \in Sent(s) :
           /\ version' = IF s = "video" THEN p.needs ELSE version
           /\ merger' = IF s = "audio" \/ ~merges THEN merger
                        ELSE IF IsConfig(p) THEN p.config ELSE 0
           /\ \/ /\ demux' = [demux EXCEPT ![s] = "closing"]
                 /\ UNCHANGED <<queue, accepted>>
              \/ /\ queue' = [queue EXCEPT ![s] = Append(@, Merged(s, p))]
                 /\ accepted' = IF IsConfig(p) THEN accepted
                                ELSE [accepted EXCEPT ![s] = Append(@, Merged(s, p))]
                 /\ UNCHANGED demux
    BY <1>3, PushIs
  <2>2. demux[s] = "reading" /\ UNCHANGED <<enabled, rec, held, file, previous, extradata>>
    BY <1>3 DEF Push, sinkVars, localVars
  <2>3. enabled[s]
    BY <1>0, <2>2 DEF StreamInv
  <2>4. demux'[s] \in {"reading", "closing"}
    BY <1>0, <2>1, <2>2
  <2>5. \A t \in Stream : t # s => /\ demux'[t] = demux[t] /\ queue'[t] = queue[t]
                                   /\ accepted'[t] = accepted[t]
    BY <1>0, <2>1
  <2>6. ASSUME NEW t \in Stream
        PROVE  /\ demux'[t] = "start" => enabled'[t] /\ Quiet(t)' /\ accepted'[t] = <<>>
               /\ ~enabled'[t] => Quiet(t)' /\ demux'[t] = "ended"
    <3>1. CASE t = s
      BY <2>2, <2>3, <2>4, <3>1
    <3>2. CASE t # s
      BY <1>0, <2>2, <2>5, <3>2 DEF StreamInv, Quiet
    <3> QED BY <3>1, <3>2
  <2>7. demux'["video"] = "start" => version' = 0 /\ merger' = 0 /\ extradata' = 0
    <3>1. CASE s = "video"
      BY <2>4, <3>1
    <3>2. CASE s # "video"
      <4>1. s = "audio"
        BY <1>0, <3>2
      <4> QED BY <1>0, <2>1, <2>2, <2>5, <4>1 DEF StreamInv
    <3> QED BY <3>1, <3>2
  <2>8. /\ rec' \in {"open", "header"} => /\ \A t \in Stream : file'[t] = <<>>
                                                              /\ held'[t] = <<>>
                                          /\ previous' = <<>>
        /\ rec' = "process" => \E t \in Stream : held'[t] # <<>>
    BY <1>0, <2>2 DEF StreamInv
  <2> QED BY <2>6, <2>7, <2>8 DEF StreamInv
<1>4. CASE OpenFile
  <2>1. UNCHANGED <<enabled, queue, held, accepted, file, previous, demux,
                    version, merger, extradata>>
    BY <1>4 DEF OpenFile, sinkVars, demuxVars
  <2>2. rec = "open" /\ rec' \in {"header", "end"}
    BY <1>4 DEF OpenFile
  <2> QED BY <1>0, <2>1, <2>2 DEF StreamInv, Quiet
<1>5. CASE ProcessHeader
  <2> DEFINE first == {s \in Stream : expects[s] /\ queue[s] # <<>>}
  <2>1. /\ UNCHANGED <<enabled, held, accepted, demux, version, merger>>
        /\ rec' \in {"close", "packet"}
        /\ UNCHANGED queue \/ Pop(first)
        /\ "video" \in first \/ UNCHANGED extradata
    <3>1. /\ UNCHANGED <<enabled, held, accepted, demux, version, merger>>
          /\ rec' \in {"close", "packet"}
      BY <1>5 DEF ProcessHeader, sinkVars, demuxVars
    <3>2. UNCHANGED queue \/ Pop(first)
      BY <1>5 DEF ProcessHeader
    <3>3. "video" \in first \/ UNCHANGED extradata
      <4>1. \/ UNCHANGED extradata
            \/ extradata' = IF /\ \A s \in first : IsConfig(Head(queue[s]))
                               /\ "video" \in first
                            THEN Head(queue["video"]).config ELSE extradata
        BY <1>5 DEF ProcessHeader
      <4> QED BY <4>1
    <3> QED BY <3>1, <3>2, <3>3
  <2>2. first \in SUBSET Stream /\ (\A s \in first : queue[s] # <<>>)
    OBVIOUS
  <2> HIDE DEF first
  <2>3. \A s \in Stream : queue[s] = <<>> => queue'[s] = <<>>
    <3>1. CASE UNCHANGED queue
      BY <3>1
    <3>2. CASE Pop(first)
      <4>1. \A s \in Stream \ first : queue'[s] = queue[s]
        BY <1>0, <2>2, <3>2, PopIs
      <4> QED BY <2>2, <4>1
    <3> QED BY <2>1, <3>1, <3>2
  <2>4. \A s \in Stream : Quiet(s) => Quiet(s)'
    BY <2>1, <2>3 DEF Quiet
  <2>5. demux["video"] = "start" => UNCHANGED extradata
    BY <1>0, <2>1, <2>2 DEF StreamInv, Quiet
  <2>6. \A s \in Stream : /\ demux'[s] = "start" => enabled'[s] /\ Quiet(s)'
                                                    /\ accepted'[s] = <<>>
                          /\ ~enabled'[s] => Quiet(s)' /\ demux'[s] = "ended"
    BY <1>0, <2>1, <2>4 DEF StreamInv
  <2>7. demux'["video"] = "start" => version' = 0 /\ merger' = 0 /\ extradata' = 0
    BY <1>0, <2>1, <2>5 DEF StreamInv
  <2> QED BY <2>1, <2>6, <2>7 DEF StreamInv
<1>6. CASE TakePackets
  <2> DEFINE from == {s \in Stream : held[s] = <<>> /\ queue[s] # <<>>}
  <2>1. UNCHANGED <<enabled, accepted, demux, version, merger, extradata>>
    BY <1>6 DEF TakePackets, sinkVars, demuxVars
  <2>2. \/ rec' = "trailer" /\ UNCHANGED <<queue, held>>
        \/ /\ rec' = "process" /\ (from # {} \/ \E s \in Stream : held[s] # <<>>)
           /\ Pop(from)
           /\ held' = [s \in Stream |-> IF s \in from THEN <<Head(queue[s])>> ELSE held[s]]
    BY <1>6 DEF TakePackets
  <2>3. from \in SUBSET Stream /\ (\A s \in from : queue[s] # <<>>)
    OBVIOUS
  <2> HIDE DEF from
  <2>4. \A s \in Stream : Quiet(s) => Quiet(s)'
    <3>1. CASE UNCHANGED <<queue, held>>
      BY <3>1 DEF Quiet
    <3>2. CASE /\ Pop(from)
               /\ held' = [s \in Stream |-> IF s \in from THEN <<Head(queue[s])>> ELSE held[s]]
      <4>1. \A s \in Stream \ from : queue'[s] = queue[s]
        BY <1>0, <2>3, <3>2, PopIs
      <4> QED BY <2>3, <3>2, <4>1 DEF Quiet
    <3> QED BY <2>2, <3>1, <3>2
  <2>5. \A s \in Stream : /\ demux'[s] = "start" => enabled'[s] /\ Quiet(s)'
                                                    /\ accepted'[s] = <<>>
                          /\ ~enabled'[s] => Quiet(s)' /\ demux'[s] = "ended"
    BY <1>0, <2>1, <2>4 DEF StreamInv
  <2>6. rec' = "process" => \E s \in Stream : held'[s] # <<>>
    <3>1. CASE rec' = "trailer"
      BY <3>1
    <3>2. CASE /\ from # {} \/ \E s \in Stream : held[s] # <<>>
               /\ held' = [s \in Stream |-> IF s \in from THEN <<Head(queue[s])>> ELSE held[s]]
      <4>1. PICK s \in Stream : s \in from \/ held[s] # <<>>
        BY <2>3, <3>2
      <4>2. held'[s] = IF s \in from THEN <<Head(queue[s])>> ELSE held[s]
        BY <3>2
      <4>3. <<Head(queue[s])>> # <<>>
        OBVIOUS
      <4> QED BY <4>1, <4>2, <4>3
    <3> QED BY <2>2, <3>1, <3>2
  <2>7. demux'["video"] = "start" => version' = 0 /\ merger' = 0 /\ extradata' = 0
    BY <1>0, <2>1 DEF StreamInv
  <2>8. rec' \in {"trailer", "process"}
    BY <2>2
  <2> QED BY <2>5, <2>6, <2>7, <2>8 DEF StreamInv
<1>7. CASE ProcessPackets
  <2>1. UNCHANGED <<enabled, queue, accepted, demux, version, merger, extradata>>
    BY <1>7 DEF ProcessPackets, sinkVars, demuxVars
  <2>2. /\ rec' \in {"packet", "close"}
        /\ \/ held' = [s \in Stream |-> Media(held[s])] \/ held' = [s \in Stream |-> <<>>]
    BY <1>7, ProcessIs
  <2>3. \A s \in Stream : held[s] = <<>> => held'[s] = <<>>
    <3>1. Media(<<>>) = <<>>
      BY DEF Media
    <3> QED BY <2>2, <3>1
  <2>4. \A s \in Stream : Quiet(s) => Quiet(s)'
    BY <2>1, <2>3 DEF Quiet
  <2>5. \A s \in Stream : /\ demux'[s] = "start" => enabled'[s] /\ Quiet(s)'
                                                    /\ accepted'[s] = <<>>
                          /\ ~enabled'[s] => Quiet(s)' /\ demux'[s] = "ended"
    BY <1>0, <2>1, <2>4 DEF StreamInv
  <2>6. demux'["video"] = "start" => version' = 0 /\ merger' = 0 /\ extradata' = 0
    BY <1>0, <2>1 DEF StreamInv
  <2> QED BY <2>2, <2>5, <2>6 DEF StreamInv
<1>8. CASE WriteTrailer \/ CloseFile \/ End
  <2>1. UNCHANGED <<enabled, accepted, demux, version, merger, extradata>>
    BY <1>8 DEF WriteTrailer, CloseFile, End, sinkVars, demuxVars, localVars
  <2>2. rec' \in {"close", "end", "ended"}
    BY <1>8 DEF WriteTrailer, CloseFile, End
  <2>3. /\ queue' = queue \/ queue' = [s \in Stream |-> <<>>]
        /\ held' = held \/ held' = [s \in Stream |-> <<>>]
    BY <1>8 DEF WriteTrailer, CloseFile, End, localVars
  <2>4. \A s \in Stream : Quiet(s) => Quiet(s)'
    BY <2>3 DEF Quiet
  <2>5. \A s \in Stream : /\ demux'[s] = "start" => enabled'[s] /\ Quiet(s)'
                                                    /\ accepted'[s] = <<>>
                          /\ ~enabled'[s] => Quiet(s)' /\ demux'[s] = "ended"
    BY <1>0, <2>1, <2>4 DEF StreamInv
  <2>6. demux'["video"] = "start" => version' = 0 /\ merger' = 0 /\ extradata' = 0
    BY <1>0, <2>1 DEF StreamInv
  <2> QED BY <2>2, <2>5, <2>6 DEF StreamInv
<1>9. ASSUME Stop \/ SpuriousWakeup \/ Wait \/ UNCHANGED vars
      PROVE  UNCHANGED <<enabled, queue, held, accepted, file, previous, demux, rec,
                         version, merger, extradata>>
  BY <1>9 DEF Stop, SpuriousWakeup, Wait, vars, sinkVars, recVars, localVars, demuxVars
<1> QED
  BY <1>0, <1>1, <1>2, <1>3, <1>4, <1>5, <1>6, <1>7, <1>8, <1>9
     DEF Next, Demuxer, RecorderThread

LEMMA TypeStep == TypeInv /\ [Next]_vars => TypeInv'
BY SinkStep, QueueStep, FileStep, DemuxStep, StreamStep DEF TypeInv

(* The state has the types the code gives it, and a recorder thread holds  *)
(* at most one packet of each stream (recorder.c).                         *)
THEOREM RecorderTypes == Spec => []TypeOK
<1>1. TypeInv => TypeOK
  <2> SUFFICES ASSUME TypeInv PROVE TypeOK
    OBVIOUS
  <2>1. ASSUME NEW q \in Seq(Packet), NEW p \in ToSet(q) PROVE p \in Packet
    <3>1. PICK i \in DOMAIN q : p = q[i]
      BY DEF ToSet
    <3>2. i \in 1..Len(q)
      BY LenProperties
    <3> QED BY <3>1, <3>2, ElementOfSeq
  <2>2. ASSUME NEW s \in Stream
        PROVE  /\ \A p \in ToSet(queue[s]) \cup ToSet(held[s]) \cup ToSet(accepted[s]) :
                     p \in Packet
               /\ Len(held[s]) <= 1
    <3>1. /\ queue[s] \in Seq(Packet) /\ accepted[s] \in Seq(Packet)
          /\ held[s] \in Seq(Packet) /\ Len(held[s]) <= 1
      BY DEF TypeInv, QueueTypes, HeldTypes
    <3> QED BY <2>1, <3>1
  <2> QED BY <2>2 DEF TypeInv, TypeOK, SinkTypes, FileTypes, DemuxTypes, ThreadTypes
<1> QED BY <1>1, TypeInit, TypeStep, PTL DEF Spec

-------------------------------------------------------------------------------
(* Times                                                                   *)

(* Each step writes at most one packet to a stream, with a later time.     *)
LEMMA FileGrows ==
    ASSUME TypeInv, [Next]_vars, NEW s \in Stream
    PROVE  Kept(s) \/ \E p : Wrote(s, p)
<1>1. CASE UNCHANGED <<file, lastPts>>
  BY <1>1 DEF Kept
<1>2. CASE ProcessPackets
  <2>1. Kept(s) \/ (Due(s) # <<>> /\ Wrote(s, Due(s)[1]))
    BY <1>2, ProcessIs
  <2> QED BY <2>1
<1>3. CASE WriteTrailer
  <2>1. /\ \A t \in Stream \ {"video"} : Kept(t)
        /\ Kept("video") \/ (previous # <<>> /\ Wrote("video", previous[1].of))
    BY <1>3, TrailerIs DEF TypeInv
  <2> QED BY <2>1
<1>4. ASSUME NEW t \in Stream, Demuxer(t) PROVE UNCHANGED <<file, lastPts>>
  BY <1>4 DEF Demuxer, OpenSinks, OpenFails, Push, Break, CloseSinks, localVars
<1>5. ASSUME DisableAudio \/ Stop \/ SpuriousWakeup \/ OpenFile \/ Wait \/ ProcessHeader
             \/ TakePackets \/ CloseFile \/ End \/ UNCHANGED vars
      PROVE  UNCHANGED <<file, lastPts>>
  BY <1>5 DEF DisableAudio, Stop, SpuriousWakeup, OpenFile, Wait, ProcessHeader,
              TakePackets, CloseFile, End, vars, localVars
<1> QED BY <1>1, <1>2, <1>3, <1>4, <1>5 DEF Next, RecorderThread

(* What appending a packet does to what was written of a stream.           *)
LEMMA WroteIs ==
    ASSUME FileTypes, FileTypes', NEW s \in Stream, NEW p, Wrote(s, p)
    PROVE  /\ Len(file[s]) \in Nat /\ Len(file'[s]) = Len(file[s]) + 1
           /\ \A i \in 1..Len(file[s]) : file'[s][i] = file[s][i]
           /\ file'[s][Len(file[s]) + 1] = [of |-> p, time |-> lastPts'[s]]
           /\ file'[s] # <<>>
           /\ lastPts[s] \in Int /\ lastPts'[s] \in Int /\ lastPts[s] < lastPts'[s]
<1> DEFINE w == [of |-> p, time |-> lastPts'[s]]
           f == file[s]
<1>1. f \in Seq(Written) /\ file'[s] = Append(f, w) /\ lastPts[s] < lastPts'[s]
      /\ lastPts[s] \in Int /\ lastPts'[s] \in Int
  BY DEF Wrote, FileTypes
<1>2. f \in Seq(Written \cup {w}) /\ w \in Written \cup {w}
  BY <1>1
<1> HIDE DEF w, f
<1>3. /\ Len(Append(f, w)) = Len(f) + 1
      /\ \A i \in 1..Len(f) : Append(f, w)[i] = f[i]
      /\ Append(f, w)[Len(f) + 1] = w
  BY <1>2, AppendProperties
<1>4. Len(f) \in Nat
  BY <1>2, LenProperties
<1>5. Append(f, w) # <<>>
  <2>1. Len(Append(f, w)) # 0
    BY <1>3, <1>4
  <2> QED BY <2>1, EmptySeq
<1> QED BY <1>1, <1>3, <1>4, <1>5 DEF w, f

LEMMA TimesStep ==
    ASSUME TypeInv, TypeInv', TimesInv, TimesIncrease, [Next]_vars
    PROVE  TimesInv' /\ TimesIncrease'
<1> SUFFICES ASSUME NEW s \in Stream
             PROVE  /\ NoPts <= lastPts'[s]
                    /\ file'[s] # <<>> => lastPts'[s] = file'[s][Len(file'[s])].time
                    /\ \A i \in 1..Len(file'[s]) - 1 :
                          file'[s][i].time < file'[s][i + 1].time
  BY DEF TimesInv, TimesIncrease
<1>1. /\ NoPts <= lastPts[s]
      /\ file[s] # <<>> => lastPts[s] = file[s][Len(file[s])].time
      /\ \A i \in 1..Len(file[s]) - 1 : file[s][i].time < file[s][i + 1].time
  BY DEF TimesInv, TimesIncrease
<1>2. CASE Kept(s)
  BY <1>1, <1>2 DEF Kept
<1>3. ASSUME NEW p, Wrote(s, p)
      PROVE  /\ NoPts <= lastPts'[s]
             /\ file'[s] # <<>> => lastPts'[s] = file'[s][Len(file'[s])].time
             /\ \A i \in 1..Len(file'[s]) - 1 :
                   file'[s][i].time < file'[s][i + 1].time
  <2> DEFINE n == Len(file[s])
             f == file[s]
             g == file'[s]
  <2>1. /\ n \in Nat /\ Len(g) = n + 1
        /\ \A i \in 1..n : g[i] = f[i]
        /\ g[n + 1] = [of |-> p, time |-> lastPts'[s]]
        /\ lastPts[s] \in Int /\ lastPts'[s] \in Int /\ lastPts[s] < lastPts'[s]
    BY <1>3, WroteIs DEF TypeInv
  <2>2. n # 0 => f # <<>>
    BY EmptySeq
  <2>3. NoPts <= lastPts'[s]
    <3>1. NoPts \in Int
      BY TimeFacts
    <3> QED BY <1>1, <2>1, <3>1
  <2>4. g[n + 1].time = lastPts'[s]
    BY <2>1
  <2>5. ASSUME NEW i \in 1..n PROVE g[i].time < g[i + 1].time
    <3>1. CASE i = n
      <4>1. f # <<>>
        BY <2>1, <2>2, <3>1
      <4>2. g[i] = f[n] /\ f[n].time = lastPts[s]
        BY <1>1, <2>1, <3>1, <4>1
      <4>3. g[i + 1].time = lastPts'[s]
        BY <2>4, <3>1
      <4> QED BY <2>1, <4>2, <4>3
    <3>2. CASE i # n
      <4>1. i \in 1..n - 1 /\ i + 1 \in 1..n
        BY <2>1, <3>2
      <4>2. g[i] = f[i] /\ g[i + 1] = f[i + 1]
        BY <2>1, <4>1
      <4>3. f[i].time < f[i + 1].time
        BY <1>1, <4>1
      <4> QED BY <4>2, <4>3
    <3> QED BY <3>1, <3>2
  <2> HIDE DEF n, f, g
  <2>6. Len(g) - 1 = n
    BY <2>1
  <2>7. g # <<>> => lastPts'[s] = g[Len(g)].time
    BY <2>1, <2>4
  <2> QED BY <2>3, <2>5, <2>6, <2>7 DEF g
<1> QED BY <1>2, <1>3, FileGrows

-------------------------------------------------------------------------------
(* The order of packets, from the queues to the file                       *)

LEMMA OrderEmpty ==
    ASSUME NEW all \in Seq(Packet), NEW from \in Nat
    PROVE  InOrder(<<>>, all, from) <=> from = Len(all)
<1> DEFINE n == Len(all)
<1>1. n \in Nat
  BY LenProperties
<1>2. Len(<<>>) = 0
  OBVIOUS
<1> HIDE DEF n
<1>3. ASSUME InOrder(<<>>, all, from) PROVE from = n
  <2>1. PICK g \in [1..1 -> 1..(n + 1)] : g[1] = from + 1 /\ g[1] = n + 1
    BY <1>2, <1>3 DEF InOrder, n
  <2> QED BY <1>1, <2>1
<1>4. ASSUME from = n PROVE InOrder(<<>>, all, from)
  <2> DEFINE g == [i \in 1..1 |-> n + 1]
  <2>1. g \in [1..1 -> 1..(n + 1)] /\ g[1] = from + 1 /\ g[1] = n + 1
    BY <1>1, <1>4
  <2> HIDE DEF g
  <2>2. \A i \in 1..0 : FALSE
    OBVIOUS
  <2> QED BY <1>2, <2>1, <2>2 DEF InOrder, n
<1> QED BY <1>3, <1>4 DEF n

(* A packet is accepted in the queue.                                      *)
LEMMA OrderAppend ==
    ASSUME NEW q \in Seq(Packet), NEW all \in Seq(Packet), NEW from \in Nat,
           NEW p \in Packet, InOrder(q, all, from)
    PROVE  InOrder(Append(q, p), IF IsConfig(p) THEN all ELSE Append(all, p), from)
<1> DEFINE n == Len(q)
           m == Len(all)
           qq == Append(q, p)
           aa == IF IsConfig(p) THEN all ELSE Append(all, p)
           mm == IF IsConfig(p) THEN m ELSE m + 1
<1>1. /\ n \in Nat /\ m \in Nat
  BY LenProperties
<1>2. /\ Len(qq) = n + 1 /\ qq[n + 1] = p /\ \A i \in 1..n : qq[i] = q[i]
  BY AppendProperties
<1>3. /\ Len(aa) = mm /\ \A i \in 1..m : aa[i] = all[i]
      /\ ~IsConfig(p) => aa[m + 1] = p
  <2>1. /\ Len(Append(all, p)) = m + 1 /\ Append(all, p)[m + 1] = p
        /\ \A i \in 1..m : Append(all, p)[i] = all[i]
    BY AppendProperties
  <2> QED BY <2>1
<1>4. PICK g \in [1..(n + 1) -> 1..(m + 1)] :
          /\ g[1] = from + 1 /\ g[n + 1] = m + 1
          /\ \A i \in 1..n : IF IsConfig(q[i]) THEN g[i + 1] = g[i]
                             ELSE g[i + 1] = g[i] + 1 /\ q[i] = all[g[i]]
  BY DEF InOrder
<1> DEFINE k == [i \in 1..(n + 1 + 1) |-> IF i <= n + 1 THEN g[i] ELSE mm + 1]
<1> HIDE DEF n, m, qq, aa
<1>5. mm \in Nat /\ m <= mm /\ (IsConfig(p) => mm = m) /\ (~IsConfig(p) => mm = m + 1)
  BY <1>1
<1> HIDE DEF mm
<1>6. \A i \in 1..(n + 1) : g[i] \in 1..(m + 1)
  OBVIOUS
<1>7. k \in [1..(n + 1 + 1) -> 1..(mm + 1)]
  <2>1. ASSUME NEW i \in 1..(n + 1 + 1)
        PROVE  (IF i <= n + 1 THEN g[i] ELSE mm + 1) \in 1..(mm + 1)
    <3>1. CASE i <= n + 1
      <4>1. g[i] \in 1..(m + 1)
        BY <1>1, <1>6, <3>1
      <4> QED BY <1>1, <1>5, <3>1, <4>1
    <3>2. CASE ~(i <= n + 1)
      BY <1>1, <1>5, <3>2
    <3> QED BY <3>1, <3>2
  <2> QED BY <2>1
<1>8. /\ \A i \in 1..(n + 1) : k[i] = g[i]
      /\ k[n + 1 + 1] = mm + 1
  BY <1>1
<1> HIDE DEF k
<1>9. k[1] = from + 1
  BY <1>1, <1>4, <1>8
<1>10. ASSUME NEW i \in 1..(n + 1)
       PROVE  IF IsConfig(qq[i]) THEN k[i + 1] = k[i]
              ELSE k[i + 1] = k[i] + 1 /\ qq[i] = aa[k[i]]
  <2>1. CASE i = n + 1
    <3>1. k[i] = m + 1 /\ k[i + 1] = mm + 1 /\ qq[i] = p
      BY <1>1, <1>2, <1>4, <1>8, <2>1
    <3> QED BY <1>1, <1>3, <1>5, <3>1
  <2>2. CASE i # n + 1
    <3>1. i \in 1..n /\ i + 1 \in 1..(n + 1)
      BY <1>1, <2>2
    <3>2. k[i] = g[i] /\ k[i + 1] = g[i + 1] /\ qq[i] = q[i]
      BY <1>2, <1>8, <3>1
    <3>3. IF IsConfig(q[i]) THEN g[i + 1] = g[i]
          ELSE g[i + 1] = g[i] + 1 /\ q[i] = all[g[i]]
      BY <1>4, <3>1
    <3>4. ~IsConfig(q[i]) => g[i] \in 1..m
      <4>1. g[i] \in 1..(m + 1) /\ g[i + 1] \in 1..(m + 1)
        BY <1>6, <3>1
      <4> QED BY <1>1, <3>3, <4>1
    <3>5. ~IsConfig(q[i]) => aa[g[i]] = all[g[i]]
      BY <1>3, <3>4
    <3> QED BY <3>2, <3>3, <3>5
  <2> QED BY <2>1, <2>2
<1>11. /\ k \in [1..(Len(qq) + 1) -> 1..(Len(aa) + 1)]
       /\ k[1] = from + 1 /\ k[Len(qq) + 1] = Len(aa) + 1
       /\ \A i \in 1..Len(qq) : IF IsConfig(qq[i]) THEN k[i + 1] = k[i]
                                ELSE k[i + 1] = k[i] + 1 /\ qq[i] = aa[k[i]]
  BY <1>2, <1>3, <1>7, <1>8, <1>9, <1>10
<1>12. InOrder(qq, aa, from)
  BY <1>11, Zenon DEF InOrder
<1> QED BY <1>12 DEF qq, aa

(* The first packet of the queue is taken.                                 *)
LEMMA OrderTail ==
    ASSUME NEW q \in Seq(Packet), NEW all \in Seq(Packet), NEW from \in Nat, q # <<>>,
           InOrder(q, all, from)
    PROVE  /\ IsConfig(q[1]) => InOrder(Tail(q), all, from)
           /\ ~IsConfig(q[1]) => /\ from < Len(all) /\ q[1] = all[from + 1]
                                 /\ InOrder(Tail(q), all, from + 1)
<1> DEFINE n == Len(q)
           m == Len(all)
           t == Tail(q)
<1>1. n \in Nat /\ m \in Nat /\ n > 0
  <2>1. n \in Nat /\ m \in Nat
    BY LenProperties
  <2>2. n # 0
    BY EmptySeq
  <2> QED BY <2>1, <2>2
<1>2. /\ Len(t) = n - 1 /\ \A i \in 1..n - 1 : t[i] = q[i + 1]
  <2>1. t \in Seq(Packet) /\ Len(t) = n - 1 /\ \A i \in 1..Len(t) : t[i] = q[i + 1]
    BY HeadTailProperties
  <2> QED BY <2>1
<1>3. PICK g \in [1..(n + 1) -> 1..(m + 1)] :
          /\ g[1] = from + 1 /\ g[n + 1] = m + 1
          /\ \A i \in 1..n : IF IsConfig(q[i]) THEN g[i + 1] = g[i]
                             ELSE g[i + 1] = g[i] + 1 /\ q[i] = all[g[i]]
  BY DEF InOrder
<1> DEFINE k == [i \in 1..(n - 1 + 1) |-> g[i + 1]]
<1> HIDE DEF n, m, t
<1>4. k \in [1..(n - 1 + 1) -> 1..(m + 1)]
  <2>1. ASSUME NEW i \in 1..(n - 1 + 1) PROVE g[i + 1] \in 1..(m + 1)
    <3>1. i + 1 \in 1..(n + 1)
      BY <1>1
    <3> QED BY <3>1
  <2> QED BY <2>1
<1>5. \A i \in 1..n : k[i] = g[i + 1]
  BY <1>1
<1> HIDE DEF k
<1>6. k[1] = g[2] /\ k[n - 1 + 1] = m + 1
  <2>1. 1 \in 1..n /\ n - 1 + 1 \in 1..n /\ 1 + 1 = 2 /\ n - 1 + 1 + 1 = n + 1
    BY <1>1
  <2> QED BY <1>3, <1>5, <2>1
<1>7. \A i \in 1..n - 1 : IF IsConfig(t[i]) THEN k[i + 1] = k[i]
                          ELSE k[i + 1] = k[i] + 1 /\ t[i] = all[k[i]]
  <2> TAKE i \in 1..n - 1
  <2>1. i + 1 \in 1..n /\ i \in 1..n
    BY <1>1
  <2>2. k[i] = g[i + 1] /\ k[i + 1] = g[i + 1 + 1] /\ t[i] = q[i + 1]
    BY <1>2, <1>5, <2>1
  <2> QED BY <1>3, <2>1, <2>2
<1>8. ASSUME NEW f, f + 1 = g[2] PROVE InOrder(t, all, f)
  <2>1. Len(all) = m
    BY DEF m
  <2>2. /\ k \in [1..(Len(t) + 1) -> 1..(Len(all) + 1)]
        /\ k[1] = f + 1 /\ k[Len(t) + 1] = Len(all) + 1
        /\ \A i \in 1..Len(t) : IF IsConfig(t[i]) THEN k[i + 1] = k[i]
                                ELSE k[i + 1] = k[i] + 1 /\ t[i] = all[k[i]]
    BY <1>2, <1>4, <1>6, <1>7, <1>8, <2>1
  <2> QED BY <2>2, Zenon DEF InOrder
<1>9. IF IsConfig(q[1]) THEN g[2] = g[1] ELSE g[2] = g[1] + 1 /\ q[1] = all[g[1]]
  <2>1. 1 \in 1..n /\ 1 + 1 = 2
    BY <1>1
  <2> QED BY <1>3, <2>1
<1>10. g[2] \in 1..(m + 1)
  <2>1. 2 \in 1..(n + 1)
    BY <1>1
  <2> QED BY <2>1
<1>11. CASE IsConfig(q[1])
  BY <1>3, <1>8, <1>9, <1>11 DEF t
<1>12. CASE ~IsConfig(q[1])
  <2>1. g[2] = from + 1 + 1 /\ q[1] = all[from + 1]
    BY <1>3, <1>9, <1>12
  <2>2. from < m
    BY <1>1, <1>10, <2>1
  <2>3. InOrder(t, all, from + 1)
    BY <1>8, <2>1
  <2> QED BY <1>12, <2>1, <2>2, <2>3 DEF t, m
<1> QED BY <1>11, <1>12

LEMMA PastIs ==
    ASSUME TypeInv, NEW s \in Stream
    PROVE  /\ Len(file[s]) \in Nat /\ Len(accepted[s]) \in Nat
           /\ Len(previous) \in {0, 1} /\ (previous = <<>> <=> Len(previous) = 0)
           /\ Past(s) = Len(file[s]) + (IF s = "video" THEN Len(previous) ELSE 0)
           /\ Past(s) \in Nat /\ Len(file[s]) <= Past(s)
<1>1. file[s] \in Seq(Written) /\ accepted[s] \in Seq(Packet) /\ previous \in Seq(Shifted)
      /\ Len(previous) <= 1
  BY DEF TypeInv, FileTypes, QueueTypes
<1>2. Len(file[s]) \in Nat /\ Len(accepted[s]) \in Nat /\ Len(previous) \in Nat
  BY <1>1, LenProperties
<1>3. previous = <<>> <=> Len(previous) = 0
  BY <1>1, EmptySeq
<1> DEFINE n == Len(previous)
           m == Len(file[s])
<1>4. n \in Nat /\ n <= 1 /\ m \in Nat
  BY <1>1, <1>2
<1>5. Past(s) = m + (IF s = "video" THEN n ELSE 0)
  BY DEF Past
<1> HIDE DEF n, m
<1>6. n \in {0, 1} /\ Past(s) \in Nat /\ m <= Past(s)
  BY <1>4, <1>5
<1> QED BY <1>2, <1>3, <1>5, <1>6 DEF n, m

(* Nothing moves from the queues to the file.                              *)
LEMMA ChainKept ==
    ASSUME ChainInv, UNCHANGED <<queue, accepted, held, file, previous>>,
           rec' \in Live => rec \in Live, rec \notin Live => rec' \notin Live,
           rec' = "trailer" => rec = "trailer", outcome' = "complete" => outcome = "complete",
           stopped => stopped'
    PROVE  ChainInv'
<1>1. \A s \in Stream : Prefix(s)'
  BY DEF ChainInv, Prefix
<1>2. ASSUME NEW s \in Stream, Pending(s) PROVE Pending(s)'
  BY <1>2 DEF Pending, Past
<1>3. \A s \in Stream : Complete(s) => Complete(s)'
  BY DEF Complete
<1>4. \A s \in Stream : Quiet(s) => Quiet(s)'
  BY DEF Quiet
<1> QED BY <1>1, <1>2, <1>3, <1>4 DEF ChainInv

LEMMA PushChain ==
    ASSUME TypeInv, TypeInv', ChainInv, NEW s \in Stream, Push(s)
    PROVE  ChainInv'
<1>1. UNCHANGED <<held, file, previous, rec, outcome, stopped>>
  BY DEF Push, localVars
<1>2. PICK p \in Sent(s) :
         /\ Merged(s, p) \in Packet
         /\ \/ UNCHANGED <<queue, accepted>>
            \/ /\ ~stopped
               /\ queue' = [queue EXCEPT ![s] = Append(@, Merged(s, p))]
               /\ accepted' = IF IsConfig(p) THEN accepted
                              ELSE [accepted EXCEPT ![s] = Append(@, Merged(s, p))]
  BY PushIs
<1>3. CASE UNCHANGED <<queue, accepted>>
  BY <1>1, <1>3, ChainKept
<1>4. CASE /\ ~stopped
           /\ queue' = [queue EXCEPT ![s] = Append(@, Merged(s, p))]
           /\ accepted' = IF IsConfig(p) THEN accepted
                          ELSE [accepted EXCEPT ![s] = Append(@, Merged(s, p))]
  <2> DEFINE x == Merged(s, p)
  <2>1. IsConfig(x) <=> IsConfig(p)
    <3>1. sent[s] < MaxPackets[s] /\ DemuxTypes
      BY DEF Push, TypeInv
    <3>2. x.pts = p.pts
      BY <3>1, SentIs
    <3> QED BY <3>2 DEF IsConfig
  <2>2. queue \in [Stream -> Seq(Packet)] /\ accepted \in [Stream -> Seq(Packet)]
        /\ x \in Packet
    BY <1>2 DEF TypeInv, QueueTypes
  <2> HIDE DEF x
  <2>3. /\ queue'[s] = Append(queue[s], x)
        /\ accepted'[s] = IF IsConfig(x) THEN accepted[s] ELSE Append(accepted[s], x)
        /\ \A t \in Stream : t # s => queue'[t] = queue[t] /\ accepted'[t] = accepted[t]
    BY <1>4, <2>1, <2>2 DEF x
  <2>4. ASSUME NEW t \in Stream
        PROVE  /\ Len(accepted[t]) <= Len(accepted'[t])
               /\ \A i \in 1..Len(accepted[t]) : accepted'[t][i] = accepted[t][i]
    <3>1. accepted[t] \in Seq(Packet) /\ Len(accepted[t]) \in Nat
      BY <2>2, LenProperties
    <3>2. CASE t = s /\ ~IsConfig(x)
      <4>1. accepted'[t] = Append(accepted[t], x)
        BY <2>3, <3>2
      <4>2. /\ Len(Append(accepted[t], x)) = Len(accepted[t]) + 1
            /\ \A i \in 1..Len(accepted[t]) : Append(accepted[t], x)[i] = accepted[t][i]
        BY <2>2, <3>1, AppendProperties
      <4> QED BY <3>1, <4>1, <4>2
    <3>3. CASE ~(t = s /\ ~IsConfig(x))
      <4>1. accepted'[t] = accepted[t]
        BY <2>3, <3>3
      <4> QED BY <3>1, <4>1
    <3> QED BY <3>2, <3>3
  <2>5. ASSUME NEW t \in Stream PROVE Prefix(t)'
    <3> DEFINE n == Len(file[t])
               a == Len(accepted[t])
    <3>1. n \in Nat /\ a \in Nat /\ n <= a /\ \A i \in 1..n : file[t][i].of = accepted[t][i]
      BY PastIs DEF ChainInv, Prefix
    <3>2. Len(accepted'[t]) \in Nat
      <4>1. accepted'[t] \in Seq(Packet)
        BY DEF TypeInv, QueueTypes
      <4> QED BY <4>1, LenProperties
    <3>3. a <= Len(accepted'[t]) /\ \A i \in 1..a : accepted'[t][i] = accepted[t][i]
      BY <2>4
    <3> HIDE DEF n, a
    <3>4. n <= Len(accepted'[t]) /\ \A i \in 1..n : i \in 1..a
      BY <3>1, <3>2, <3>3
    <3>5. \A i \in 1..n : file[t][i].of = accepted'[t][i]
      BY <3>1, <3>3, <3>4
    <3> QED BY <1>1, <3>4, <3>5 DEF Prefix, n
  <2>6. ASSUME NEW t \in Stream, Pending(t) PROVE Pending(t)'
    <3> DEFINE n == Len(file[t])
               a == Len(accepted[t])
               f == Past(t)
               m == Media(held[t])
    <3>1. n \in Nat /\ a \in Nat /\ f \in Nat /\ n <= f /\ f' = f /\ m' = m
      BY <1>1, PastIs DEF Past
    <3>2. a <= Len(accepted'[t]) /\ \A i \in 1..a : accepted'[t][i] = accepted[t][i]
      BY <2>4
    <3>3. Len(accepted'[t]) \in Nat
      <4>1. accepted'[t] \in Seq(Packet)
        BY DEF TypeInv, QueueTypes
      <4> QED BY <4>1, LenProperties
    <3>4. Len(m) \in Nat
      <4>1. held[t] \in Seq(Packet) /\ Len(held[t]) <= 1
        BY DEF TypeInv, HeldTypes
      <4>2. m \in Seq(Packet)
        BY <4>1, MediaIs
      <4> QED BY <4>2, LenProperties
    <3>5. /\ t = "video" /\ previous # <<>> =>
                n < a /\ previous[1].of = accepted[t][n + 1]
          /\ m # <<>> => f < a /\ held[t][1] = accepted[t][f + 1]
          /\ InOrder(queue[t], accepted[t], f + Len(m))
      BY <2>6 DEF Pending
    <3> HIDE DEF n, a, f, m
    <3>6. \A i \in Nat : i < a => i < Len(accepted'[t]) /\ accepted'[t][i + 1] = accepted[t][i + 1]
      <4> TAKE i \in Nat
      <4> HAVE i < a
      <4>1. i + 1 \in 1..a
        BY <3>1
      <4> QED BY <3>1, <3>2, <3>3, <4>1
    <3>7. InOrder(queue'[t], accepted'[t], f + Len(m))
      <4>1. CASE t = s
        <5>1. f + Len(m) \in Nat
          BY <3>1, <3>4
        <5>2. queue[t] \in Seq(Packet) /\ accepted[t] \in Seq(Packet)
          BY <2>2
        <5>3. InOrder(Append(queue[t], x),
                      IF IsConfig(x) THEN accepted[t] ELSE Append(accepted[t], x), f + Len(m))
          BY <2>2, <3>5, <5>1, <5>2, OrderAppend
        <5> QED BY <2>3, <4>1, <5>3
      <4>2. CASE t # s
        BY <2>3, <3>5, <4>2
      <4> QED BY <4>1, <4>2
    <3>8. /\ t = "video" /\ previous' # <<>> =>
                n < Len(accepted'[t]) /\ previous'[1].of = accepted'[t][n + 1]
          /\ m # <<>> => f < Len(accepted'[t]) /\ held'[t][1] = accepted'[t][f + 1]
      BY <1>1, <3>1, <3>5, <3>6
    <3>9. n = Len(file'[t]) /\ m = Media(held'[t]) /\ f = Past(t)'
      BY <1>1, <3>1 DEF n, m, f
    <3> QED BY <3>7, <3>8, <3>9 DEF Pending
  <2>7. rec' = "trailer" => FALSE
    BY <1>1, <1>4 DEF ChainInv
  <2>8. outcome' = "complete" => FALSE
    BY <1>1, <1>4 DEF ChainInv
  <2> QED BY <1>1, <2>5, <2>6, <2>7, <2>8 DEF ChainInv
<1> QED BY <1>2, <1>3, <1>4

(* The first packets of some queues are taken.                             *)
LEMMA TakeChain ==
    ASSUME TypeInv, QueueTypes, NEW from \in SUBSET Stream, \A s \in from : queue[s] # <<>>,
           Pop(from), UNCHANGED <<file, previous, accepted>>, NEW s \in Stream, Pending(s),
           \/ s \notin from /\ held'[s] = held[s]
           \/ s \in from /\ held[s] = <<>> /\ held'[s] = <<Head(queue[s])>>
           \/ s \in from /\ held[s] = <<>> /\ held'[s] = <<>> /\ IsConfig(Head(queue[s]))
    PROVE  Pending(s)'
<1> DEFINE n == Len(file[s])
           a == Len(accepted[s])
           f == Past(s)
           q == queue[s]
           all == accepted[s]
<1>1. n \in Nat /\ a \in Nat /\ f \in Nat /\ f' = f /\ n' = n /\ all' = all
  BY PastIs DEF Past
<1>2. /\ s = "video" /\ previous # <<>> => n < a /\ previous[1].of = all[n + 1]
      /\ Media(held[s]) # <<>> => f < a /\ held[s][1] = all[f + 1]
      /\ InOrder(q, all, f + Len(Media(held[s])))
  BY DEF Pending
<1>3. q \in Seq(Packet) /\ all \in Seq(Packet)
  BY DEF QueueTypes
<1>4. /\ \A t \in Stream \ from : queue'[t] = queue[t]
      /\ \A t \in from : queue'[t] = Tail(queue[t]) /\ Head(queue[t]) = queue[t][1]
  BY PopIs
<1>5. s = "video" /\ previous' # <<>> => n < Len(all') /\ previous'[1].of = all'[n + 1]
  BY <1>1, <1>2
<1>6. CASE s \notin from /\ held'[s] = held[s]
  <2>1. queue'[s] = q
    BY <1>4, <1>6
  <2> HIDE DEF n, a, f, q, all
  <2>2. /\ Media(held'[s]) # <<>> => f < a /\ held'[s][1] = all'[f + 1]
        /\ InOrder(queue'[s], all', f + Len(Media(held'[s])))
    BY <1>1, <1>2, <1>6, <2>1
  <2> QED BY <1>1, <1>5, <2>2 DEF Pending, n, a, f, all
<1>7. CASE s \in from /\ held[s] = <<>>
  <2>1. Media(<<>>) = <<>> /\ Len(<<>>) = 0
    BY DEF Media
  <2>2. InOrder(q, all, f)
    <3>1. InOrder(q, all, f + Len(Media(held[s]))) /\ Media(held[s]) = <<>>
      BY <1>2, <1>7, <2>1
    <3> HIDE DEF f, q, all
    <3>2. f + Len(Media(held[s])) = f
      BY <1>1, <2>1, <3>1
    <3> QED BY <3>1, <3>2
  <2>3. q # <<>> /\ queue'[s] = Tail(q) /\ Head(queue[s]) = q[1]
    BY <1>4, <1>7
  <2> HIDE DEF n, a, f, q, all
  <2>4. /\ IsConfig(q[1]) => InOrder(Tail(q), all, f)
        /\ ~IsConfig(q[1]) => /\ f < Len(all) /\ q[1] = all[f + 1]
                              /\ InOrder(Tail(q), all, f + 1)
    BY <1>1, <1>3, <2>2, <2>3, OrderTail
  <2>5. CASE IsConfig(q[1])
    <3>1. Media(held'[s]) = <<>>
      <4>1. Media(<<q[1]>>) = <<>>
        BY <2>5 DEF Media
      <4>2. held'[s] \in {<<>>, <<q[1]>>}
        BY <1>7, <2>3
      <4> QED BY <2>1, <4>1, <4>2
    <3>2. f + Len(Media(held'[s])) = f
      BY <1>1, <2>1, <3>1
    <3>3. InOrder(queue'[s], all', f + Len(Media(held'[s])))
      BY <1>1, <2>3, <2>4, <2>5, <3>2
    <3> QED BY <1>1, <1>5, <3>1, <3>3 DEF Pending, n, a, f, all
  <2>6. CASE ~IsConfig(q[1])
    <3>1. held'[s] = <<q[1]>>
      BY <1>7, <2>3, <2>6
    <3>2. Media(held'[s]) = <<q[1]>> /\ held'[s][1] = q[1] /\ Len(<<q[1]>>) = 1
      BY <2>6, <3>1 DEF Media
    <3>3. f < a /\ held'[s][1] = all'[f + 1]
      BY <1>1, <2>4, <2>6, <3>2 DEF a, all
    <3>4. InOrder(queue'[s], all', f + Len(Media(held'[s])))
      BY <1>1, <2>3, <2>4, <2>6, <3>2
    <3> QED BY <1>1, <1>5, <3>3, <3>4 DEF Pending, n, a, f, all
  <2> QED BY <2>5, <2>6
<1> QED BY <1>6, <1>7

(* The next packet of those accepted is written.                           *)
LEMMA PrefixGrows ==
    ASSUME TypeInv, TypeInv', NEW s \in Stream, accepted' = accepted, Prefix(s), NEW p,
           Kept(s) \/ /\ Wrote(s, p) /\ Len(file[s]) < Len(accepted[s])
                      /\ p = accepted[s][Len(file[s]) + 1]
    PROVE  Prefix(s)'
<1>1. CASE Kept(s)
  BY <1>1 DEF Kept, Prefix
<1>2. CASE /\ Wrote(s, p) /\ Len(file[s]) < Len(accepted[s])
           /\ p = accepted[s][Len(file[s]) + 1]
  <2> DEFINE n == Len(file[s])
             f == file[s]
             g == file'[s]
             all == accepted[s]
  <2>1. /\ n \in Nat /\ Len(g) = n + 1 /\ \A i \in 1..n : g[i] = f[i]
        /\ g[n + 1] = [of |-> p, time |-> lastPts'[s]]
    BY <1>2, WroteIs DEF TypeInv
  <2>2. Len(all) \in Nat /\ all' = all /\ n < Len(all)
    BY <1>2, PastIs
  <2>3. \A i \in 1..n : f[i].of = all[i]
    BY DEF Prefix
  <2>4. p = all[n + 1] /\ g[n + 1].of = p
    BY <1>2, <2>1
  <2> HIDE DEF n, f, g, all
  <2>5. ASSUME NEW i \in 1..(n + 1) PROVE g[i].of = all[i]
    <3>1. CASE i = n + 1
      BY <2>4, <3>1
    <3>2. CASE i # n + 1
      <4>1. i \in 1..n
        BY <2>1, <3>2
      <4> QED BY <2>1, <2>3, <4>1
    <3> QED BY <3>1, <3>2
  <2>6. Len(g) <= Len(all)
    BY <2>1, <2>2
  <2>7. Len(g) <= Len(all') /\ \A i \in 1..Len(g) : g[i].of = all'[i]
    BY <2>1, <2>2, <2>5, <2>6
  <2> QED BY <2>7 DEF Prefix, g, all
<1> QED BY <1>1, <1>2

LEMMA DueIs ==
    ASSUME TypeInv, NEW s \in Stream, Pending(s), Due(s) # <<>>
    PROVE  Len(file[s]) < Len(accepted[s]) /\ Due(s)[1] = accepted[s][Len(file[s]) + 1]
<1>1. CASE s = "audio"
  <2>1. Media(held[s]) # <<>> /\ Due(s) = <<held[s][1]>>
    BY <1>1 DEF Due
  <2>2. Past(s) = Len(file[s]) /\ Len(file[s]) \in Nat
    <3>1. s # "video"
      BY <1>1
    <3>2. Len(file[s]) \in Nat /\ Past(s) = Len(file[s]) + (IF s = "video" THEN Len(previous) ELSE 0)
      BY PastIs
    <3> QED BY <3>1, <3>2
  <2>3. Past(s) < Len(accepted[s]) /\ held[s][1] = accepted[s][Past(s) + 1]
    BY <2>1 DEF Pending
  <2>4. Due(s)[1] = held[s][1]
    BY <2>1
  <2> QED BY <2>2, <2>3, <2>4
<1>2. CASE s = "video"
  <2>1. previous # <<>> /\ Due(s) = <<previous[1].of>>
    BY <1>2 DEF Due
  <2>2. Due(s)[1] = previous[1].of
    BY <2>1
  <2> QED BY <1>2, <2>1, <2>2 DEF Pending
<1> QED BY <1>1, <1>2, StreamFacts

LEMMA ProcessChain ==
    ASSUME TypeInv, TypeInv', ChainInv, ProcessPackets
    PROVE  ChainInv'
<1>1. UNCHANGED <<queue, accepted, stopped>> /\ rec = "process"
  BY DEF ProcessPackets
<1>2. /\ rec' \in {"packet", "close"}
      /\ outcome' \in {outcome, "io", "noVideo"}
      /\ \A s \in Stream : Kept(s) \/ (Due(s) # <<>> /\ Wrote(s, Due(s)[1]))
      /\ \/ /\ held' = [s \in Stream |-> Media(held[s])]
            /\ previous' = previous
            /\ \A s \in Stream : Kept(s)
         \/ /\ held' = [s \in Stream |-> <<>>]
            /\ rec' = "packet" =>
                  \A s \in Stream : Due(s) # <<>> => Wrote(s, Due(s)[1])
            /\ Media(held["video"]) = <<>> => previous' = previous
            /\ Media(held["video"]) # <<>> => /\ Len(previous') = 1
                                              /\ previous'[1].of = held["video"][1]
  BY ProcessIs
<1>3. \A s \in Stream : Prefix(s) /\ Pending(s)
  BY <1>1 DEF ChainInv, Live
<1>4. outcome' # "complete"
  BY <1>1, <1>2 DEF ChainInv, Live
<1>5. ASSUME NEW s \in Stream PROVE Prefix(s)'
  <2>1. Prefix(s) /\ Pending(s) /\ (Kept(s) \/ (Due(s) # <<>> /\ Wrote(s, Due(s)[1])))
    BY <1>2, <1>3
  <2>2. Due(s) # <<>> => /\ Len(file[s]) < Len(accepted[s])
                         /\ Due(s)[1] = accepted[s][Len(file[s]) + 1]
    BY <2>1, DueIs
  <2> DEFINE p == Due(s)[1]
  <2>3. Kept(s) \/ /\ Wrote(s, p) /\ Len(file[s]) < Len(accepted[s])
                   /\ p = accepted[s][Len(file[s]) + 1]
    BY <2>1, <2>2
  <2> HIDE DEF p
  <2> QED BY <1>1, <2>1, <2>3, PrefixGrows
<1>6. ASSUME NEW s \in Stream, rec' = "packet" PROVE Pending(s)'
  <2> DEFINE n == Len(file[s])
             a == Len(accepted[s])
             f == Past(s)
             m == Media(held[s])
             all == accepted[s]
             h == held[s]
  <2>1. /\ n \in Nat /\ a \in Nat /\ f \in Nat /\ all' = all
        /\ Len(previous) \in {0, 1} /\ (previous = <<>> <=> Len(previous) = 0)
        /\ f = n + (IF s = "video" THEN Len(previous) ELSE 0)
    BY <1>1, PastIs
  <2>2. /\ s = "video" /\ previous # <<>> => n < a /\ previous[1].of = all[n + 1]
        /\ m # <<>> => f < a /\ h[1] = all[f + 1]
        /\ InOrder(queue[s], all, f + Len(m))
    BY <1>3 DEF Pending
  <2>3. h \in Seq(Packet) /\ Len(h) <= 1
    BY DEF TypeInv, HeldTypes
  <2>4. Media(<<>>) = <<>> /\ Len(<<>>) = 0 /\ a = Len(all)
    BY DEF Media
  <2>5. CASE /\ held' = [t \in Stream |-> Media(held[t])]
             /\ previous' = previous
             /\ \A t \in Stream : Kept(t)
    <3>1. held'[s] = m /\ file'[s] = file[s]
      BY <2>5 DEF Kept
    <3>2. Media(m) = m /\ (m # <<>> => m[1] = h[1])
      <4>1. m = <<>> \/ m = h
        BY DEF Media
      <4>2. m = <<>> => Media(m) = m
        BY <2>4
      <4>3. m # <<>> => m = h /\ Media(m) = m
        BY <4>1
      <4> QED BY <4>2, <4>3
    <3>3. Len(file'[s]) = n /\ Past(s)' = f
      BY <2>5, <3>1 DEF Past
    <3> HIDE DEF n, a, f, m, all, h
    <3>4. /\ s = "video" /\ previous' # <<>> =>
                 Len(file'[s]) < Len(all') /\ previous'[1].of = all'[Len(file'[s]) + 1]
          /\ Media(held'[s]) # <<>> => Past(s)' < Len(all') /\ held'[s][1] = all'[Past(s)' + 1]
          /\ InOrder(queue'[s], all', Past(s)' + Len(Media(held'[s])))
      BY <1>1, <2>1, <2>2, <2>4, <2>5, <3>1, <3>2, <3>3
    <3> QED BY <3>4 DEF Pending, all
  <2>6. CASE /\ held' = [t \in Stream |-> <<>>]
             /\ \A t \in Stream : Due(t) # <<>> => Wrote(t, Due(t)[1])
             /\ Media(held["video"]) = <<>> => previous' = previous
             /\ Media(held["video"]) # <<>> => /\ Len(previous') = 1
                                               /\ previous'[1].of = held["video"][1]
    <3>1. held'[s] = <<>> /\ Media(held'[s]) = <<>> /\ Len(Media(held'[s])) = 0
      BY <2>4, <2>6
    <3>2. /\ Len(file'[s]) \in Nat
          /\ Len(previous') \in {0, 1} /\ (previous' = <<>> <=> Len(previous') = 0)
          /\ Past(s)' = Len(file'[s]) + (IF s = "video" THEN Len(previous') ELSE 0)
      <4>1. /\ Len(file[s])' \in Nat
            /\ Len(previous)' \in {0, 1} /\ ((previous = <<>>)' <=> Len(previous)' = 0)
            /\ Past(s)' = (Len(file[s]) + (IF s = "video" THEN Len(previous) ELSE 0))'
        <5>1. file'[s] \in Seq(Written) /\ previous' \in Seq(Shifted) /\ Len(previous') <= 1
          BY DEF TypeInv, FileTypes
        <5>2. Len(file'[s]) \in Nat /\ Len(previous') \in Nat
          BY <5>1, LenProperties
        <5>3. previous' = <<>> <=> Len(previous') = 0
          BY <5>1, EmptySeq
        <5> DEFINE k == Len(previous')
        <5>4. k \in Nat /\ k <= 1
          BY <5>1, <5>2
        <5> HIDE DEF k
        <5>5. k \in {0, 1}
          BY <5>4
        <5> QED BY <5>2, <5>3, <5>5 DEF Past, k
      <4> QED BY <4>1
    <3>3. ASSUME Past(s)' = f + Len(m),
                 s = "video" /\ previous' # <<>> =>
                     Len(file'[s]) < a /\ previous'[1].of = all[Len(file'[s]) + 1]
          PROVE  Pending(s)'
      <4> DEFINE r == Past(s)'
                 k == Len(Media(held'[s]))
      <4>1. Len(m) \in Nat
        <5> HIDE DEF h
        <5>1. Media(h) \in Seq(Packet)
          BY <2>3, MediaIs
        <5>2. m \in Seq(Packet)
          BY <5>1 DEF h
        <5> QED BY <5>2, LenProperties
      <4> HIDE DEF f, m, all, a
      <4>2. r = f + Len(m) /\ k = 0
        BY <3>1, <3>3
      <4> HIDE DEF r, k
      <4>3. r + k = f + Len(m)
        BY <2>1, <4>1, <4>2
      <4>4. InOrder(queue'[s], all', r + k)
        BY <1>1, <2>1, <2>2, <4>3
      <4>5. s = "video" /\ previous' # <<>> =>
                Len(file'[s]) < Len(all') /\ previous'[1].of = all'[Len(file'[s]) + 1]
        BY <2>1, <2>4, <3>3
      <4> QED BY <3>1, <4>4, <4>5 DEF Pending, all, r, k
    <3>4. CASE m = <<>>
      <4>1. Due(s) = <<>>
        BY <3>4 DEF Due
      <4>2. file'[s] = file[s]
        BY <1>2, <4>1 DEF Kept
      <4>3. s = "video" => previous' = previous
        BY <2>6, <3>4
      <4>4. Past(s)' = f /\ (s = "video" /\ previous' # <<>> =>
                     Len(file'[s]) < a /\ previous'[1].of = all[Len(file'[s]) + 1])
        BY <2>2, <4>2, <4>3 DEF Past
      <4> HIDE DEF f, m, n, all, a
      <4>5. f + Len(m) = f
        BY <2>1, <2>4, <3>4
      <4> QED BY <3>3, <4>4, <4>5
    <3>5. CASE m # <<>>
      <4>1. Len(m) = 1 /\ f < a /\ h[1] = all[f + 1]
        <5> HIDE DEF h
        <5>1. Media(h) = <<>> \/ (Media(h) = h /\ Len(h) = 1)
          BY <2>3, MediaIs
        <5>2. m = <<>> \/ (m = h /\ Len(h) = 1)
          BY <5>1 DEF h
        <5> QED BY <2>2, <3>5, <5>2
      <4>2. CASE s = "audio"
        <5>1. Due(s) = <<h[1]>>
          BY <3>5, <4>2 DEF Due
        <5>2. Due(s) # <<>>
          BY <5>1
        <5>3. Wrote(s, Due(s)[1])
          BY <2>6, <5>2
        <5>4. Len(file'[s]) = n + 1
          BY <5>3, WroteIs DEF TypeInv
        <5>5. s # "video"
          BY <4>2
        <5> HIDE DEF f, m, n, all, a, h
        <5>6. Past(s)' = f + Len(m)
          BY <2>1, <3>2, <4>1, <5>4, <5>5
        <5> QED BY <3>3, <5>5, <5>6
      <4>3. CASE s = "video" /\ previous = <<>>
        <5>1. Due(s) = <<>>
          BY <4>3 DEF Due
        <5>2. file'[s] = file[s]
          BY <1>2, <5>1 DEF Kept
        <5>3. Len(previous') = 1 /\ previous'[1].of = h[1] /\ Len(file'[s]) = n
          BY <2>6, <3>5, <4>3, <5>2
        <5> HIDE DEF f, m, n, all, a, h
        <5>4. f = n
          BY <2>1, <4>3
        <5>5. Past(s)' = f + Len(m)
          BY <2>1, <3>2, <4>1, <4>3, <5>3, <5>4
        <5>6. Len(file'[s]) < a /\ previous'[1].of = all[Len(file'[s]) + 1]
          BY <4>1, <5>3, <5>4
        <5> QED BY <3>3, <5>5, <5>6
      <4>4. CASE s = "video" /\ previous # <<>>
        <5>1. Due(s) = <<previous[1].of>>
          BY <3>5, <4>4 DEF Due
        <5>2. Due(s) # <<>>
          BY <5>1
        <5>3. Wrote(s, Due(s)[1])
          BY <2>6, <5>2
        <5>4. Len(file'[s]) = n + 1
          BY <5>3, WroteIs DEF TypeInv
        <5>5. Len(previous') = 1 /\ previous'[1].of = h[1]
          BY <2>6, <3>5, <4>4
        <5> HIDE DEF f, m, n, all, a, h
        <5>6. Len(previous) = 1 /\ f = n + 1
          BY <2>1, <4>4
        <5>7. Past(s)' = f + Len(m)
          BY <2>1, <3>2, <4>1, <4>4, <5>4, <5>5, <5>6
        <5>8. Len(file'[s]) < a /\ previous'[1].of = all[Len(file'[s]) + 1]
          BY <4>1, <5>4, <5>5, <5>6
        <5> QED BY <3>3, <5>7, <5>8
      <4> QED BY <4>2, <4>3, <4>4, StreamFacts
    <3> QED BY <3>4, <3>5
  <2> QED BY <1>2, <1>6, <2>5, <2>6
<1> QED BY <1>2, <1>4, <1>5, <1>6 DEF ChainInv, Live

(* The recorder thread ends: nothing was left behind.                      *)
LEMMA TrailerChain ==
    ASSUME TypeInv, TypeInv', ChainInv, WriteTrailer
    PROVE  ChainInv'
<1>1. UNCHANGED <<queue, accepted, stopped>> /\ rec = "trailer" /\ rec' = "close"
  BY DEF WriteTrailer
<1>2. /\ \A s \in Stream : Prefix(s) /\ Pending(s) /\ Quiet(s)
      /\ stopped
  BY <1>1 DEF ChainInv, Live
<1>3. /\ \A s \in Stream \ {"video"} : Kept(s)
      /\ Kept("video") \/ (previous # <<>> /\ Wrote("video", previous[1].of))
  BY TrailerIs DEF TypeInv
<1>4. ASSUME NEW s \in Stream PROVE Past(s) = Len(accepted[s])
  <2>1. Media(held[s]) = <<>> /\ queue[s] = <<>> /\ InOrder(queue[s], accepted[s], Past(s) + Len(Media(held[s])))
    BY <1>2 DEF Quiet, Media, Pending
  <2> DEFINE m == Media(held[s])
  <2>2. Len(m) = 0 /\ Past(s) \in Nat /\ accepted[s] \in Seq(Packet)
    BY <2>1, PastIs DEF TypeInv, QueueTypes
  <2> HIDE DEF m
  <2>3. Past(s) + Len(m) = Past(s)
    BY <2>2
  <2>4. InOrder(<<>>, accepted[s], Past(s))
    BY <2>1, <2>3 DEF m
  <2> QED BY <2>2, <2>4, OrderEmpty
<1>5. ASSUME NEW s \in Stream PROVE Prefix(s)' /\ Complete(s)'
  <2>1. /\ Len(file[s]) \in Nat /\ Len(accepted[s]) \in Nat
        /\ Len(previous) \in {0, 1} /\ (previous = <<>> <=> Len(previous) = 0)
        /\ Past(s) = Len(file[s]) + (IF s = "video" THEN Len(previous) ELSE 0)
    BY PastIs
  <2>2. CASE Kept(s)
    <3>1. Prefix(s)'
      BY <1>1, <1>2, <2>2 DEF Prefix, Kept
    <3>2. Complete(s)
      <4>1. Past(s) = Len(accepted[s])
        BY <1>4
      <4>2. CASE s = "video"
        <5> DEFINE n == Len(file[s])
                   k == Len(previous)
                   a == Len(accepted[s])
        <5>1. n \in Nat /\ a \in Nat /\ k \in {0, 1} /\ n + k = a
          BY <2>1, <4>1, <4>2
        <5> HIDE DEF n, k, a
        <5>2. a = n \/ n + 1 = a
          BY <5>1
        <5> QED BY <4>2, <5>2 DEF Complete, n, a
      <4>3. CASE s # "video"
        BY <2>1, <4>1, <4>3 DEF Complete
      <4> QED BY <4>2, <4>3
    <3> QED BY <1>1, <2>2, <3>1, <3>2 DEF Complete, Kept
  <2>3. CASE s = "video" /\ previous # <<>> /\ Wrote("video", previous[1].of)
    <3> DEFINE p == previous[1].of
    <3>1. Wrote(s, p) /\ Len(file[s]) < Len(accepted[s]) /\ p = accepted[s][Len(file[s]) + 1]
      BY <1>2, <2>3 DEF Pending
    <3> HIDE DEF p
    <3>2. Prefix(s)'
      BY <1>1, <1>2, <3>1, PrefixGrows
    <3>3. Len(file'[s]) = Len(file[s]) + 1
      BY <3>1, WroteIs DEF TypeInv
    <3>4. Len(accepted[s]) = Len(file[s]) + 1
      BY <1>4, <2>1, <2>3
    <3>5. Complete(s)'
      BY <1>1, <3>3, <3>4 DEF Complete
    <3> QED BY <3>2, <3>5
  <2> QED BY <1>3, <2>2, <2>3
<1> QED BY <1>1, <1>2, <1>5 DEF ChainInv, Live

LEMMA ChainInit == Init => ChainInv
<1> SUFFICES ASSUME Init PROVE ChainInv
  OBVIOUS
<1>1. /\ queue = [s \in Stream |-> <<>>] /\ accepted = [s \in Stream |-> <<>>]
      /\ held = [s \in Stream |-> <<>>] /\ file = [s \in Stream |-> <<>>]
      /\ previous = <<>> /\ rec = "open" /\ outcome = "none"
  BY DEF Init
<1>2. Len(<<>>) = 0 /\ Media(<<>>) = <<>> /\ <<>> \in Seq(Packet)
  BY EmptySeq DEF Media
<1>3. ASSUME NEW s \in Stream PROVE Prefix(s) /\ Pending(s)
  <2>1. Len(file[s]) = 0 /\ Past(s) = 0 /\ Len(Media(held[s])) = 0
    BY <1>1, <1>2 DEF Past
  <2>2. InOrder(<<>>, <<>>, 0)
    BY <1>2, OrderEmpty
  <2>3. Past(s) + Len(Media(held[s])) = 0
    BY <2>1
  <2>4. Pending(s)
    BY <1>1, <1>2, <2>2, <2>3 DEF Pending
  <2>5. Prefix(s)
    BY <1>1, <1>2, <2>1 DEF Prefix
  <2> QED BY <2>4, <2>5
<1> QED BY <1>1, <1>3 DEF ChainInv

LEMMA ChainStep ==
    ASSUME TypeInv, TypeInv', ChainInv, [Next]_vars
    PROVE  ChainInv'
<1>1. ASSUME NEW s \in Stream, Push(s) PROVE ChainInv'
  BY <1>1, PushChain
<1>2. CASE ProcessPackets
  BY <1>2, ProcessChain
<1>3. CASE WriteTrailer
  BY <1>3, TrailerChain
<1>4. CASE ProcessHeader
  <2> DEFINE first == {s \in Stream : expects[s] /\ queue[s] # <<>>}
             valid == \A s \in first : IsConfig(Head(queue[s]))
  <2>1. /\ UNCHANGED <<accepted, held, file, previous, stopped>> /\ rec = "header"
        /\ rec' \in {"packet", "close"} /\ outcome' \in {outcome, "noHeader", "io"}
        /\ rec' = "packet" => valid /\ Pop(first)
    BY <1>4 DEF ProcessHeader
  <2>2. first \in SUBSET Stream /\ \A s \in first : queue[s] # <<>>
    OBVIOUS
  <2>3. valid => \A s \in first : IsConfig(Head(queue[s]))
    OBVIOUS
  <2> HIDE DEF first, valid
  <2>4. ASSUME NEW s \in Stream, rec' = "packet" PROVE Pending(s)'
    <3>1. Pending(s) /\ held[s] = <<>>
      BY <2>1 DEF ChainInv, Live, TypeInv, StreamInv
    <3>2. \/ s \notin first /\ held'[s] = held[s]
          \/ s \in first /\ held[s] = <<>> /\ held'[s] = <<>> /\ IsConfig(Head(queue[s]))
      BY <2>1, <2>3, <2>4, <3>1
    <3> QED BY <2>1, <2>2, <2>4, <3>1, <3>2, TakeChain DEF TypeInv
  <2>5. \A s \in Stream : Prefix(s)'
    BY <2>1 DEF ChainInv, Prefix
  <2>6. outcome' # "complete"
    BY <2>1 DEF ChainInv, Live
  <2> QED BY <2>1, <2>4, <2>5, <2>6 DEF ChainInv, Live
<1>5. CASE TakePackets
  <2> DEFINE from == {s \in Stream : held[s] = <<>> /\ queue[s] # <<>>}
  <2>1. /\ UNCHANGED <<accepted, file, previous, stopped, outcome>> /\ rec = "packet"
        /\ \/ /\ rec' = "trailer" /\ UNCHANGED <<queue, held>>
              /\ from = {} /\ \A s \in Stream : held[s] = <<>>
           \/ /\ rec' = "process" /\ Pop(from)
              /\ held' = [s \in Stream |-> IF s \in from THEN <<Head(queue[s])>> ELSE held[s]]
        /\ ~MustWaitForPacket
    BY <1>5 DEF TakePackets
  <2>2. \A s \in Stream : Prefix(s)'
    BY <2>1 DEF ChainInv, Prefix
  <2>3. outcome' # "complete"
    BY <2>1 DEF ChainInv, Live
  <2>4. \A s \in Stream : Pending(s)
    BY <2>1 DEF ChainInv, Live
  <2>5. CASE /\ rec' = "trailer" /\ UNCHANGED <<queue, held>>
             /\ from = {} /\ \A s \in Stream : held[s] = <<>>
    <3>1. \A s \in Stream : Quiet(s)
      BY <2>5 DEF Quiet
    <3>2. stopped
      BY <2>1, <3>1 DEF MustWaitForPacket, Quiet
    <3>3. \A s \in Stream : Quiet(s)' /\ Pending(s)'
      BY <2>1, <2>4, <2>5, <3>1 DEF Quiet, Pending, Past
    <3> QED BY <2>1, <2>2, <2>3, <3>2, <3>3 DEF ChainInv
  <2>6. CASE /\ rec' = "process" /\ Pop(from)
             /\ held' = [s \in Stream |-> IF s \in from THEN <<Head(queue[s])>> ELSE held[s]]
    <3>1. /\ from \in SUBSET Stream /\ \A s \in from : queue[s] # <<>>
          /\ \A s \in from : held[s] = <<>>
      OBVIOUS
    <3> HIDE DEF from
    <3>2. ASSUME NEW s \in Stream PROVE Pending(s)'
      <4>1. \/ s \notin from /\ held'[s] = held[s]
            \/ s \in from /\ held[s] = <<>> /\ held'[s] = <<Head(queue[s])>>
        BY <2>6, <3>1
      <4>2. Pending(s) /\ UNCHANGED <<file, previous, accepted>>
        BY <2>1, <2>4
      <4> QED BY <2>6, <3>1, <4>1, <4>2, TakeChain DEF TypeInv
    <3> QED BY <2>2, <2>3, <2>6, <3>2 DEF ChainInv
  <2> QED BY <2>1, <2>5, <2>6
<1>6. CASE CloseFile \/ End
  <2>1. /\ UNCHANGED <<accepted, file, outcome>> /\ (stopped => stopped')
        /\ rec \notin Live /\ rec' \in {"end", "ended"}
    BY <1>6 DEF CloseFile, End, localVars, Live
  <2>2. ASSUME NEW s \in Stream PROVE Prefix(s)' /\ (Complete(s) => Complete(s)')
    <3>1. Prefix(s)
      BY DEF ChainInv
    <3>2. Prefix(s)'
      BY <2>1, <3>1 DEF Prefix
    <3>3. Complete(s) => Complete(s)'
      BY <2>1 DEF Complete
    <3> QED BY <3>2, <3>3
  <2>3. rec' \notin Live /\ rec' # "trailer"
    BY <2>1 DEF Live
  <2>4. outcome' = "complete" => stopped' /\ \A s \in Stream : Complete(s)'
    BY <2>1, <2>2 DEF ChainInv
  <2> QED BY <2>2, <2>3, <2>4 DEF ChainInv
<1>7. ASSUME NEW s \in Stream,
             OpenSinks(s) \/ OpenFails(s) \/ Break(s) \/ CloseSinks(s)
      PROVE  ChainInv'
  <2>1. UNCHANGED <<queue, accepted, held, file, previous, rec, outcome>>
    <3>1. CASE OpenSinks(s) \/ OpenFails(s)
      BY <3>1 DEF OpenSinks, OpenFails, localVars, recVars
    <3>2. CASE Break(s) \/ CloseSinks(s)
      BY <3>2 DEF Break, CloseSinks, localVars, recVars
    <3> QED BY <1>7, <3>1, <3>2
  <2>2. stopped => stopped'
    BY <1>7 DEF OpenSinks, OpenFails, Break, CloseSinks, SetStopped
  <2> QED BY <2>1, <2>2, ChainKept
<1>8. ASSUME DisableAudio \/ Stop \/ SpuriousWakeup \/ Wait \/ UNCHANGED vars
      PROVE  ChainInv'
  <2>1. UNCHANGED <<queue, accepted, held, file, previous, rec, outcome>>
    BY <1>8 DEF DisableAudio, Stop, SpuriousWakeup, Wait, localVars, recVars, vars
  <2>2. stopped => stopped'
    BY <1>8 DEF DisableAudio, Stop, SpuriousWakeup, Wait, SetStopped, vars
  <2> QED BY <2>1, <2>2, ChainKept
<1>9. CASE OpenFile
  <2>1. /\ UNCHANGED <<queue, accepted, held, file, previous, stopped>>
        /\ rec = "open" /\ rec' \in {"header", "end"} /\ outcome' \in {outcome, "io"}
    BY <1>9 DEF OpenFile
  <2>2. \A s \in Stream : Prefix(s)' /\ Pending(s)'
    BY <2>1 DEF ChainInv, Live, Prefix, Pending, Past
  <2>3. outcome' # "complete"
    BY <2>1 DEF ChainInv, Live
  <2> QED BY <2>1, <2>2, <2>3 DEF ChainInv
<1> QED
  BY <1>1, <1>2, <1>3, <1>4, <1>5, <1>6, <1>7, <1>8, <1>9
     DEF Next, Demuxer, RecorderThread

LEMMA Inductive == Spec => [](TypeInv /\ ChainInv)
<1>1. Init => TypeInv /\ ChainInv
  BY TypeInit, ChainInit
<1>2. TypeInv /\ ChainInv /\ [Next]_vars => (TypeInv /\ ChainInv)'
  BY TypeStep, ChainStep
<1> QED BY <1>1, <1>2, PTL DEF Spec

(* A recording that is reported complete has, in order, every packet that  *)
(* a queue accepted, but the last video packet if writing it failed        *)
(* (sc_recorder_process_packets(), sc_recorder_end()).                     *)
THEOREM RecordingIsComplete == Spec => []CompleteRecording
<1>1. TypeInv /\ ChainInv => CompleteRecording
  <2> SUFFICES ASSUME TypeInv, ChainInv, outcome = "complete", NEW s \in Stream
               PROVE  LET written == [i \in 1..Len(file[s]) |-> file[s][i].of]
                      IN  \/ written = accepted[s]
                          \/ s = "video" /\ accepted[s] # <<>> /\ written = Front(accepted[s])
    BY DEF CompleteRecording
  <2> DEFINE n == Len(file[s])
             all == accepted[s]
             written == [i \in 1..n |-> file[s][i].of]
  <2>1. n \in Nat /\ Len(all) \in Nat /\ all \in Seq(Packet)
    BY PastIs DEF TypeInv, QueueTypes
  <2>2. /\ n <= Len(all) /\ \A i \in 1..n : file[s][i].of = all[i]
        /\ n = Len(all) \/ (s = "video" /\ n + 1 = Len(all))
    BY DEF ChainInv, Prefix, Complete
  <2> HIDE DEF n, all
  <2>3. CASE n = Len(all)
    <3>1. all = [i \in 1..Len(all) |-> all[i]]
      BY <2>1, LenProperties
    <3>2. written = all
      BY <2>2, <2>3, <3>1
    <3> QED BY <3>2 DEF n, all
  <2>4. CASE s = "video" /\ n + 1 = Len(all)
    <3>1. all # <<>>
      BY <2>1, <2>4, EmptySeq
    <3>2. Front(all) = [i \in 1..n |-> all[i]]
      <4>1. Len(all) - 1 = n
        BY <2>1, <2>4
      <4>2. Front(all) = SubSeq(all, 1, n)
        BY <4>1 DEF Front
      <4>3. SubSeq(all, 1, n) = [i \in 1..n |-> all[i]]
        <5>1. 1 \in 1..n + 1 /\ n \in Nat
          BY <2>1
        <5> QED BY <2>1, <2>2, <5>1
      <4> QED BY <4>2, <4>3
    <3>3. written = Front(all)
      BY <2>2, <3>2
    <3> QED BY <2>4, <3>1, <3>3 DEF n, all
  <2> QED BY <2>2, <2>3, <2>4
<1> QED BY <1>1, Inductive, PTL

-------------------------------------------------------------------------------
(* Config data                                                             *)

LEMMA ConfigInit == Init => ConfigInv
<1> SUFFICES ASSUME Init PROVE ConfigInv
  OBVIOUS
<1>1. /\ accepted["video"] = <<>> /\ queue["video"] = <<>> /\ extradata = 0
      /\ demux["video"] # "reading"
  BY StreamFacts DEF Init
<1>2. Len(<<>>) = 0 /\ \A i \in 1..0 : FALSE
  OBVIOUS
<1>3. VersionsOf(accepted["video"])
  BY <1>1, <1>2 DEF VersionsOf
<1>4. FirstConfig(accepted["video"])
  BY <1>1 DEF FirstConfig
<1> QED BY <1>1, <1>3, <1>4 DEF ConfigInv

LEMMA ConfigKept ==
    ASSUME ConfigInv, accepted'["video"] = accepted["video"], extradata' = extradata,
           demux'["video"] = "reading" =>
               demux["video"] = "reading" /\ UNCHANGED <<version, merger, merges>>,
           rec' \in {"open", "header"} =>
               rec \in {"open", "header"} /\ queue'["video"] = queue["video"]
    PROVE  ConfigInv'
<1>1. VersionsOf(accepted["video"])'
  BY DEF ConfigInv, VersionsOf
<1>2. demux'["video"] = "reading" => Current(accepted["video"])'
  BY DEF ConfigInv, Current
<1>3. FirstConfig(accepted["video"])'
  BY DEF ConfigInv, FirstConfig
<1> QED BY <1>1, <1>2, <1>3 DEF ConfigInv

LEMMA PacketFacts ==
    ASSUME NEW all \in Seq(Packet)
    PROVE  /\ Len(all) \in Nat /\ (all = <<>> <=> Len(all) = 0)
           /\ \A i \in 1..Len(all) : all[i] \in Packet /\ all[i].config \in Nat
                                     /\ all[i].needs \in Nat
<1>1. \A i \in 1..Len(all) : all[i] \in Packet
  BY ElementOfSeq
<1>2. MaxPackets["video"] \in Nat
  BY StreamFacts
<1> QED BY <1>1, <1>2, LenProperties, EmptySeq DEF Packet

(* The first packet of a queue, when nothing was taken, is the first sent. *)
LEMMA NothingBefore ==
    ASSUME TypeInv, ChainInv, rec \in {"open", "header"}, queue["video"] = <<>>
    PROVE  accepted["video"] = <<>>
<1> DEFINE all == accepted["video"]
           f == Past("video")
<1>0. "video" \in Stream
  BY StreamFacts
<1>1. /\ file["video"] = <<>> /\ held["video"] = <<>> /\ previous = <<>>
      /\ Pending("video")
  BY <1>0 DEF TypeInv, StreamInv, ChainInv, Live
<1>2. f = 0 /\ Len(Media(held["video"])) = 0
  BY <1>1 DEF Past, Media
<1>3. InOrder(<<>>, all, f + Len(Media(held["video"])))
  BY <1>1 DEF Pending
<1>4. f + Len(Media(held["video"])) = 0
  BY <1>2
<1>5. all \in Seq(Packet)
  BY <1>0 DEF TypeInv, QueueTypes
<1> HIDE DEF f, all
<1>6. InOrder(<<>>, all, 0)
  BY <1>3, <1>4
<1>7. Len(all) = 0
  BY <1>5, <1>6, OrderEmpty
<1> QED BY <1>5, <1>7, PacketFacts DEF all

LEMMA PushConfig ==
    ASSUME TypeInv, TypeInv', ChainInv, ConfigInv, Push("video")
    PROVE  ConfigInv'
<1> DEFINE all == accepted["video"]
           q == queue["video"]
<1>0. "video" \in Stream /\ sent["video"] < MaxPackets["video"] /\ demux["video"] = "reading"
      /\ DemuxTypes
  BY StreamFacts DEF Push, TypeInv
<1>1. UNCHANGED <<rec, extradata, merges>>
  BY DEF Push, localVars
<1>2. PICK p \in Sent("video") :
         /\ version' = p.needs
         /\ merger' = IF ~merges THEN merger ELSE IF IsConfig(p) THEN p.config ELSE 0
         /\ \/ /\ demux' = [demux EXCEPT !["video"] = "closing"]
               /\ UNCHANGED <<queue, accepted>>
            \/ /\ queue' = [queue EXCEPT !["video"] = Append(@, Merged("video", p))]
               /\ accepted' = IF IsConfig(p) THEN accepted
                              ELSE [accepted EXCEPT !["video"] = Append(@, Merged("video", p))]
               /\ UNCHANGED demux
  BY <1>0, PushIs
<1> DEFINE x == Merged("video", p)
<1>3. /\ x \in Packet /\ x.pts = p.pts /\ x.needs = p.needs
      /\ p.needs = IF merges THEN IF IsConfig(p) THEN version + 1 ELSE version ELSE 0
      /\ IsConfig(p) => p.config = p.needs /\ x = p
      /\ ~IsConfig(p) => x.config = IF merges THEN merger ELSE 0
  BY <1>0, SentIs
<1> HIDE DEF x
<1>4. CASE /\ demux' = [demux EXCEPT !["video"] = "closing"]
           /\ UNCHANGED <<queue, accepted>>
  <2>1. demux'["video"] # "reading"
    BY <1>0, <1>4 DEF DemuxTypes
  <2> QED BY <1>1, <1>4, <2>1, ConfigKept
<1>5. CASE /\ queue' = [queue EXCEPT !["video"] = Append(@, x)]
           /\ accepted' = IF IsConfig(p) THEN accepted
                          ELSE [accepted EXCEPT !["video"] = Append(@, x)]
           /\ UNCHANGED demux
  <2>1. /\ queue'["video"] = Append(q, x)
        /\ accepted'["video"] = IF IsConfig(p) THEN all ELSE Append(all, x)
        /\ demux'["video"] = "reading"
    BY <1>0, <1>5 DEF TypeInv, QueueTypes
  <2>2. /\ q \in Seq(Packet) /\ all \in Seq(Packet) /\ version \in Nat /\ merger \in Nat
        /\ version' \in Nat /\ merges \in BOOLEAN /\ extradata \in Nat
    BY <1>0 DEF TypeInv, QueueTypes, DemuxTypes, FileTypes
  <2>3. /\ VersionsOf(all) /\ Current(all) /\ FirstConfig(all)
        /\ rec \in {"open", "header"} => extradata = 0
    BY <1>0 DEF ConfigInv
  <2> DEFINE n == Len(all)
  <2>4. /\ n \in Nat /\ (all = <<>> <=> n = 0)
        /\ \A i \in 1..n : all[i] \in Packet /\ all[i].config \in Nat /\ all[i].needs \in Nat
    BY <2>2, PacketFacts
  <2>5. /\ x.config \in Nat /\ x.needs \in Nat /\ (IsConfig(x) <=> IsConfig(p))
    <3>1. MaxPackets["video"] \in Nat
      BY StreamFacts
    <3> QED BY <1>3, <3>1 DEF Packet, IsConfig
  <2>6. /\ extradata <= version /\ merger \in {0, version} /\ (~merges => version = 0)
        /\ \A i \in 1..n : all[i].needs <= version
        /\ merger = 0 => version = IF all = <<>> THEN 0 ELSE all[n].needs
    BY <2>3 DEF Current
  <2> HIDE DEF all, q
  <2>7. version <= version'
    <3>1. version' = IF merges THEN IF IsConfig(p) THEN version + 1 ELSE version ELSE 0
      BY <1>2, <1>3
    <3> QED BY <2>2, <2>6, <3>1
  <2>8. ASSUME rec' \in {"open", "header"}, IsConfig(queue'["video"][1])
        PROVE  \/ /\ q # <<>> /\ IsConfig(q[1]) /\ queue'["video"][1] = q[1]
                  /\ q[1].config \in Nat /\ q[1].config <= version
                  /\ \A i \in 1..n : q[1].config <= all[i].needs
               \/ IsConfig(p) /\ queue'["video"][1] = p /\ all = <<>>
    <3>1. CASE q = <<>>
      <4>1. queue'["video"][1] = x
        BY <2>1, <3>1
      <4>2. all = <<>>
        BY <1>1, <2>8, <3>1, NothingBefore DEF all, q
      <4> QED BY <1>3, <2>5, <2>8, <4>1, <4>2
    <3>2. CASE q # <<>>
      <4>1. 1 \in 1..Len(q)
        BY <2>2, <3>2, PacketFacts
      <4>2. Append(q, x)[1] = q[1] /\ q[1].config \in Nat
        BY <1>3, <2>2, <4>1, PacketFacts, AppendProperties
      <4>3. IsConfig(q[1]) /\ queue'["video"][1] = q[1]
        BY <2>1, <2>8, <4>2
      <4>4. (\A i \in 1..n : q[1].config <= all[i].needs) /\ q[1].config <= version
        BY <1>0, <1>1, <2>3, <2>8, <3>2, <4>3 DEF FirstConfig, q
      <4> QED BY <3>2, <4>2, <4>3, <4>4
    <3> QED BY <3>1, <3>2
  <2>9. CASE IsConfig(p)
    <3>1. accepted'["video"] = all
      BY <2>1, <2>9
    <3>2. VersionsOf(accepted["video"])'
      BY <1>1, <2>3, <3>1 DEF VersionsOf
    <3>3. Current(accepted["video"])'
      <4>1. extradata' <= version'
        BY <1>1, <2>2, <2>6, <2>7
      <4>2. \A i \in 1..n : all[i].needs <= version'
        BY <2>2, <2>4, <2>6, <2>7
      <4>3. version' = (IF merges THEN version + 1 ELSE 0)
            /\ merger' = IF merges THEN version' ELSE merger
        BY <1>2, <1>3, <2>9
      <4>4. merger' \in {0, version'} /\ (~merges => version' = 0)
        BY <2>2, <2>6, <4>3
      <4>5. merger' = 0 => version' = IF all = <<>> THEN 0 ELSE all[n].needs
        <5>1. merges => merger' # 0
          BY <2>2, <4>3
        <5>2. ~merges => merger' = merger /\ version' = version
          BY <2>6, <4>3
        <5> QED BY <2>2, <2>6, <5>1, <5>2
      <4> QED BY <1>1, <3>1, <4>1, <4>2, <4>4, <4>5 DEF Current
    <3>4. FirstConfig(accepted["video"])'
      <4>1. ASSUME rec' \in {"open", "header"}, IsConfig(queue'["video"][1])
            PROVE  /\ \A i \in 1..n : queue'["video"][1].config <= all[i].needs
                   /\ queue'["video"][1].config <= version'
        <5>1. CASE /\ queue'["video"][1] = q[1]
                   /\ q[1].config \in Nat /\ q[1].config <= version
                   /\ \A i \in 1..n : q[1].config <= all[i].needs
          BY <2>2, <2>7, <5>1
        <5>2. CASE queue'["video"][1] = p /\ all = <<>>
          <6>1. p.config = version' /\ n = 0 /\ \A i \in 1..0 : FALSE
            BY <1>2, <1>3, <2>4, <2>9, <5>2
          <6> QED BY <2>2, <5>2, <6>1
        <5> QED BY <2>8, <4>1, <5>1, <5>2
      <4> QED BY <3>1, <4>1 DEF FirstConfig
    <3> QED BY <1>1, <2>3, <3>2, <3>3, <3>4 DEF ConfigInv
  <2>10. CASE ~IsConfig(p)
    <3> DEFINE aa == Append(all, x)
    <3>1. accepted'["video"] = aa
      BY <2>1, <2>10
    <3>2. /\ Len(aa) = n + 1 /\ aa[n + 1] = x /\ \A i \in 1..n : aa[i] = all[i]
          /\ aa # <<>>
      <4>1. /\ Len(aa) = n + 1 /\ aa[n + 1] = x /\ \A i \in 1..n : aa[i] = all[i]
        BY <1>3, <2>2, AppendProperties
      <4> QED BY <4>1
    <3>3. /\ x.needs = version /\ version' = version /\ merger' = 0
          /\ x.config = merger
      <4>1. ~merges => merger = 0 /\ version = 0
        BY <2>6
      <4> QED BY <1>2, <1>3, <2>10, <4>1
    <3> HIDE DEF aa, n
    <3>4. \A i \in 1..(n + 1) : i = n + 1 \/ i \in 1..n
      BY <2>4
    <3>5. \A i \in 1..(n + 1) : aa[i].needs \in Nat /\ aa[i].needs <= version
      BY <2>2, <2>4, <2>5, <2>6, <3>2, <3>3, <3>4
    <3>6. \A i \in 1..n : /\ all[i].config <= all[i].needs /\ extradata <= all[i].needs
                          /\ \A j \in 1..i : all[j].needs <= all[i].needs
                          /\ \E j \in 1..i : all[j].config = all[i].needs
      BY <2>3 DEF VersionsOf, n
    <3>7. ASSUME NEW i \in 1..(n + 1)
          PROVE  /\ aa[i].config <= aa[i].needs /\ extradata <= aa[i].needs
                 /\ \A j \in 1..i : aa[j].needs <= aa[i].needs
                 /\ \E j \in 1..i : aa[j].config = aa[i].needs
      <4>1. CASE i \in 1..n
        <5>1. \A j \in 1..i : aa[j] = all[j]
          BY <2>4, <3>2, <4>1
        <5>2. aa[i] = all[i]
          BY <3>2, <4>1
        <5> QED BY <3>6, <4>1, <5>1, <5>2
      <4>2. CASE i = n + 1
        <5>1. aa[i].needs = version /\ aa[i].config = merger
          BY <3>2, <3>3, <4>2
        <5>2. merger <= version /\ extradata <= version
          BY <2>2, <2>6
        <5>3. \A j \in 1..i : aa[j].needs <= version
          BY <3>5, <4>2
        <5>4. \E j \in 1..i : aa[j].config = version
          <6>1. CASE merger = version
            <7>1. i \in 1..i
              BY <2>4, <4>2
            <7> QED BY <5>1, <6>1, <7>1
          <6>2. CASE merger # version
            <7>1. merger = 0 /\ version # 0
              BY <2>6, <6>2
            <7>2. all # <<>> /\ version = all[n].needs
              BY <2>6, <7>1
            <7>3. n \in 1..n
              BY <2>4, <7>2
            <7>4. PICK j \in 1..n : all[j].config = all[n].needs
              BY <3>6, <7>3
            <7>5. aa[j] = all[j] /\ j \in 1..i
              BY <2>4, <3>2, <4>2
            <7>6. aa[j].config = version
              BY <7>2, <7>4, <7>5
            <7> QED BY <7>5, <7>6
          <6> QED BY <6>1, <6>2
        <5> QED BY <5>1, <5>2, <5>3, <5>4
      <4> QED BY <3>4, <4>1, <4>2
    <3>8. VersionsOf(accepted["video"])'
      BY <1>1, <3>1, <3>2, <3>7 DEF VersionsOf
    <3>9. Current(accepted["video"])'
      <4>1. aa[Len(aa)].needs = version'
        BY <3>2, <3>3
      <4>2. \A i \in 1..Len(aa) : aa[i].needs <= version'
        BY <3>2, <3>3, <3>5
      <4>3. extradata' <= version' /\ merger' \in {0, version'} /\ (~merges' => version' = 0)
        BY <1>1, <2>6, <3>3
      <4> QED BY <3>1, <3>2, <4>1, <4>2, <4>3 DEF Current
    <3>10. FirstConfig(accepted["video"])'
      <4>1. ASSUME rec' \in {"open", "header"}, IsConfig(queue'["video"][1])
            PROVE  /\ \A i \in 1..(n + 1) : queue'["video"][1].config <= aa[i].needs
                   /\ queue'["video"][1].config <= version'
        <5>1. /\ queue'["video"][1] = q[1] /\ q[1].config \in Nat /\ q[1].config <= version
              /\ \A i \in 1..n : q[1].config <= all[i].needs
          BY <2>8, <2>10, <4>1 DEF n
        <5>2. \A i \in 1..(n + 1) : q[1].config <= aa[i].needs
          BY <3>2, <3>3, <3>4, <5>1
        <5> QED BY <3>3, <5>1, <5>2
      <4> QED BY <3>1, <3>2, <4>1 DEF FirstConfig
    <3> QED BY <1>1, <2>3, <3>8, <3>9, <3>10 DEF ConfigInv
  <2> QED BY <2>9, <2>10
<1> QED BY <1>2, <1>4, <1>5 DEF x

LEMMA HeaderConfig ==
    ASSUME TypeInv, TypeInv', ConfigInv, ProcessHeader
    PROVE  ConfigInv'
<1> DEFINE all == accepted["video"]
           q == queue["video"]
           first == {s \in Stream : expects[s] /\ queue[s] # <<>>}
           valid == \A s \in first : IsConfig(Head(queue[s]))
<1>1. /\ UNCHANGED <<accepted, demux, version, merger, merges>> /\ rec = "header"
      /\ rec' \in {"packet", "close"}
  BY DEF ProcessHeader, demuxVars
<1>2. \/ UNCHANGED extradata
      \/ extradata' = IF valid /\ "video" \in first THEN Head(queue["video"]).config
                      ELSE extradata
  BY DEF ProcessHeader
<1>3. CASE UNCHANGED extradata
  BY <1>1, <1>3, ConfigKept
<1>4. CASE /\ valid /\ "video" \in first
           /\ extradata' = Head(queue["video"]).config
  <2>1. q \in Seq(Packet) /\ all \in Seq(Packet) /\ q # <<>>
    BY <1>4 DEF TypeInv, QueueTypes
  <2>2. IsConfig(q[1]) /\ extradata' = q[1].config
    <3>1. Head(q) = q[1]
      BY <2>1
    <3> QED BY <1>4, <3>1
  <2> HIDE DEF q, valid, first
  <2>3. /\ \A i \in 1..Len(all) : q[1].config <= all[i].needs
        /\ demux["video"] = "reading" => q[1].config <= version
    BY <1>1, <2>1, <2>2 DEF ConfigInv, FirstConfig, q
  <2>4. VersionsOf(all)
    BY DEF ConfigInv
  <2>5. demux["video"] = "reading" => Current(all)
    BY DEF ConfigInv
  <2>6. VersionsOf(accepted["video"])'
    BY <1>1, <2>2, <2>3, <2>4 DEF VersionsOf
  <2>7. demux'["video"] = "reading" => Current(accepted["video"])'
    BY <1>1, <2>2, <2>3, <2>5 DEF Current
  <2> QED BY <1>1, <2>6, <2>7 DEF ConfigInv, FirstConfig
<1> QED BY <1>2, <1>3, <1>4

LEMMA ConfigStep ==
    ASSUME TypeInv, TypeInv', ChainInv, ConfigInv, [Next]_vars
    PROVE  ConfigInv'
<1>0. /\ "video" \in Stream /\ "audio" \in Stream /\ "video" # "audio"
      /\ Stream = {"video", "audio"}
      /\ demux \in [Stream -> {"start", "reading", "closing", "ended"}]
      /\ queue \in [Stream -> Seq(Packet)] /\ accepted \in [Stream -> Seq(Packet)]
  BY StreamFacts DEF TypeInv, DemuxTypes, QueueTypes
<1>1. CASE Push("video")
  BY <1>1, PushConfig
<1>2. CASE Push("audio")
  <2>1. PICK p \in Sent("audio") :
           /\ version' = version /\ merger' = merger
           /\ \/ /\ demux' = [demux EXCEPT !["audio"] = "closing"]
                 /\ UNCHANGED <<queue, accepted>>
              \/ /\ queue' = [queue EXCEPT !["audio"] = Append(@, Merged("audio", p))]
                 /\ accepted' = IF IsConfig(p) THEN accepted
                                ELSE [accepted EXCEPT !["audio"] = Append(@, Merged("audio", p))]
                 /\ UNCHANGED demux
    BY <1>0, <1>2, PushIs
  <2>2. UNCHANGED <<rec, extradata, merges>>
    BY <1>2 DEF Push, localVars
  <2>3. /\ demux'["video"] = demux["video"] /\ queue'["video"] = queue["video"]
        /\ accepted'["video"] = accepted["video"]
    BY <1>0, <2>1
  <2> QED BY <2>1, <2>2, <2>3, ConfigKept
<1>3. CASE ProcessHeader
  BY <1>3, HeaderConfig
<1>4. CASE OpenSinks("video")
  <2>1. /\ UNCHANGED <<queue, accepted, rec, extradata, version, merger>>
        /\ demux["video"] = "start"
    BY <1>4 DEF OpenSinks, localVars
  <2>2. accepted["video"] = <<>> /\ queue["video"] = <<>> /\ extradata = 0
        /\ version = 0 /\ merger = 0
    BY <1>0, <2>1 DEF TypeInv, StreamInv, Quiet
  <2>3. Len(<<>>) = 0 /\ \A i \in 1..0 : FALSE
    OBVIOUS
  <2>4. VersionsOf(accepted["video"])'
    BY <2>1, <2>2, <2>3 DEF VersionsOf
  <2>5. Current(accepted["video"])'
    BY <2>1, <2>2, <2>3 DEF Current
  <2>6. FirstConfig(accepted["video"])'
    BY <2>1, <2>2 DEF FirstConfig
  <2> QED BY <2>1, <2>2, <2>4, <2>5, <2>6 DEF ConfigInv
<1>5. CASE OpenSinks("audio")
  <2>1. /\ UNCHANGED <<queue, accepted, rec, extradata, version, merger>>
        /\ demux' = [demux EXCEPT !["audio"] = "reading"]
    BY <1>5 DEF OpenSinks, localVars
  <2>2. merges' = merges
    <3>1. \E b \in BOOLEAN : merges' \in IF "audio" = "video" THEN {FALSE, b} ELSE {merges}
      BY <1>5 DEF OpenSinks
    <3> QED BY <3>1, <1>0
  <2>3. demux'["video"] = demux["video"]
    BY <1>0, <2>1
  <2> QED BY <2>1, <2>2, <2>3, ConfigKept
<1>6. ASSUME NEW s \in Stream, OpenFails(s) \/ Break(s) \/ CloseSinks(s)
      PROVE  ConfigInv'
  <2>1. UNCHANGED <<queue, accepted, rec, extradata, merges>>
    <3>1. CASE OpenFails(s) \/ Break(s)
      BY <3>1 DEF OpenFails, Break, localVars, recVars
    <3>2. CASE CloseSinks(s)
      BY <3>2 DEF CloseSinks, localVars
    <3> QED BY <1>6, <3>1, <3>2
  <2>2. /\ \/ demux' = [demux EXCEPT ![s] = "ended"]
           \/ demux' = [demux EXCEPT ![s] = "closing"]
        /\ s = "video" \/ UNCHANGED <<version, merger>>
    <3>1. CASE OpenFails(s) \/ Break(s)
      BY <3>1 DEF OpenFails, Break
    <3>2. CASE CloseSinks(s)
      BY <3>2 DEF CloseSinks
    <3> QED BY <1>6, <3>1, <3>2
  <2>3. demux'["video"] = "reading" =>
            demux["video"] = "reading" /\ UNCHANGED <<version, merger, merges>>
    <3>1. CASE s = "video"
      <4>1. demux'["video"] # "reading"
        BY <1>0, <2>2, <3>1
      <4> QED BY <4>1
    <3>2. CASE s # "video"
      <4>1. demux'["video"] = demux["video"]
        BY <1>0, <2>2, <3>2
      <4> QED BY <2>1, <2>2, <3>2, <4>1
    <3> QED BY <3>1, <3>2
  <2> QED BY <2>1, <2>3, ConfigKept
<1>7. CASE DisableAudio
  <2>1. /\ UNCHANGED <<queue, accepted, rec, extradata, version, merger, merges>>
        /\ demux' = [demux EXCEPT !["audio"] = "ended"]
    BY <1>7 DEF DisableAudio, localVars
  <2>2. demux'["video"] = demux["video"]
    BY <1>0, <2>1
  <2> QED BY <2>1, <2>2, ConfigKept
<1>8. ASSUME Stop \/ SpuriousWakeup \/ Wait \/ UNCHANGED vars
      PROVE  ConfigInv'
  <2>1. UNCHANGED <<queue, accepted, rec, extradata, demux, version, merger, merges>>
    BY <1>8 DEF Stop, SpuriousWakeup, Wait, vars, recVars, localVars, demuxVars
  <2> QED BY <2>1, ConfigKept
<1>9. ASSUME OpenFile \/ TakePackets \/ ProcessPackets \/ WriteTrailer \/ CloseFile \/ End
      PROVE  ConfigInv'
  <2>1. UNCHANGED <<accepted, extradata, demux, version, merger, merges>>
    BY <1>9 DEF OpenFile, TakePackets, ProcessPackets, WriteTrailer, CloseFile, End,
                localVars, demuxVars
  <2>2. rec' \in {"open", "header"} =>
            rec \in {"open", "header"} /\ queue'["video"] = queue["video"]
    <3>1. CASE OpenFile
      BY <3>1 DEF OpenFile
    <3>2. CASE TakePackets \/ ProcessPackets
      <4>1. rec' \in {"trailer", "process", "packet", "close"}
        BY <3>2, ProcessIs DEF TakePackets
      <4> QED BY <4>1
    <3>3. CASE WriteTrailer \/ CloseFile \/ End
      BY <3>3 DEF WriteTrailer, CloseFile, End
    <3> QED BY <1>9, <3>1, <3>2, <3>3
  <2> QED BY <2>1, <2>2, ConfigKept
<1> QED
  BY <1>0, <1>1, <1>2, <1>3, <1>4, <1>5, <1>6, <1>7, <1>8, <1>9
     DEF Next, Demuxer, RecorderThread

LEMMA Decodable == TypeInv /\ ChainInv /\ ConfigInv => DecodableFile
<1> SUFFICES ASSUME TypeInv, ChainInv, ConfigInv, NEW i \in 1..Len(file["video"])
             PROVE  LET configs == {file["video"][j].of.config : j \in 1..i} \cup {extradata}
                    IN  file["video"][i].of.needs = CHOOSE c \in configs :
                                                        \A d \in configs : d <= c
  BY DEF DecodableFile
<1> DEFINE all == accepted["video"]
           f == file["video"]
           configs == {f[j].of.config : j \in 1..i} \cup {extradata}
           m == f[i].of.needs
<1>0. "video" \in Stream
  BY StreamFacts
<1>1. /\ Len(f) \in Nat /\ Len(f) <= Len(all) /\ \A j \in 1..Len(f) : f[j].of = all[j]
      /\ all \in Seq(Packet) /\ extradata \in Nat
  BY <1>0, PastIs DEF ChainInv, Prefix, TypeInv, QueueTypes, FileTypes
<1>2. VersionsOf(all)
  BY DEF ConfigInv
<1> HIDE DEF all
<1>3. /\ Len(all) \in Nat
      /\ \A j \in 1..Len(all) : all[j].config \in Nat /\ all[j].needs \in Nat
  BY <1>1, PacketFacts
<1>4. i \in 1..Len(all) /\ \A j \in 1..i : j \in 1..Len(all) /\ f[j].of = all[j]
  BY <1>1, <1>3
<1>5. /\ all[i].config <= all[i].needs /\ extradata <= all[i].needs
      /\ \A j \in 1..i : all[j].needs <= all[i].needs
      /\ \E j \in 1..i : all[j].config = all[i].needs
  BY <1>2, <1>4 DEF VersionsOf
<1>6. m = all[i].needs /\ m \in Nat
  BY <1>1, <1>3, <1>4
<1>7. ASSUME NEW d \in configs PROVE d \in Nat /\ d <= m
  <2>1. CASE d = extradata
    BY <1>1, <1>5, <1>6, <2>1
  <2>2. ASSUME NEW j \in 1..i, d = f[j].of.config PROVE d \in Nat /\ d <= m
    <3>1. d = all[j].config /\ j \in 1..Len(all)
      BY <1>4, <2>2
    <3>2. all[j].config <= all[j].needs
      BY <1>2, <3>1 DEF VersionsOf
    <3>3. all[j].needs <= m /\ all[j].needs \in Nat /\ all[j].config \in Nat
      BY <1>3, <1>5, <1>6, <3>1
    <3> QED BY <1>6, <3>1, <3>2, <3>3
  <2> QED BY <2>1, <2>2
<1>8. m \in configs
  <2>1. PICK j \in 1..i : all[j].config = all[i].needs
    BY <1>5
  <2> QED BY <1>4, <1>6, <2>1
<1> HIDE DEF configs, m
<1>9. \A c \in configs : (\A d \in configs : d <= c) => c = m
  <2> TAKE c \in configs
  <2> HAVE \A d \in configs : d <= c
  <2>1. m <= c /\ c <= m /\ c \in Nat
    BY <1>7, <1>8
  <2> QED BY <1>6, <2>1
<1>10. \E c \in configs : \A d \in configs : d <= c
  BY <1>7, <1>8
<1>11. m = CHOOSE c \in configs : \A d \in configs : d <= c
  BY <1>9, <1>10
<1> QED BY <1>11 DEF configs, m, f

(* Whatever the times of the packets, and whenever their config data       *)
(* changes, a player can read the file: the times of each stream increase, *)
(* and what decodes a packet is written before it (recorder.c,             *)
(* packet_merger.c).                                                       *)
THEOREM FilePlays == Spec => []FileIsPlayable
<1> DEFINE Inv == /\ TypeInv /\ ChainInv
                  /\ TimesInv /\ TimesIncrease
                  /\ ConfigInv
<1>1. Init => Inv
  <2> SUFFICES ASSUME Init PROVE Inv
    OBVIOUS
  <2>1. TimesInv /\ TimesIncrease
    <3>1. NoPts \in Int /\ Len(<<>>) = 0 /\ (\A i \in 1..0 - 1 : FALSE)
      BY TimeFacts
    <3>2. \A s \in Stream : file[s] = <<>> /\ lastPts[s] = NoPts
      BY DEF Init
    <3> QED BY <3>1, <3>2 DEF TimesInv, TimesIncrease
  <2> QED BY <2>1, TypeInit, ChainInit, ConfigInit
<1>2. Inv /\ [Next]_vars => Inv'
  BY TypeStep, ChainStep, TimesStep, ConfigStep
<1>3. Inv => FileIsPlayable
  BY Decodable DEF FileIsPlayable
<1> QED BY <1>1, <1>2, <1>3, PTL DEF Spec
===============================================================================
