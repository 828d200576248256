--------------------------------- MODULE Audio ---------------------------------
(***************************************************************************)
(* The sound, from the thread that decodes it to the thread that plays it: *)
(* a ring of samples (util/audiobuf.c) that each side uses without a lock, *)
(* and the regulator that keeps its length around a target                 *)
(* (audio_regulator.c), with a mutex for the case where the producer has   *)
(* to drop samples from the side of the consumer.                          *)
(*                                                                         *)
(* A sample is its number, 0 for silence.  An operation of the ring reads  *)
(* the cursor of the other side, copies, and only then moves its own: the  *)
(* three are steps.  The resampling is the number of samples it returns;   *)
(* the estimate of the latency, that only sets that rate, and allocation   *)
(* failures are left out.                                                  *)
(***************************************************************************)
EXTENDS Integers, Sequences, FiniteSets, SequencesExt

CONSTANTS
    AudioCapacity,   \* samples that fit in the ring: the target plus one second
    AudioTarget,     \* target_buffering: --audio-buffer, from nothing to one hour
    InitialLimit,    \* max_buffered_samples before playback starts
    PlayedLimit,     \* and after
    FrameLengths,    \* samples that a decoded frame may contain
    PullLengths,     \* samples that the player may ask for
    MaxSample        \* the bound: samples decoded

(* The limits are the target and a tenth, plus some milliseconds: those of *)
(* a long target are beyond the capacity.  A resampled frame may be empty. *)
ASSUME AudioOK ==
    /\ {AudioCapacity, AudioTarget, InitialLimit, PlayedLimit, MaxSample} \subseteq Nat
    /\ AudioTarget < AudioCapacity
    /\ FrameLengths \subseteq Nat /\ PullLengths \subseteq Nat \ {0}

VARIABLES
    ring,      \* [head, tail, data]
    mutex,     \* the thread that has the mutex of the regulator, or "none"
    push,      \* the producer: [pc, phase, samples, tail, limit]
    pull,      \* the consumer: [pc, want, head, out]
    played,    \* whether playback has started
    decoded,   \* history: the number of the last sample decoded
    heard,     \* history: the samples that were played
    dropped    \* history: the samples that were given up

audioVars == <<ring, mutex, push, pull, played, decoded, heard, dropped>>

AllocSize == AudioCapacity + 1
Least(m, n) == IF m < n THEN m ELSE n
CanRead(head, tail) == (AllocSize + head - tail) % AllocSize
CanWrite(head, tail) == (AllocSize + tail - head - 1) % AllocSize

(* n samples from a cursor on, through the end of the array.               *)
Samples(cursor, n) == [i \in 1..n |-> ring.data[(cursor + i - 1) % AllocSize]]
Real(samples) == ToSet(samples) \ {0}

AudioInit ==
    /\ ring = [head |-> 0, tail |-> 0, data |-> [i \in 0..AudioCapacity |-> 0]]
    /\ mutex = "none"
    /\ push = [pc |-> "idle", phase |-> "first", samples |-> <<>>, tail |-> 0, limit |-> 0]
    /\ pull = [pc |-> "idle", want |-> 0, head |-> 0, out |-> <<>>]
    /\ played = FALSE
    /\ decoded = 0 /\ heard = {} /\ dropped = {}

--------------------------------------------------------------------------------
(* The producer: sc_audio_regulator_push()                                 *)

(* A frame is resampled.  Of more samples than the ring can hold, only the *)
(* last are kept; after a gap in the stream, silence first fills the ring  *)
(* up to its target.                                                       *)
ReceiveFrame(n, gap) ==
    LET all == [i \in 1..n |-> decoded + i]
        kept == SubSeq(all, n - Least(n, AudioCapacity) + 1, n)
        missing == AudioTarget - CanRead(ring.head, ring.tail) - n
    IN
    /\ push.pc = "idle"
    /\ decoded + n <= MaxSample
    /\ gap => decoded > 0
    /\ decoded' = decoded + n
    /\ dropped' = dropped \cup (ToSet(all) \ ToSet(kept))
    /\ push' = [push EXCEPT !.pc = "load",
                            !.phase = IF gap /\ missing > 0 THEN "silence" ELSE "first",
                            !.samples = IF gap /\ missing > 0
                                        THEN [i \in 1..missing |-> 0] \o kept ELSE kept]
    /\ UNCHANGED <<ring, mutex, pull, played, heard>>

(* sc_audiobuf_write() and write_silence(): the cursor of the reader...    *)
LoadTail ==
    /\ push.pc = "load"
    /\ push' = [push EXCEPT !.pc = "copy", !.tail = ring.tail]
    /\ UNCHANGED <<ring, mutex, pull, played, decoded, heard, dropped>>

(* (The silence is written by a call of its own.)                          *)
Offered == IF push.phase = "silence"
           THEN Cardinality({k \in DOMAIN push.samples : push.samples[k] = 0})
           ELSE Len(push.samples)

(* Mutation: one slot too many: a full ring looks empty.                   *)
Writable_Full == Least(Offered, (AllocSize + push.tail - ring.head) % AllocSize)
Writable == Least(Offered, CanWrite(ring.head, push.tail))

(* ... the copy, in one or two pieces...                                   *)
Copy ==
    /\ push.pc = "copy"
    /\ ring' = [ring EXCEPT !.data =
                  [i \in 0..AudioCapacity |->
                      LET k == ((AllocSize + i - ring.head) % AllocSize) + 1
                      IN IF k <= Writable THEN push.samples[k] ELSE @[i]]]
    /\ push' = [push EXCEPT !.pc = "store"]
    /\ UNCHANGED <<mutex, pull, played, decoded, heard, dropped>>

(* ... and the cursor of the writer.  What did not fit is tried again with *)
(* the mutex, then dropped for; silence that does not fit is forgotten.    *)
Store ==
    LET rest == SubSeq(push.samples,
                       (IF push.phase = "silence" THEN Offered ELSE Writable) + 1,
                       Len(push.samples))
    IN
    /\ push.pc = "store"
    /\ ring' = [ring EXCEPT !.head = (@ + Writable) % AllocSize]
    /\ push' = [push EXCEPT
         !.samples = rest,
         !.phase = IF @ = "silence" THEN "first" ELSE @,
         !.pc = CASE push.phase = "silence" -> "load"
                  [] push.phase = "first" -> IF rest = <<>> THEN "check" ELSE "lock"
                  [] push.phase = "locked" -> IF rest = <<>> THEN "unlock" ELSE "drop"
                  [] push.phase = "last" -> "check"]
    /\ UNCHANGED <<mutex, pull, played, decoded, heard, dropped>>

(* Mutation: the writer drops samples without the mutex.                   *)
LockToWrite_NoMutex ==
    /\ push.pc = "lock"
    /\ push' = [push EXCEPT !.pc = "load", !.phase = "locked"]
    /\ UNCHANGED <<ring, mutex, pull, played, decoded, heard, dropped>>

LockToWrite ==
    /\ push.pc = "lock"
    /\ mutex = "none"
    /\ mutex' = "producer"
    /\ push' = [push EXCEPT !.pc = "load", !.phase = "locked"]
    /\ UNCHANGED <<ring, pull, played, decoded, heard, dropped>>

(* sc_audiobuf_read() without a destination: n samples are forgotten.      *)
Forget(n) ==
    /\ ring' = [ring EXCEPT !.tail = (@ + n) % AllocSize]
    /\ dropped' = dropped \cup Real(Samples(ring.tail, n))

(* Still no room: old samples make it.                                     *)
DropOld ==
    /\ push.pc = "drop"
    /\ Forget(Least(Len(push.samples), CanRead(ring.head, ring.tail)))
    /\ push' = [push EXCEPT !.pc = "unlock", !.phase = "last"]
    /\ UNCHANGED <<mutex, pull, played, decoded, heard>>

(* The mutex is released, and what is left is written.                     *)
UnlockToWrite ==
    /\ push.pc = "unlock"
    /\ mutex' = "none"
    /\ push' = [push EXCEPT !.pc = IF push.samples = <<>> THEN "check" ELSE "load"]
    /\ UNCHANGED <<ring, pull, played, decoded, heard, dropped>>

(* More is buffered than the latency allows.                               *)
CheckLimit ==
    LET limit == IF played THEN PlayedLimit ELSE InitialLimit IN
    /\ push.pc = "check"
    /\ push' = [push EXCEPT
         !.limit = limit, !.phase = "first",
         !.pc = IF CanRead(ring.head, ring.tail) > limit THEN "skip" ELSE "idle"]
    /\ UNCHANGED <<ring, mutex, pull, played, decoded, heard, dropped>>

Excess == CanRead(ring.head, ring.tail) - push.limit

(* The same is tested again with the mutex (one critical section).         *)
SkipExcess ==
    /\ push.pc = "skip"
    /\ mutex = "none"
    /\ IF Excess > 0 THEN Forget(Excess) ELSE UNCHANGED <<ring, dropped>>
    /\ push' = [push EXCEPT !.pc = "idle"]
    /\ UNCHANGED <<mutex, pull, played, decoded, heard>>

--------------------------------------------------------------------------------
(* The consumer: sc_audio_regulator_pull()                                 *)

(* The mutex is taken.  Playback starts when the target is reached: until  *)
(* then, silence.                                                          *)
Pull(n) ==
    /\ pull.pc = "idle"
    /\ mutex = "none"
    /\ IF ~played /\ CanRead(ring.head, ring.tail) < AudioTarget
       THEN UNCHANGED <<mutex, pull>>
       ELSE /\ mutex' = "consumer"
            /\ pull' = [pull EXCEPT !.pc = "read", !.want = n, !.head = ring.head]
    /\ UNCHANGED <<ring, push, played, decoded, heard, dropped>>

(* sc_audiobuf_read(): the copy, from the head read before...              *)
ReadCopy ==
    /\ pull.pc = "read"
    /\ pull' = [pull EXCEPT
         !.pc = "move",
         !.out = Samples(ring.tail, Least(pull.want, CanRead(pull.head, ring.tail)))]
    /\ UNCHANGED <<ring, mutex, push, played, decoded, heard, dropped>>

(* ... and the cursor of the reader.                                       *)
ReadMove ==
    /\ pull.pc = "move"
    /\ ring' = [ring EXCEPT !.tail = (@ + Len(pull.out)) % AllocSize]
    /\ mutex' = "none"
    /\ pull' = [pull EXCEPT !.pc = "play"]
    /\ UNCHANGED <<push, played, decoded, heard, dropped>>

(* What is missing is silence, and playback has started.                   *)
Play ==
    /\ pull.pc = "play"
    /\ played' = TRUE
    /\ heard' = heard \cup Real(pull.out)
    /\ pull' = [pull EXCEPT !.pc = "idle", !.out = <<>>]
    /\ UNCHANGED <<ring, mutex, push, decoded, dropped>>

AudioNext ==
    \/ \E n \in FrameLengths, gap \in BOOLEAN : ReceiveFrame(n, gap)
    \/ LoadTail \/ Copy \/ Store \/ LockToWrite \/ DropOld \/ UnlockToWrite
    \/ CheckLimit \/ SkipExcess
    \/ \E n \in PullLengths : Pull(n)
    \/ ReadCopy \/ ReadMove \/ Play

--------------------------------------------------------------------------------
AudioTypeOK ==
    /\ ring.head \in 0..AudioCapacity /\ ring.tail \in 0..AudioCapacity
    /\ ring.data \in [0..AudioCapacity -> 0..MaxSample]
    /\ mutex \in {"none", "producer", "consumer"}
    /\ push.pc \in {"idle", "load", "copy", "store", "lock", "drop", "unlock", "check", "skip"}
    /\ push.phase \in {"silence", "first", "locked", "last"}
    /\ pull.pc \in {"idle", "read", "move", "play"}
    /\ heard \subseteq 1..decoded /\ dropped \subseteq 1..decoded

(* What is on its way to the player, in the order it will be heard.        *)
Buffered ==
    LET n == CanRead(ring.head, ring.tail)
        reading == IF pull.pc = "move" THEN Len(pull.out) ELSE 0
    IN SubSeq(Samples(ring.tail, n), reading + 1, n)
OnItsWay == pull.out \o Buffered \o push.samples

(* Every sample that was decoded is played once, in its order, or was      *)
(* dropped on purpose: the ring, without a lock, neither loses, repeats    *)
(* nor overwrites any (audiobuf.c), and what the regulator asserts after   *)
(* making room holds (audio_regulator.c).                                  *)
SoundIsInOrder ==
    /\ LET way == OnItsWay IN
       /\ \A i, j \in DOMAIN way :
             i < j /\ way[i] # 0 /\ way[j] # 0 => way[i] < way[j]
       /\ \A last \in heard, next \in Real(way) : last < next
       /\ heard \cup Real(way) = (1..decoded) \ dropped
    /\ push.pc = "drop" => CanRead(ring.head, ring.tail) >= Len(push.samples)
    /\ push.pc = "check" => push.samples = <<>>
================================================================================
