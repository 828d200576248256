----------------------------- MODULE PlaybackProofs -----------------------------
(***************************************************************************)
(* What is proved of what is seen and heard (Video, Screen, Audio), for    *)
(* any setups and sizes, frames and requests, and becomes a theorem about  *)
(* the client in ClientProofs: the first state and every step keep         *)
(* ScreenInvariant, under which the frames are in order and announced      *)
(* once, the data of the events is freed and the window fits what it       *)
(* displays, and AudioInvariant, under which no sample is lost, repeated   *)
(* or overwritten in the ring that two threads use without a lock.         *)
(***************************************************************************)
EXTENDS Screen, Audio, FiniteSetTheorems, SequenceTheorems, TLAPS

(* What is under way: only in flex display mode does the client ask for a  *)
(* size.                                                                   *)
Asked == IF setup.flex THEN BOOLEAN ELSE {FALSE}
LiveSession == [size : Sizes, client : Asked]
LiveItem == [n : 0..setup.frames, session : LiveSession]
AtMostOne == {<<>>} \cup {<<item>> : item \in LiveItem}
WorkStep == {"screen", "regulator", "post", "v4l2"} \X LiveItem
SlotState == [frame : AtMostOne, session : LiveSession, prevent : Asked]
VrState == [thread : {"none", "ready", "waitQueue", "waitDate", "ended"}, queue : Seq(LiveItem),
            held : AtMostOne, stopped : BOOLEAN, range : 0..2]
V4State == [thread : {"none", "ready", "waiting", "writing", "ended"}, frame : AtMostOne,
            hasFrame : BOOLEAN, stopped : BOOLEAN, written : 0..setup.frames]

VideoTypes ==
    /\ setup \in Setups
    /\ decoder \in {"closed", "running", "stopV4l2", "joinV4l2", "stopRegulator",
                    "joinRegulator", "ended"}
    /\ stream \in [count : 0..setup.frames, session : LiveSession]
    /\ work \in [Producers -> Seq(WorkStep)]
    /\ slot \in SlotState /\ vr \in VrState /\ v4 \in V4State

(* Only the first step of a producer is about the screen or its regulator. *)
WorkInv ==
    /\ \A p \in Producers : \A i \in 2..Len(work[p]) : work[p][i][1] = "v4l2"
    /\ \A i \in 1..Len(work["regulator"]) : work["regulator"][i][1] \in {"screen", "post"}
    /\ \A i \in 1..Len(work["decoder"]) : work["decoder"][i][1] = "regulator" => setup.regulated
    /\ work["regulator"] # <<>> => vr.thread = "ready"
    /\ decoder = "closed" => work["decoder"] = <<>> /\ vr.thread = "none"

WakeInv == SinksWakeUp

(* The numbers of the frames on their way.                                 *)
Held(s) == {s[i].n : i \in 1..Len(s)} \ {0}
HeadingOf(w) == IF w # <<>> /\ w[1][1] \in {"screen", "regulator"} THEN {w[1][2].n} \ {0} ELSE {}
Heading(p) == HeadingOf(work[p])
Delayed == Heading("regulator") \cup Held(vr.held) \cup Held(vr.queue)
Sorted(s) == \A i, j \in 1..Len(s) : i < j /\ s[i].n # 0 /\ s[j].n # 0 => s[i].n < s[j].n

(* The clock of the regulator has no range before the first frame.         *)
RangeInv ==
    /\ vr.held # <<>> <=> vr.thread = "waitDate"
    /\ vr.held # <<>> => vr.held[1].n # 0
    /\ vr.range = 0 => Delayed = {}
    /\ ~setup.regulated => vr.range = 0

Before(s, t) == \A m \in s, n \in t : m < n
InLine(shown, kept, new, given, dated, queued, decoded_) ==
    /\ Before(shown, kept \cup new \cup given \cup dated \cup queued \cup decoded_)
    /\ Before(kept, new \cup given \cup dated \cup queued \cup decoded_)
    /\ Before(new, given \cup dated \cup queued \cup decoded_)
    /\ Before(given, dated \cup queued \cup decoded_)
    /\ Before(dated, queued \cup decoded_)
    /\ Before(queued, decoded_)
OnTheWay == Held(scr.frame) \cup Held(scr.resume) \cup Held(slot.frame) \cup Delayed
            \cup Heading("decoder")
WayInv ==
    /\ InLine(Held(scr.frame), Held(scr.resume), Held(slot.frame), Heading("regulator"),
              Held(vr.held), Held(vr.queue), Heading("decoder"))
    /\ Sorted(vr.queue)
    /\ OnTheWay \subseteq 1..stream.count

(* A frame that is pushed at once has no frame before it in the regulator. *)
StraightInv ==
    /\ \A i \in 1..Len(work["decoder"]) :
          work["decoder"][i][1] = "screen" /\ work["decoder"][i][2].n # 0 => Delayed = {}
    /\ ~scr.paused => scr.resume = <<>>

PostsFirst(w) == w # <<>> /\ w[1][1] = "post"
Posting(p) == PostsFirst(work[p])
IsOpened == scr.shown \/ \E i \in 1..Len(events) : events[i].type = "open"
AnnounceInv ==
    /\ decoder = "closed" => slot.frame = <<>>
    /\ ui = "loop" =>
         /\ decoder # "closed" => IsOpened
         /\ \A i, j \in 1..Len(events) : events[i].type = "frame" /\ events[j].type = "frame" => i = j
         /\ \A i \in 1..Len(events) : events[i].type = "frame" =>
               /\ \A p \in Producers : ~Posting(p)
               /\ slot.frame # <<>>
               /\ scr.shown \/ \E j \in 1..i : events[j].type = "open"
         /\ ~(Posting("decoder") /\ Posting("regulator"))
         /\ \A p \in Producers : Posting(p) => slot.frame # <<>>
         /\ slot.frame # <<>> => \/ \E i \in 1..Len(events) : events[i].type = "frame"
                                 \/ \E p \in Producers : Posting(p)
                                 \/ vr.stopped \/ decoder # "running"

Pairs == Nat \X Nat
OnePair == {<<>>} \cup {<<p>> : p \in Pairs}
ScrState == [shown : BOOLEAN, paused : BOOLEAN, frame : AtMostOne, resume : AtMostOne,
             size : Pairs, content : Pairs, orientation : 0..7, pending : BOOLEAN,
             windowed : Pairs, tracked : OnePair, disconnected : BOOLEAN, request : OnePair]
WindowState == [flags : SUBSET {"fullscreen", "maximized"}, fit : Pairs]
CounterState == [thread : {"none", "running", "waiting", "ended"}, created : BOOLEAN,
                 started : BOOLEAN, interrupted : BOOLEAN]
DiscState == [thread : {"none", "loading", "waiting", "ended"}, interrupted : BOOLEAN]
PlainTypes == {"frame", "restored", "quit", "disconnected", "icon", "timeout"}
SizedTypes == IF setup.flex THEN {"open", "resized"} ELSE {"open"}
EventState == [type : PlainTypes] \cup [type : SizedTypes, size : Sizes]
ScreenTypes ==
    /\ ui \in {"loop", "window", "hide", "joinDemuxer", "join", "destroy", "end"}
    /\ scr \in ScrState /\ window \in WindowState /\ counter \in CounterState
    /\ disc \in DiscState /\ events \in Seq(EventState) /\ steps \in Nat
ScrInv ==
    /\ scr.request # <<>> => setup.flex
    /\ scr.frame # <<>> => scr.size # <<0, 0>>

FitInv ==
    ui = "loop" /\ ~setup.flex =>
       /\ scr.shown /\ ~scr.pending => window.fit = scr.content
       /\ scr.pending \/ ~IsWindowed => scr.shown
       /\ scr.pending /\ IsWindowed => \E i \in 1..Len(events) : events[i].type = "restored"

IsFreed(type) == type \in freed
FreedInv ==
    /\ ui \in {"join", "destroy", "end"} => decoder = "ended"
    /\ ui \in {"destroy", "end"} => disc.thread \in {"none", "ended"}
    /\ decoder # "closed" => "open" \in freed \/ \E i \in 1..Len(events) : events[i].type = "open"
    /\ scr.shown \/ ui = "window" => "open" \in freed
    /\ ui = "end" => \A i \in 1..Len(events) : events[i].type \in {"open", "icon"}
                                               => events[i].type \in freed

--------------------------------------------------------------------------------
(* Sequences                                                               *)

(* What a sequence loses and keeps when its head is taken.                 *)
LEMMA TailIs ==
    ASSUME NEW S, NEW w \in Seq(S), w # <<>>
    PROVE  /\ Len(w) \in Nat \ {0} /\ Head(w) = w[1] /\ w[1] \in S
           /\ Tail(w) \in Seq(S) /\ Len(Tail(w)) = Len(w) - 1
           /\ \A i \in 1..Len(w) - 1 : Tail(w)[i] = w[i + 1]
  BY HeadTailProperties, ElementOfSeq, EmptySeq, LenProperties

(* The head of a sequence is replaced.                                     *)
LEMMA ReplacedIs ==
    ASSUME NEW S, NEW w \in Seq(S), w # <<>>, NEW x \in S
    PROVE  /\ <<x>> \o Tail(w) \in Seq(S) /\ Len(<<x>> \o Tail(w)) = Len(w)
           /\ (<<x>> \o Tail(w))[1] = x /\ <<x>> \o Tail(w) # <<>>
           /\ \A i \in 2..Len(w) : (<<x>> \o Tail(w))[i] = w[i]
<1> DEFINE r == <<x>> \o Tail(w)
<1>1. <<x>> \in Seq(S) /\ Len(<<x>>) = 1 /\ <<x>>[1] = x
  OBVIOUS
<1>2. r \in Seq(S) /\ Len(r) = Len(w) /\ r[1] = x
  BY <1>1, TailIs, ConcatProperties
<1>3. ASSUME NEW i \in 2..Len(w) PROVE r[i] = w[i]
  <2>1. r[i] = Tail(w)[i - 1]
    BY <1>1, TailIs, ConcatProperties
  <2>2. i - 1 \in 1..Len(w) - 1 /\ (i - 1) + 1 = i
    BY TailIs
  <2> QED BY <2>1, <2>2, TailIs
<1>4. r # <<>>
  BY <1>2, TailIs, EmptySeq
<1> QED BY <1>2, <1>3, <1>4

(* What is appended comes last; the rest keeps its place.                  *)
LEMMA AppendIs ==
    ASSUME NEW S, NEW w \in Seq(S), NEW x \in S
    PROVE  /\ Append(w, x) \in Seq(S) /\ Len(Append(w, x)) = Len(w) + 1 /\ Len(w) \in Nat
           /\ Append(w, x)[Len(w) + 1] = x
           /\ \A i \in 1..Len(w) : Append(w, x)[i] = w[i]
  BY AppendProperties, LenProperties

--------------------------------------------------------------------------------
(* The work of the producers                                               *)

WorkShape ==
    /\ work \in [Producers -> Seq(WorkStep)]
    /\ \A p \in Producers : \A i \in 2..Len(work[p]) : work[p][i][1] = "v4l2"

(* The first step is done, is replaced by its continuation, or everything  *)
(* is given up.                                                            *)
LEMMA DoneIs ==
    ASSUME WorkShape, NEW p \in Producers, work[p] # <<>>, work' = Done(p)
    PROVE  /\ work' \in [Producers -> Seq(WorkStep)]
           /\ \A q \in Producers \ {p} : work'[q] = work[q]
           /\ Len(work'[p]) = Len(work[p]) - 1 /\ Len(work[p]) \in Nat
           /\ \A i \in 1..Len(work'[p]) : work'[p][i] = work[p][i + 1] /\ work'[p][i][1] = "v4l2"
<1>1. work[p] \in Seq(WorkStep)
  BY DEF WorkShape
<1>2. /\ Len(work[p]) \in Nat \ {0} /\ Tail(work[p]) \in Seq(WorkStep)
      /\ Len(Tail(work[p])) = Len(work[p]) - 1
      /\ \A i \in 1..Len(work[p]) - 1 : Tail(work[p])[i] = work[p][i + 1]
  BY <1>1, TailIs
<1>3. work'[p] = Tail(work[p]) /\ work' \in [Producers -> Seq(WorkStep)]
      /\ \A q \in Producers \ {p} : work'[q] = work[q]
  BY <1>2 DEF WorkShape, Done
<1>4. ASSUME NEW i \in 1..Len(work'[p])
      PROVE  work'[p][i] = work[p][i + 1] /\ work'[p][i][1] = "v4l2"
  <2>1. i + 1 \in 2..Len(work[p]) /\ i \in 1..Len(work[p]) - 1
    BY <1>2, <1>3
  <2> QED BY <1>2, <1>3, <2>1 DEF WorkShape
<1> QED BY <1>2, <1>3, <1>4

(* The first step of p goes on as x.                                       *)
LEMMA ContinuedIs ==
    ASSUME WorkShape, NEW p \in Producers, work[p] # <<>>, NEW x \in WorkStep,
           work' = [work EXCEPT ![p] = <<x>> \o Tail(work[p])]
    PROVE  /\ work' \in [Producers -> Seq(WorkStep)]
           /\ \A q \in Producers \ {p} : work'[q] = work[q]
           /\ Len(work'[p]) = Len(work[p]) /\ work'[p] # <<>> /\ work'[p][1] = x
           /\ \A i \in 2..Len(work'[p]) : work'[p][i] = work[p][i]
<1>1. work[p] \in Seq(WorkStep)
  BY DEF WorkShape
<1>2. work'[p] = <<x>> \o Tail(work[p]) /\ \A q \in Producers \ {p} : work'[q] = work[q]
  BY DEF WorkShape
<1>3. work' \in [Producers -> Seq(WorkStep)]
  BY <1>1, ReplacedIs DEF WorkShape
<1> QED BY <1>1, <1>2, <1>3, ReplacedIs

(* Everything that p had to do is given up.                                *)
LEMMA GivenUpIs ==
    ASSUME WorkShape, NEW p \in Producers, work' = [work EXCEPT ![p] = <<>>]
    PROVE  /\ work' \in [Producers -> Seq(WorkStep)]
           /\ \A q \in Producers \ {p} : work'[q] = work[q]
           /\ work'[p] = <<>> /\ Len(work'[p]) = 0
<1>1. <<>> \in Seq(WorkStep) /\ Len(<<>>) = 0
  BY EmptySeq
<1> QED BY <1>1 DEF WorkShape

(* The regulator gives a frame or a session to the screen.                 *)
LEMMA GivenIs ==
    ASSUME WorkShape, NEW p \in Producers, NEW x \in WorkStep,
           work' = [work EXCEPT ![p] = <<x>>]
    PROVE  /\ work' \in [Producers -> Seq(WorkStep)]
           /\ \A q \in Producers \ {p} : work'[q] = work[q]
           /\ work'[p] # <<>> /\ Len(work'[p]) = 1 /\ work'[p][1] = x
<1>1. <<x>> \in Seq(WorkStep) /\ Len(<<x>>) = 1 /\ <<x>> # <<>> /\ <<x>>[1] = x
  OBVIOUS
<1> QED BY <1>1 DEF WorkShape

(* What the decoder gives to its sinks.                                    *)
LEMMA RouteIs ==
    ASSUME NEW item \in LiveItem
    PROVE  LET x == <<IF setup.regulated THEN "regulator" ELSE "screen", item>> IN
           /\ Route(item) \in Seq(WorkStep) /\ Len(Route(item)) \in {1, 2}
           /\ Route(item)[1] = x
           /\ Len(Route(item)) = 2 => Route(item)[2] = <<"v4l2", item>>
<1> DEFINE x == <<IF setup.regulated THEN "regulator" ELSE "screen", item>>
           y == <<"v4l2", item>>
<1>1. x \in WorkStep /\ y \in WorkStep
  BY DEF WorkStep
<1>2. Route(item) = <<x>> \o (IF setup.v4l2 /\ IsFrame(item) THEN <<y>> ELSE <<>>)
  BY DEF Route
<1> HIDE DEF x, y
<1>3. /\ <<x>> \o <<y>> \in Seq(WorkStep) /\ Len(<<x>> \o <<y>>) = 2
      /\ (<<x>> \o <<y>>)[1] = x /\ (<<x>> \o <<y>>)[2] = y
  <2>1. <<x>> \in Seq(WorkStep) /\ <<y>> \in Seq(WorkStep) /\ Len(<<x>>) = 1 /\ Len(<<y>>) = 1
        /\ <<x>>[1] = x /\ <<y>>[1] = y
    BY <1>1
  <2> QED BY <2>1, ConcatProperties
<1>4. /\ <<x>> \o <<>> \in Seq(WorkStep) /\ Len(<<x>> \o <<>>) = 1 /\ (<<x>> \o <<>>)[1] = x
  <2>1. <<x>> \in Seq(WorkStep) /\ Len(<<x>>) = 1 /\ <<x>>[1] = x
    BY <1>1
  <2> QED BY <2>1, ConcatEmptySeq
<1>5. CASE setup.v4l2 /\ IsFrame(item)
  BY <1>2, <1>3, <1>5 DEF x, y
<1>6. CASE ~(setup.v4l2 /\ IsFrame(item))
  BY <1>2, <1>4, <1>6 DEF x, y
<1> QED BY <1>5, <1>6

--------------------------------------------------------------------------------
(* The types of the video                                                  *)

(* The types depend on the setup only.                                     *)
LEMMA LiveSame ==
    ASSUME setup' = setup
    PROVE  /\ LiveSession' = LiveSession /\ LiveItem' = LiveItem /\ AtMostOne' = AtMostOne
           /\ WorkStep' = WorkStep /\ SlotState' = SlotState /\ VrState' = VrState
           /\ V4State' = V4State /\ Asked' = Asked
<1>1. LiveSession' = LiveSession /\ Asked' = Asked
  BY DEF LiveSession, Asked
<1>2. LiveItem' = LiveItem
  BY <1>1 DEF LiveItem
<1>3. AtMostOne' = AtMostOne /\ WorkStep' = WorkStep
  BY <1>2 DEF AtMostOne, WorkStep
<1> QED BY <1>1, <1>2, <1>3 DEF SlotState, VrState, V4State

(* The options are what VideoOK says.                                      *)
LEMMA SetupIs ==
    ASSUME VideoTypes
    PROVE  /\ setup.regulated \in BOOLEAN /\ setup.v4l2 \in BOOLEAN /\ setup.flex \in BOOLEAN
           /\ setup.frames \in Nat /\ setup.steps \in Nat
  BY VideoOK DEF VideoTypes, VideoOK

(* The item at the head of a producer.                                     *)
LEMMA ItemIs ==
    ASSUME VideoTypes, NEW p \in Producers, NEW step, Next_(p, step)
    PROVE  /\ work[p] # <<>> /\ work[p] \in Seq(WorkStep) /\ Len(work[p]) \in Nat \ {0}
           /\ work[p][1] \in WorkStep /\ work[p][1][1] = step
           /\ ItemOf(p) = work[p][1][2] /\ ItemOf(p) \in LiveItem
           /\ work[p][1] = <<step, ItemOf(p)>>
<1>1. work[p] # <<>> /\ work[p] \in Seq(WorkStep)
  BY DEF VideoTypes, Next_
<1>2. Len(work[p]) \in Nat \ {0} /\ Head(work[p]) = work[p][1] /\ work[p][1] \in WorkStep
  BY <1>1, TailIs
<1>3. work[p][1][1] = step /\ ItemOf(p) = work[p][1][2]
  BY <1>2 DEF Next_, ItemOf
<1>4. ItemOf(p) \in LiveItem /\ work[p][1] = <<work[p][1][1], work[p][1][2]>>
  BY <1>2, <1>3 DEF WorkStep
<1> QED BY <1>1, <1>2, <1>3, <1>4

(* The shape is part of the invariant.                                     *)
LEMMA WorkShapeIs == ASSUME VideoTypes, WorkInv PROVE WorkShape
  BY DEF VideoTypes, WorkInv, WorkShape

(* What may change of the video without a frame or a session moving.       *)
LEMMA PlainVideo ==
    ASSUME VideoTypes, UNCHANGED <<setup, stream, work, slot>>,
           decoder' \in {"closed", "running", "stopV4l2", "joinV4l2", "stopRegulator",
                         "joinRegulator", "ended"},
           vr' \in VrState, v4' \in V4State
    PROVE  VideoTypes'
  BY LiveSame DEF VideoTypes

(* A sink that fails.                                                      *)
LEMMA FailIs ==
    ASSUME VideoTypes, WorkInv, NEW p \in Producers, Fail(p)
    PROVE  /\ work' \in [Producers -> Seq(WorkStep)]
           /\ \A q \in Producers \ {p} : work'[q] = work[q]
           /\ work'[p] = <<>> /\ Len(work'[p]) = 0
           /\ vr' \in VrState /\ decoder' \in {decoder, "stopV4l2"}
           /\ vr' = [vr EXCEPT !.stopped = vr'.stopped] /\ (vr'.stopped = vr.stopped \/ vr'.stopped)
           /\ p = "decoder" => decoder' = "stopV4l2" /\ vr' = vr
           /\ p = "regulator" => decoder' = decoder /\ vr'.stopped
<1>1. work' = [work EXCEPT ![p] = <<>>]
  BY DEF Fail
<1>2. vr \in VrState
  BY DEF VideoTypes
<1>3. /\ vr' \in VrState /\ decoder' \in {decoder, "stopV4l2"}
      /\ vr' = [vr EXCEPT !.stopped = vr'.stopped] /\ (vr'.stopped = vr.stopped \/ vr'.stopped)
      /\ p = "decoder" => decoder' = "stopV4l2" /\ vr' = vr
      /\ p = "regulator" => decoder' = decoder /\ vr'.stopped
  BY <1>2 DEF Fail, VrState, Producers
<1> QED BY <1>1, <1>3, GivenUpIs, WorkShapeIs

(* A push to the screen keeps the types, and so do the other steps below.  *)
LEMMA ScreenPushTypes ==
    ASSUME VideoTypes, WorkInv, NEW p \in Producers, PushToScreen(p)
    PROVE  VideoTypes'
<1> DEFINE item == ItemOf(p)
<1>0. UNCHANGED <<setup, decoder, stream, vr, v4>>
  BY DEF PushToScreen
<1>1. work[p] # <<>> /\ item \in LiveItem /\ <<"post", item>> \in WorkStep
  BY ItemIs DEF PushToScreen, WorkStep
<1>2. slot \in SlotState
  BY DEF VideoTypes
<1>3. slot' \in SlotState
  <2>1. CASE slot' = [slot EXCEPT !.frame = <<item>>, !.prevent = slot.session.client]
    BY <1>1, <1>2, <2>1 DEF SlotState, AtMostOne, LiveSession
  <2>2. CASE slot' = [slot EXCEPT !.session = item.session]
    BY <1>1, <1>2, <2>2 DEF SlotState, LiveItem
  <2> QED BY <2>1, <2>2 DEF PushToScreen
<1>4. work' \in [Producers -> Seq(WorkStep)]
  <2>1. CASE work' = Done(p)
    BY <1>1, <2>1, DoneIs, WorkShapeIs
  <2>2. CASE work' = [work EXCEPT ![p] = <<<<"post", item>>>> \o Tail(work[p])]
    BY <1>1, <2>2, ContinuedIs, WorkShapeIs
  <2> QED BY <2>1, <2>2 DEF PushToScreen, VideoTypes
<1> QED BY <1>0, <1>3, <1>4, LiveSame DEF VideoTypes

LEMMA PostTypes ==
    ASSUME VideoTypes, WorkInv, NEW p \in Producers, PostNewFrame(p)
    PROVE  VideoTypes'
<1>0. UNCHANGED <<setup, stream, slot, v4>> /\ work[p] # <<>>
  BY DEF PostNewFrame, Next_
<1>1. /\ work' \in [Producers -> Seq(WorkStep)] /\ vr' \in VrState
      /\ decoder' \in {decoder, "stopV4l2"}
  <2>1. CASE Fail(p)
    BY <2>1, FailIs
  <2>2. CASE work' = Done(p) /\ UNCHANGED <<decoder, vr>>
    BY <1>0, <2>2, DoneIs, WorkShapeIs DEF VideoTypes
  <2> QED BY <2>1, <2>2 DEF PostNewFrame
<1> QED BY <1>0, <1>1, LiveSame DEF VideoTypes

LEMMA V4PushTypes ==
    ASSUME VideoTypes, WorkInv, PushToV4l2("decoder")
    PROVE  VideoTypes'
<1> DEFINE item == ItemOf("decoder")
<1>d. "decoder" \in Producers
  BY DEF Producers
<1>0. UNCHANGED <<setup, decoder, stream, slot, vr>> /\ work["decoder"] # <<>>
      /\ work' = Done("decoder")
  BY DEF PushToV4l2, Next_
<1>1. item \in LiveItem
  BY <1>d, ItemIs DEF PushToV4l2
<1>2. v4 \in V4State
  BY DEF VideoTypes
<1>3. v4' \in V4State
  <2> HIDE DEF item
  <2>1. CASE v4' = [v4 EXCEPT !.frame = <<item>>]
    BY <1>1, <1>2, <2>1 DEF V4State, AtMostOne
  <2>2. CASE v4' = [v4 EXCEPT !.frame = <<item>>, !.hasFrame = TRUE,
                              !.thread = IF v4.thread = "waiting" THEN "ready" ELSE v4.thread]
    BY <1>1, <1>2, <2>2 DEF V4State, AtMostOne
  <2> QED BY <1>2, <2>1, <2>2 DEF PushToV4l2, item
<1>4. work' \in [Producers -> Seq(WorkStep)]
  BY <1>0, <1>d, DoneIs, WorkShapeIs
<1> QED BY <1>0, <1>3, <1>4, LiveSame DEF VideoTypes

(* The item is queued, and wakes up the regulator, or is pushed at once.   *)
LEMMA EnqueuedIs ==
    ASSUME VideoTypes, NEW item \in LiveItem, NEW range \in 0..2
    PROVE  /\ [Enqueued(item) EXCEPT !.range = range] \in VrState
           /\ Enqueued(item) \in VrState
           /\ Enqueued(item).queue = Append(vr.queue, item)
           /\ Enqueued(item).thread = IF vr.thread = "waitQueue" THEN "ready" ELSE vr.thread
           /\ Enqueued(item).held = vr.held /\ Enqueued(item).stopped = vr.stopped
           /\ Enqueued(item).range = vr.range
<1>1. vr \in VrState
  BY DEF VideoTypes
<1>2. Append(vr.queue, item) \in Seq(LiveItem)
  BY <1>1 DEF VrState
<1> QED BY <1>1, <1>2 DEF Enqueued, VrState

(* What a push to the regulator does: it fails, queues the item, or goes on. *)
LEMMA RegulatorIs ==
    ASSUME VideoTypes, WorkInv, PushToRegulator("decoder")
    PROVE  LET item == ItemOf("decoder")
               range == IF vr.range < 2 THEN vr.range + 1 ELSE 2
               next == IF IsFrame(item) THEN range ELSE vr.range
           IN /\ item \in LiveItem /\ next \in 0..2
              /\ \/ vr.stopped /\ Fail("decoder")
                 \/ /\ vr' = [Enqueued(item) EXCEPT !.range = next]
                    /\ work' = Done("decoder") /\ UNCHANGED decoder
                    /\ IsFrame(item) => range > 1
                 \/ /\ IsFrame(item) /\ range = 1 /\ vr.range = 0
                    /\ vr' = [vr EXCEPT !.range = range] /\ UNCHANGED decoder
                    /\ work' = [work EXCEPT !["decoder"] = <<<<"screen", item>>>>
                                                           \o Tail(work["decoder"])]
<1> DEFINE item == ItemOf("decoder")
           range == IF vr.range < 2 THEN vr.range + 1 ELSE 2
           next == IF IsFrame(item) THEN range ELSE vr.range
<1>d. "decoder" \in Producers
  BY DEF Producers
<1>1. item \in LiveItem
  BY <1>d, ItemIs DEF PushToRegulator
<1>2. vr.range \in 0..2 /\ vr \in VrState
  BY DEF VideoTypes, VrState
<1>3. range \in 1..2 /\ next \in 0..2 /\ (range = 1 => vr.range = 0)
  BY <1>2
<1>4. ~IsFrame(item) => Enqueued(item) = [Enqueued(item) EXCEPT !.range = vr.range]
  <2>1. Enqueued(item) \in VrState /\ Enqueued(item).range = vr.range
    BY <1>1, <1>2, EnqueuedIs
  <2> HIDE DEF item
  <2> QED BY <2>1 DEF VrState
<1>5. CASE vr.stopped
  BY <1>1, <1>3, <1>5 DEF PushToRegulator
<1>6. CASE ~vr.stopped /\ ~IsFrame(item)
  <2>1. vr' = Enqueued(item) /\ work' = Done("decoder") /\ UNCHANGED decoder
    BY <1>6 DEF PushToRegulator
  <2> QED BY <1>1, <1>3, <1>4, <1>6, <2>1
<1>7. CASE ~vr.stopped /\ IsFrame(item) /\ range = 1
  <2>1. /\ vr' = [vr EXCEPT !.range = range] /\ UNCHANGED decoder
        /\ work' = [work EXCEPT !["decoder"] = <<<<"screen", item>>>> \o Tail(work["decoder"])]
    BY <1>7 DEF PushToRegulator
  <2> QED BY <1>1, <1>3, <1>7, <2>1
<1>8. CASE ~vr.stopped /\ IsFrame(item) /\ range # 1
  <2>1. /\ vr' = [Enqueued(item) EXCEPT !.range = range]
        /\ work' = Done("decoder") /\ UNCHANGED decoder
    BY <1>8 DEF PushToRegulator
  <2> QED BY <1>1, <1>3, <1>8, <2>1
<1> QED BY <1>5, <1>6, <1>7, <1>8

LEMMA RegulatorTypes ==
    ASSUME VideoTypes, WorkInv, PushToRegulator("decoder")
    PROVE  VideoTypes'
<1> DEFINE item == ItemOf("decoder")
           range == IF vr.range < 2 THEN vr.range + 1 ELSE 2
           next == IF IsFrame(item) THEN range ELSE vr.range
<1>d. "decoder" \in Producers
  BY DEF Producers
<1>0. UNCHANGED <<setup, stream, slot, v4>> /\ work["decoder"] # <<>>
  BY DEF PushToRegulator, Next_
<1>1. item \in LiveItem /\ next \in 0..2 /\ range \in 0..2 /\ <<"screen", item>> \in WorkStep
  BY RegulatorIs, <1>d DEF WorkStep, VideoTypes, VrState
<1> HIDE DEF item, next
<1>2. CASE Fail("decoder")
  BY <1>0, <1>2, <1>d, FailIs, LiveSame DEF VideoTypes
<1>3. CASE vr' = [Enqueued(item) EXCEPT !.range = next] /\ work' = Done("decoder")
           /\ UNCHANGED decoder
  <2>1. vr' \in VrState
    BY <1>1, <1>3, EnqueuedIs
  <2>2. work' \in [Producers -> Seq(WorkStep)]
    BY <1>0, <1>3, <1>d, DoneIs, WorkShapeIs
  <2> QED BY <1>0, <1>3, <2>1, <2>2, LiveSame DEF VideoTypes
<1>4. CASE /\ vr' = [vr EXCEPT !.range = range] /\ UNCHANGED decoder
           /\ work' = [work EXCEPT !["decoder"] = <<<<"screen", item>>>> \o Tail(work["decoder"])]
  <2>1. vr' \in VrState
    BY <1>1, <1>4 DEF VideoTypes, VrState
  <2> QED BY <1>0, <1>1, <1>4, <2>1, <1>d, ContinuedIs, WorkShapeIs, LiveSame
      DEF VideoTypes
<1> QED BY <1>2, <1>3, <1>4, RegulatorIs DEF item, next

(* The thread of the regulator: it ends, waits, holds a frame until its    *)
(* date, or gives an item to the screen.                                   *)
LEMMA FlushedIs ==
    ASSUME VideoTypes
    PROVE  /\ VrFlushed \in VrState /\ VrFlushed.queue = <<>> /\ VrFlushed.held = <<>>
           /\ VrFlushed.thread = "ended" /\ VrFlushed.stopped = vr.stopped
           /\ VrFlushed.range = vr.range
<1>1. <<>> \in Seq(LiveItem)
  BY EmptySeq
<1> QED BY <1>1 DEF VrFlushed, VideoTypes, VrState, AtMostOne

(* The thread of the regulator ends, waits, holds a frame or gives a session. *)
LEMMA TakeIs ==
    ASSUME VideoTypes, VrTake
    PROVE  \/ vr.stopped /\ vr' = VrFlushed /\ work' = work
           \/ /\ ~vr.stopped /\ vr.queue = <<>> /\ work' = work
              /\ vr' = [vr EXCEPT !.thread = "waitQueue"]
           \/ /\ ~vr.stopped /\ vr.queue # <<>> /\ vr.queue[1] \in LiveItem
              /\ IsFrame(vr.queue[1]) /\ work' = work
              /\ vr' = [vr EXCEPT !.queue = Tail(vr.queue), !.held = <<vr.queue[1]>>,
                                  !.thread = "waitDate"]
           \/ /\ ~vr.stopped /\ vr.queue # <<>> /\ vr.queue[1] \in LiveItem
              /\ ~IsFrame(vr.queue[1])
              /\ vr' = [vr EXCEPT !.queue = Tail(vr.queue)]
              /\ work' = [work EXCEPT !["regulator"] = <<<<"screen", vr.queue[1]>>>>]
<1>1. vr \in VrState /\ vr.queue \in Seq(LiveItem)
  BY DEF VideoTypes, VrState
<1>2. vr.queue # <<>> => vr.queue[1] \in LiveItem /\ Head(vr.queue) = vr.queue[1]
  BY <1>1, TailIs
<1>3. CASE vr.stopped
  BY <1>3 DEF VrTake
<1>4. CASE ~vr.stopped /\ vr.queue = <<>>
  BY <1>4 DEF VrTake
<1>5. CASE ~vr.stopped /\ vr.queue # <<>> /\ IsFrame(vr.queue[1])
  BY <1>2, <1>5 DEF VrTake
<1>6. CASE ~vr.stopped /\ vr.queue # <<>> /\ ~IsFrame(vr.queue[1])
  BY <1>2, <1>6 DEF VrTake
<1> QED BY <1>3, <1>4, <1>5, <1>6

LEMMA TakeTypes ==
    ASSUME VideoTypes, WorkInv, VrTake
    PROVE  VideoTypes'
<1>0. UNCHANGED <<setup, decoder, stream, slot, v4>>
  BY DEF VrTake
<1>r. "regulator" \in Producers /\ vr \in VrState /\ vr.queue \in Seq(LiveItem)
  BY DEF Producers, VideoTypes, VrState
<1>1. vr' \in VrState
  <2>1. vr.queue # <<>> => Tail(vr.queue) \in Seq(LiveItem)
    BY <1>r, TailIs
  <2>2. CASE vr' = VrFlushed
    BY <2>2, FlushedIs
  <2>3. CASE vr' = [vr EXCEPT !.thread = "waitQueue"]
    BY <1>r, <2>3 DEF VrState
  <2>4. CASE /\ vr.queue # <<>> /\ vr.queue[1] \in LiveItem
             /\ vr' = [vr EXCEPT !.queue = Tail(vr.queue), !.held = <<vr.queue[1]>>,
                                 !.thread = "waitDate"]
    BY <1>r, <2>1, <2>4 DEF VrState, AtMostOne
  <2>5. CASE vr.queue # <<>> /\ vr' = [vr EXCEPT !.queue = Tail(vr.queue)]
    BY <1>r, <2>1, <2>5 DEF VrState
  <2> QED BY <2>2, <2>3, <2>4, <2>5, TakeIs
<1>2. work' \in [Producers -> Seq(WorkStep)]
  <2>1. CASE /\ vr.queue[1] \in LiveItem
             /\ work' = [work EXCEPT !["regulator"] = <<<<"screen", vr.queue[1]>>>>]
    <3>1. <<"screen", vr.queue[1]>> \in WorkStep
      BY <2>1 DEF WorkStep
    <3> QED BY <1>r, <2>1, <3>1, GivenIs, WorkShapeIs
  <2> QED BY <2>1, TakeIs DEF VideoTypes
<1> QED BY <1>0, <1>1, <1>2, LiveSame DEF VideoTypes

(* The held frame is given at its date, or flushed.                        *)
LEMMA DateIs ==
    ASSUME VideoTypes, RangeInv, VrDate
    PROVE  \/ vr.stopped /\ vr' = VrFlushed /\ work' = work
           \/ /\ ~vr.stopped /\ vr.held # <<>> /\ vr.held[1] \in LiveItem
              /\ vr' = [vr EXCEPT !.held = <<>>, !.thread = "ready"]
              /\ work' = [work EXCEPT !["regulator"] = <<<<"screen", vr.held[1]>>>>]
<1>1. vr.held \in AtMostOne /\ vr.held # <<>>
  BY DEF VideoTypes, VrState, RangeInv, VrDate
<1>2. vr.held[1] \in LiveItem
  BY <1>1 DEF AtMostOne
<1> QED BY <1>1, <1>2 DEF VrDate

LEMMA DateTypes ==
    ASSUME VideoTypes, WorkInv, RangeInv, VrDate
    PROVE  VideoTypes'
<1>0. UNCHANGED <<setup, decoder, stream, slot, v4>>
  BY DEF VrDate
<1>r. "regulator" \in Producers /\ vr \in VrState
  BY DEF Producers, VideoTypes
<1>1. CASE vr' = VrFlushed /\ work' = work
  BY <1>0, <1>1, FlushedIs, LiveSame DEF VideoTypes
<1>2. CASE /\ vr.held[1] \in LiveItem
           /\ vr' = [vr EXCEPT !.held = <<>>, !.thread = "ready"]
           /\ work' = [work EXCEPT !["regulator"] = <<<<"screen", vr.held[1]>>>>]
  <2>1. <<"screen", vr.held[1]>> \in WorkStep
    BY <1>2 DEF WorkStep
  <2>2. vr' \in VrState
    BY <1>2, <1>r DEF VrState, AtMostOne
  <2> QED BY <1>0, <1>2, <1>r, <2>1, <2>2, GivenIs, WorkShapeIs, LiveSame DEF
      VideoTypes
<1> QED BY <1>1, <1>2, DateIs

(* A new frame, or a new session.                                          *)
LEMMA DecodeIs ==
    ASSUME VideoTypes, Decode
    PROVE  \E item \in LiveItem :
              /\ work' = [work EXCEPT !["decoder"] = Route(item)]
              /\ item.n \in {0, stream.count + 1} /\ stream'.count = stream.count + 1
              /\ stream' \in [count : 0..setup.frames, session : LiveSession]
<1>0. stream.count \in Nat /\ stream.count + 1 \in 0..setup.frames
      /\ stream \in [count : 0..setup.frames, session : LiveSession]
  BY SetupIs DEF VideoTypes, Decode
<1>1. CASE /\ stream' = [stream EXCEPT !.count = stream.count + 1]
           /\ work' = [work EXCEPT !["decoder"] = Route([n |-> stream.count + 1,
                                                       session |-> stream.session])]
  <2> DEFINE item == [n |-> stream.count + 1, session |-> stream.session]
  <2>1. item \in LiveItem /\ item.n = stream.count + 1
    BY <1>0 DEF LiveItem
  <2>2. stream'.count = stream.count + 1
        /\ stream' \in [count : 0..setup.frames, session : LiveSession]
    BY <1>0, <1>1
  <2> QED BY <1>1, <2>1, <2>2
<1>2. ASSUME NEW session \in Session, session.client => setup.flex,
             stream' = [count |-> stream.count + 1, session |-> session],
             work' = [work EXCEPT !["decoder"] = Route([n |-> 0, session |-> session])]
      PROVE  \E item \in LiveItem :
                /\ work' = [work EXCEPT !["decoder"] = Route(item)]
                /\ item.n \in {0, stream.count + 1} /\ stream'.count = stream.count + 1
                /\ stream' \in [count : 0..setup.frames, session : LiveSession]
  <2> DEFINE item == [n |-> 0, session |-> session]
  <2>1. session \in LiveSession
    BY <1>2, SetupIs DEF Session, LiveSession, Asked
  <2>2. item \in LiveItem /\ item.n = 0
    BY <2>1, SetupIs DEF LiveItem
  <2>3. stream'.count = stream.count + 1
        /\ stream' \in [count : 0..setup.frames, session : LiveSession]
    BY <1>0, <1>2, <2>1
  <2> QED BY <1>2, <2>2, <2>3
<1> QED BY <1>1, <1>2 DEF Decode

LEMMA DecodeTypes ==
    ASSUME VideoTypes, Decode
    PROVE  VideoTypes'
<1>0. UNCHANGED <<setup, decoder, slot, vr, v4>>
  BY DEF Decode
<1>1. PICK item \in LiveItem :
              /\ work' = [work EXCEPT !["decoder"] = Route(item)]
              /\ stream' \in [count : 0..setup.frames, session : LiveSession]
  BY DecodeIs
<1>2. work' \in [Producers -> Seq(WorkStep)]
  BY <1>1, RouteIs DEF VideoTypes
<1> QED BY <1>0, <1>1, <1>2, LiveSame DEF VideoTypes

(* The types of the video, for every step of its threads.                  *)
LEMMA VideoTypesStep ==
    ASSUME VideoTypes, WorkInv, RangeInv, WakeInv, VideoNext
    PROVE  VideoTypes'
<1>t. vr \in VrState /\ v4 \in V4State /\ slot \in SlotState
      /\ stream \in [count : 0..setup.frames, session : LiveSession]
  BY DEF VideoTypes
<1>1. CASE OpenSinks
  <2>1. slot' \in SlotState
    BY <1>1, <1>t DEF OpenSinks, SlotState
  <2>2. vr' \in VrState /\ v4' \in V4State
    BY <1>1, <1>t DEF OpenSinks, VrState, V4State
  <2>3. UNCHANGED <<setup, stream, work>> /\ decoder' \in {"running", "stopRegulator"}
    BY <1>1 DEF OpenSinks
  <2> QED BY <2>1, <2>2, <2>3, LiveSame DEF VideoTypes
<1>2. CASE Decode
  BY <1>2, DecodeTypes
<1>3. CASE StreamEnds \/ JoinV4l2 \/ JoinRegulator
  BY <1>3, PlainVideo, <1>t DEF StreamEnds, JoinV4l2, JoinRegulator
<1>4. CASE CloseV4l2
  <2>1. v4' \in V4State
    BY <1>4, <1>t DEF CloseV4l2, V4State
  <2> QED BY <1>4, <1>t, <2>1, PlainVideo DEF CloseV4l2
<1>5. CASE CloseRegulator
  <2>1. vr' \in VrState
    BY <1>5, <1>t DEF CloseRegulator, VrState
  <2> QED BY <1>5, <1>t, <2>1, PlainVideo DEF CloseRegulator
<1>6. ASSUME NEW p \in Producers, PushToScreen(p) \/ PostNewFrame(p)
      PROVE  VideoTypes'
  BY <1>6, ScreenPushTypes, PostTypes
<1>7. CASE PushToV4l2("decoder")
  BY <1>7, V4PushTypes
<1>8. CASE PushToRegulator("decoder")
  BY <1>8, RegulatorTypes
<1>9. CASE VrTake
  BY <1>9, TakeTypes
<1>10. CASE VrDate
  BY <1>10, DateTypes
<1>11. CASE VrSpuriousWakeup
  <2>1. vr' \in VrState
    BY <1>11, <1>t DEF VrSpuriousWakeup, VrState
  <2> QED BY <1>11, <1>t, <2>1, PlainVideo DEF VrSpuriousWakeup, VideoTypes
<1>12. CASE V4Take
  <2>1. v4' \in V4State
    <3>1. v4.hasFrame => v4.frame # <<>>
      BY DEF WakeInv, SinksWakeUp
    <3>2. CASE v4.stopped \/ ~v4.hasFrame
      BY <1>12, <1>t, <3>2 DEF V4Take, V4State
    <3>3. CASE ~v4.stopped /\ v4.hasFrame
      <4>1. v4' = [v4 EXCEPT !.hasFrame = FALSE, !.thread = "writing", !.frame = <<>>,
                             !.written = v4.frame[1].n]
        BY <1>12, <3>3 DEF V4Take
      <4>2. v4.frame[1].n \in 0..setup.frames
        BY <1>t, <3>1, <3>3 DEF V4State, AtMostOne, LiveItem
      <4> QED BY <1>t, <4>1, <4>2 DEF V4State, AtMostOne
    <3> QED BY <3>2, <3>3
  <2> QED BY <1>12, <1>t, <2>1, PlainVideo DEF V4Take, VideoTypes
<1>13. CASE V4Write \/ V4SpuriousWakeup
  <2>1. v4' \in V4State
    BY <1>13, <1>t DEF V4Write, V4SpuriousWakeup, V4State
  <2> QED BY <1>13, <1>t, <2>1, PlainVideo DEF V4Write, V4SpuriousWakeup, VideoTypes
<1> QED BY <1>1, <1>2, <1>3, <1>4, <1>5, <1>6, <1>7, <1>8, <1>9, <1>10, <1>11,
    <1>12, <1>13
        DEF VideoNext

--------------------------------------------------------------------------------
(* The numbers of the frames                                               *)

(* The number of one frame.                                                *)
LEMMA HeldIs ==
    /\ Held(<<>>) = {}
    /\ \A x : Held(<<x>>) = {x.n} \ {0}
<1>1. Len(<<>>) = 0 /\ 1..0 = {}
  OBVIOUS
<1>2. Held(<<>>) = {}
  BY <1>1 DEF Held
<1>3. ASSUME NEW x PROVE Held(<<x>>) = {x.n} \ {0}
  <2>1. 1..Len(<<x>>) = {1} /\ <<x>>[1] = x
    OBVIOUS
  <2> HIDE DEF Held
  <2>2. {<<x>>[i].n : i \in {1}} = {x.n}
    BY <2>1
  <2> QED BY <2>1, <2>2 DEF Held
<1> QED BY <1>2, <1>3

(* A frame that is queued adds its number.                                 *)
LEMMA HeldAppend ==
    ASSUME NEW S, NEW q \in Seq(S), NEW x \in S
    PROVE  /\ Held(Append(q, x)) = Held(q) \cup ({x.n} \ {0})
           /\ Sorted(q) /\ (\A n \in Held(q) : x.n # 0 => n < x.n) => Sorted(Append(q, x))
<1> DEFINE t == Append(q, x)
<1>1. /\ Len(t) = Len(q) + 1 /\ Len(q) \in Nat /\ t[Len(q) + 1] = x
      /\ \A i \in 1..Len(q) : t[i] = q[i]
  BY AppendIs
<1> HIDE DEF t
<1>2. Held(t) = Held(q) \cup ({x.n} \ {0})
  <2>1. 1..Len(t) = 1..Len(q) \cup {Len(q) + 1}
    BY <1>1
  <2> QED BY <1>1, <2>1 DEF Held
<1>3. ASSUME Sorted(q), \A n \in Held(q) : x.n # 0 => n < x.n PROVE Sorted(t)
  <2> SUFFICES ASSUME NEW i \in 1..Len(t), NEW j \in 1..Len(t), i < j, t[i].n # 0, t[j].n # 0
               PROVE  t[i].n < t[j].n
    BY DEF Sorted
  <2>1. i \in 1..Len(q) /\ t[i] = q[i]
    BY <1>1
  <2>2. CASE j \in 1..Len(q)
    BY <1>1, <1>3, <2>1, <2>2 DEF Sorted
  <2>3. CASE j = Len(q) + 1
    <3>1. q[i].n \in Held(q) /\ t[j] = x
      BY <1>1, <2>1, <2>3 DEF Held
    <3> QED BY <1>3, <2>1, <3>1
  <2> QED BY <1>1, <2>2, <2>3
<1> QED BY <1>2, <1>3 DEF t

(* The numbers of a queue are those of its head and of its tail.           *)
LEMMA HeldTail ==
    ASSUME NEW S, NEW q \in Seq(S), q # <<>>
    PROVE  /\ Held(Tail(q)) \subseteq Held(q)
           /\ q[1].n # 0 => q[1].n \in Held(q)
           /\ Sorted(q) => /\ Sorted(Tail(q))
                           /\ q[1].n # 0 => \A n \in Held(Tail(q)) : q[1].n < n
<1> DEFINE t == Tail(q)
<1>1. /\ Len(q) \in Nat \ {0} /\ Len(t) = Len(q) - 1
      /\ \A i \in 1..Len(q) - 1 : t[i] = q[i + 1]
  BY TailIs
<1> HIDE DEF t
<1>2. \A i \in 1..Len(t) : i + 1 \in 1..Len(q) /\ t[i] = q[i + 1]
  BY <1>1
<1>3. Held(t) \subseteq Held(q) /\ 1 \in 1..Len(q)
  BY <1>1, <1>2 DEF Held
<1>4. q[1].n # 0 => q[1].n \in Held(q)
  BY <1>3 DEF Held
<1>5. ASSUME Sorted(q) PROVE Sorted(t)
  <2> SUFFICES ASSUME NEW i \in 1..Len(t), NEW j \in 1..Len(t), i < j, t[i].n # 0, t[j].n # 0
               PROVE  t[i].n < t[j].n
    BY DEF Sorted
  <2>1. i + 1 \in 1..Len(q) /\ j + 1 \in 1..Len(q) /\ i + 1 < j + 1
    BY <1>1, <1>2
  <2> QED BY <1>2, <1>5, <2>1 DEF Sorted
<1>6. ASSUME Sorted(q), q[1].n # 0, NEW n \in Held(t) PROVE q[1].n < n
  <2>1. PICK i \in 1..Len(t) : n = t[i].n /\ n # 0
    BY <1>6 DEF Held
  <2>2. i + 1 \in 1..Len(q) /\ 1 < i + 1 /\ t[i] = q[i + 1]
    BY <1>1, <1>2
  <2> QED BY <1>3, <1>6, <2>1, <2>2 DEF Sorted
<1> QED BY <1>3, <1>4, <1>5, <1>6 DEF t

(* What becomes of the first step of a producer.                           *)
LEMMA FirstIs ==
    ASSUME NEW item, NEW step, NEW w, w # <<>>, w[1] = <<step, item>>
    PROVE  /\ step \in {"screen", "regulator"} => HeadingOf(w) = {item.n} \ {0}
           /\ step \notin {"screen", "regulator"} => HeadingOf(w) = {}
           /\ PostsFirst(w) <=> step = "post"
  BY DEF HeadingOf, PostsFirst

(* What follows the first step is for V4L2: it heads nowhere.              *)
LEMMA OnlyV4l2 ==
    ASSUME NEW S, NEW w \in Seq(S), \A i \in 1..Len(w) : w[i][1] = "v4l2"
    PROVE  HeadingOf(w) = {} /\ ~PostsFirst(w)
<1>1. w # <<>> => 1 \in 1..Len(w)
  BY TailIs
<1> QED BY <1>1 DEF HeadingOf, PostsFirst

(* Only the first step of p changes.                                       *)
OthersKept(p) == \A q \in Producers \ {p} : Heading(q)' = Heading(q) /\ Posting(q)' = Posting(q)

(* A step that is done leaves nothing to push or to post.                  *)
LEMMA DoneHeads ==
    ASSUME WorkShape, NEW p \in Producers, work[p] # <<>>, work' = Done(p)
    PROVE  Heading(p)' = {} /\ ~Posting(p)' /\ OthersKept(p)
<1>1. /\ work'[p] \in Seq(WorkStep) /\ \A i \in 1..Len(work'[p]) : work'[p][i][1] = "v4l2"
      /\ \A q \in Producers \ {p} : work'[q] = work[q]
  BY DoneIs
<1> QED BY <1>1, OnlyV4l2 DEF Heading, Posting, OthersKept

(* A continuation is the new head.                                         *)
LEMMA ContinuedHeads ==
    ASSUME WorkShape, NEW p \in Producers, work[p] # <<>>, NEW step, NEW item,
           <<step, item>> \in WorkStep,
           work' = [work EXCEPT ![p] = <<<<step, item>>>> \o Tail(work[p])]
    PROVE  /\ step \in {"screen", "regulator"} => Heading(p)' = {item.n} \ {0}
           /\ step \notin {"screen", "regulator"} => Heading(p)' = {}
           /\ Posting(p)' <=> step = "post"
           /\ OthersKept(p)
<1>1. /\ work'[p] # <<>> /\ work'[p][1] = <<step, item>>
      /\ \A q \in Producers \ {p} : work'[q] = work[q]
  BY ContinuedIs
<1> QED BY <1>1, FirstIs DEF Heading, Posting, OthersKept

(* Nothing is left of what is given up.                                    *)
LEMMA GivenUpHeads ==
    ASSUME WorkShape, NEW p \in Producers, work' = [work EXCEPT ![p] = <<>>]
    PROVE  Heading(p)' = {} /\ ~Posting(p)' /\ OthersKept(p)
  BY GivenUpIs DEF Heading, Posting, OthersKept, HeadingOf, PostsFirst

(* What the regulator gives heads for the screen.                          *)
LEMMA GivenHeads ==
    ASSUME WorkShape, NEW p \in Producers, NEW step, NEW item, <<step, item>> \in WorkStep,
           work' = [work EXCEPT ![p] = <<<<step, item>>>>]
    PROVE  /\ step \in {"screen", "regulator"} => Heading(p)' = {item.n} \ {0}
           /\ step \notin {"screen", "regulator"} => Heading(p)' = {}
           /\ Posting(p)' <=> step = "post"
           /\ OthersKept(p)
<1>1. /\ work'[p] # <<>> /\ work'[p][1] = <<step, item>>
      /\ \A q \in Producers \ {p} : work'[q] = work[q]
  BY GivenIs
<1> QED BY <1>1, FirstIs DEF Heading, Posting, OthersKept

(* What the decoder gives heads for the screen or its regulator.           *)
LEMMA RouteHeads ==
    ASSUME WorkShape, NEW item \in LiveItem, work' = [work EXCEPT !["decoder"] = Route(item)]
    PROVE  Heading("decoder")' = {item.n} \ {0} /\ ~Posting("decoder")' /\ OthersKept("decoder")
<1>1. "decoder" \in Producers /\ work'["decoder"] = Route(item)
      /\ \A q \in Producers \ {"decoder"} : work'[q] = work[q]
  BY DEF WorkShape, Producers
<1>2. /\ Route(item) # <<>>
      /\ Route(item)[1] = <<IF setup.regulated THEN "regulator" ELSE "screen", item>>
  BY RouteIs, EmptySeq
<1>3. HeadingOf(Route(item)) = {item.n} \ {0} /\ ~PostsFirst(Route(item))
  BY <1>2, FirstIs
<1> QED BY <1>1, <1>3 DEF Heading, Posting, OthersKept

--------------------------------------------------------------------------------
(* The producers and the threads                                           *)

PipeInv == WorkInv /\ RangeInv /\ WakeInv

(* The work keeps its shape: its first step is replaced by one that the    *)
(* producer may have, is done, or everything is given up.                  *)
LEMMA WorkKept ==
    ASSUME VideoTypes, WorkInv, NEW p \in Producers, work[p] # <<>>, setup' = setup,
           decoder' = "closed" => decoder = "closed",
           vr'.thread = vr.thread \/ vr.thread = "waitQueue",
           \/ work' = Done(p) \/ work' = [work EXCEPT ![p] = <<>>]
           \/ \E item \in LiveItem, step \in {"screen", "post"} :
                 work' = [work EXCEPT ![p] = <<<<step, item>>>> \o Tail(work[p])]
    PROVE  WorkInv'
<1>0. WorkShape /\ work[p] \in Seq(WorkStep)
  BY WorkShapeIs DEF VideoTypes
<1>p. p = "decoder" \/ p = "regulator"
  BY DEF Producers
<1>1. /\ \A q \in Producers \ {p} : work'[q] = work[q]
      /\ \A i \in 2..Len(work'[p]) : work'[p][i][1] = "v4l2"
      /\ \A i \in 1..Len(work'[p]) :
            /\ work'[p][i][1] \in {"v4l2", "screen", "post"}
            /\ p = "regulator" => work'[p][i][1] \in {"screen", "post"}
  <2>1. CASE work' = Done(p)
    <3>1. \A i \in 1..Len(work'[p]) : i + 1 \in 1..Len(work[p]) /\ i + 1 \in 2..Len(work[p])
      BY <1>0, <2>1, DoneIs
    <3>2. \A i \in 1..Len(work'[p]) : work'[p][i] = work[p][i + 1] /\ work'[p][i][1] = "v4l2"
      BY <1>0, <2>1, DoneIs
    <3>3. \A q \in Producers \ {p} : work'[q] = work[q]
      BY <1>0, <2>1, DoneIs
    <3>4. \A i \in 2..Len(work'[p]) : i \in 1..Len(work'[p])
      OBVIOUS
    <3> QED BY <3>1, <3>2, <3>3, <3>4 DEF WorkInv
  <2>2. CASE work' = [work EXCEPT ![p] = <<>>]
    <3>1. 1..0 = {} /\ 2..0 = {}
      OBVIOUS
    <3>2. Len(work'[p]) = 0 /\ \A q \in Producers \ {p} : work'[q] = work[q]
      BY <1>0, <2>2, GivenUpIs
    <3> QED BY <3>1, <3>2
  <2>3. ASSUME NEW item \in LiveItem, NEW step \in {"screen", "post"},
               work' = [work EXCEPT ![p] = <<<<step, item>>>> \o Tail(work[p])]
        PROVE  /\ \A q \in Producers \ {p} : work'[q] = work[q]
               /\ \A i \in 2..Len(work'[p]) : work'[p][i][1] = "v4l2"
               /\ \A i \in 1..Len(work'[p]) :
                     /\ work'[p][i][1] \in {"v4l2", "screen", "post"}
                     /\ p = "regulator" => work'[p][i][1] \in {"screen", "post"}
    <3>1. <<step, item>> \in WorkStep
      BY DEF WorkStep
    <3>2. /\ \A q \in Producers \ {p} : work'[q] = work[q]
          /\ Len(work'[p]) = Len(work[p]) /\ work'[p][1] = <<step, item>>
          /\ \A i \in 2..Len(work'[p]) : work'[p][i] = work[p][i]
      BY <1>0, <2>3, <3>1, ContinuedIs
    <3>3. Len(work[p]) \in Nat
      BY <1>0, LenProperties
    <3>4. \A i \in 1..Len(work[p]) : i = 1 \/ i \in 2..Len(work[p])
      BY <3>3
    <3>5. \A i \in 2..Len(work[p]) : i \in 1..Len(work[p])
      BY <3>3
    <3> QED BY <3>2, <3>4, <3>5 DEF WorkInv
  <2> QED BY <2>1, <2>2, <2>3
<1>2. work'["regulator"] # <<>> => vr.thread = "ready"
  <2>1. CASE p = "decoder"
    BY <1>1, <2>1 DEF WorkInv, Producers
  <2>2. CASE p = "regulator"
    BY <2>2 DEF WorkInv
  <2> QED BY <1>p, <2>1, <2>2
<1>3. decoder' = "closed" => work'["decoder"] = <<>> /\ vr'.thread = "none"
  <2> SUFFICES ASSUME decoder' = "closed" PROVE work'["decoder"] = <<>> /\ vr'.thread = "none"
    OBVIOUS
  <2>1. work["decoder"] = <<>> /\ vr.thread = "none" /\ vr'.thread = "none"
    BY DEF WorkInv
  <2>2. p = "regulator"
    BY <1>p, <2>1
  <2> QED BY <1>1, <2>1, <2>2 DEF Producers
<1>4. vr.thread = "ready" => vr'.thread = "ready"
  OBVIOUS
<1>5. \A q \in Producers : \A i \in 2..Len(work'[q]) : work'[q][i][1] = "v4l2"
  BY <1>1 DEF WorkInv
<1>6. \A i \in 1..Len(work'["regulator"]) : work'["regulator"][i][1] \in {"screen", "post"}
  BY <1>1, <1>p DEF WorkInv, Producers
<1>7. \A i \in 1..Len(work'["decoder"]) : work'["decoder"][i][1] = "regulator" => setup'.regulated
  <2>1. CASE p = "decoder"
    BY <1>1, <2>1
  <2>2. CASE p = "regulator"
    BY <1>1, <2>2 DEF WorkInv, Producers
  <2> QED BY <1>p, <2>1, <2>2
<1> QED BY <1>2, <1>3, <1>4, <1>5, <1>6, <1>7 DEF WorkInv

(* The regulator gives an item while its thread runs.                      *)
LEMMA WorkGiven ==
    ASSUME VideoTypes, WorkInv, NEW item \in LiveItem, UNCHANGED <<setup, decoder>>,
           work' = [work EXCEPT !["regulator"] = <<<<"screen", item>>>>],
           vr.thread # "none", vr'.thread = "ready"
    PROVE  WorkInv'
<1>1. "regulator" \in Producers /\ "decoder" \in Producers /\ <<"screen", item>> \in WorkStep
  BY DEF Producers, WorkStep
<1>2. /\ work'["decoder"] = work["decoder"] /\ Len(work'["regulator"]) = 1
      /\ work'["regulator"][1] = <<"screen", item>>
  BY <1>1, GivenIs, WorkShapeIs
<1>3. 1..1 = {1} /\ 2..1 = {}
  OBVIOUS
<1> QED BY <1>2, <1>3 DEF WorkInv, Producers

(* Nothing new is delayed.                                                 *)
LEMMA DelayedIs ==
    ASSUME Heading("regulator")' \subseteq Delayed, Held(vr'.held) \subseteq Delayed,
           Held(vr'.queue) \subseteq Delayed
    PROVE  Delayed' \subseteq Delayed
<1>1. Delayed' = Heading("regulator")' \cup Held(vr'.held) \cup Held(vr'.queue)
  BY DEF Delayed, Held
<1> QED BY <1>1

(* The work that does not change.                                          *)
LEMMA WorkSame ==
    ASSUME WorkInv, UNCHANGED <<setup, work>>, decoder' = "closed" => decoder = "closed",
           work["regulator"] # <<>> => vr'.thread = "ready",
           decoder' = "closed" => vr'.thread = "none"
    PROVE  WorkInv'
  BY DEF WorkInv

(* The clock when nothing new is delayed.                                  *)
LEMMA RangeKept ==
    ASSUME RangeInv, setup' = setup, vr'.range = vr.range, Delayed' \subseteq Delayed,
           vr'.held # <<>> <=> vr'.thread = "waitDate",
           vr'.held # <<>> => vr'.held[1].n # 0
    PROVE  RangeInv'
  BY DEF RangeInv

(* What is delayed is in the regulator only.                               *)
LEMMA DelayedSame ==
    ASSUME work'["regulator"] = work["regulator"], vr'.held = vr.held, vr'.queue = vr.queue
    PROVE  Delayed' = Delayed
  BY DEF Delayed, Heading, HeadingOf, Held

(* The work, the clock and the waits when the sinks are opened.            *)
LEMMA OpenPipe ==
    ASSUME VideoTypes, PipeInv, OpenSinks
    PROVE  PipeInv'
<1>0. /\ UNCHANGED <<setup, work>> /\ decoder = "closed" /\ decoder' # "closed"
      /\ vr' = [vr EXCEPT !.thread = IF setup.regulated THEN "ready" ELSE "none"]
      /\ v4' = v4 \/ v4' = [v4 EXCEPT !.thread = IF setup.v4l2 THEN "ready" ELSE "none"]
  BY DEF OpenSinks
<1>t. vr \in VrState /\ v4 \in V4State
  BY DEF VideoTypes
<1>1. vr.thread = "none" /\ work["regulator"] = <<>>
  BY <1>0 DEF PipeInv, WorkInv
<1>2. /\ vr'.held = vr.held /\ vr'.queue = vr.queue /\ vr'.range = vr.range
      /\ vr'.thread \in {"ready", "none"}
  BY <1>0, <1>t DEF VrState
<1>3. vr.held = <<>>
  BY <1>1 DEF PipeInv, RangeInv
<1>4. WorkInv'
  BY <1>0, <1>1, WorkSame DEF PipeInv
<1>5. RangeInv'
  BY <1>0, <1>2, <1>3, DelayedSame, RangeKept DEF PipeInv
<1>6. WakeInv'
  BY <1>0, <1>2, <1>t DEF PipeInv, WakeInv, SinksWakeUp, V4State
<1> QED BY <1>4, <1>5, <1>6 DEF PipeInv

(* The same when the decoder has a frame or a session.                     *)
LEMMA DecodePipe ==
    ASSUME VideoTypes, PipeInv, Decode
    PROVE  PipeInv'
<1>0. UNCHANGED <<setup, decoder, slot, vr, v4>> /\ decoder = "running"
  BY DEF Decode
<1>1. PICK item \in LiveItem : work' = [work EXCEPT !["decoder"] = Route(item)]
  BY DecodeIs
<1>2. /\ work'["regulator"] = work["regulator"] /\ work'["decoder"] = Route(item)
  BY <1>1 DEF VideoTypes, Producers
<1>3. /\ Len(Route(item)) \in {1, 2}
      /\ Route(item)[1][1] = IF setup.regulated THEN "regulator" ELSE "screen"
      /\ Len(Route(item)) = 2 => Route(item)[2][1] = "v4l2"
  BY RouteIs
<1>4. /\ \A i \in 2..Len(Route(item)) : i = 2 /\ Len(Route(item)) = 2
      /\ \A i \in 1..Len(Route(item)) : i = 1 \/ (i = 2 /\ Len(Route(item)) = 2)
  <2>1. Len(Route(item)) \in {1, 2}
    BY <1>3
  <2> DEFINE l == Len(Route(item))
  <2> HIDE DEF l
  <2>2. l \in {1, 2} => /\ \A i \in 2..l : i = 2 /\ l = 2
                       /\ \A i \in 1..l : i = 1 \/ (i = 2 /\ l = 2)
    OBVIOUS
  <2> QED BY <2>1, <2>2 DEF l
<1>5. /\ \A i \in 2..Len(Route(item)) : Route(item)[i][1] = "v4l2"
      /\ \A i \in 1..Len(Route(item)) : Route(item)[i][1] = "regulator" => setup.regulated
  BY <1>3, <1>4
<1>6. WorkInv'
  BY <1>0, <1>2, <1>5 DEF PipeInv, WorkInv, Producers
<1>7. RangeInv'
  BY <1>0, <1>2, DelayedSame, RangeKept DEF PipeInv, RangeInv
<1>8. WakeInv'
  BY <1>0 DEF PipeInv, WakeInv, SinksWakeUp
<1> QED BY <1>6, <1>7, <1>8 DEF PipeInv

(* The sinks are closed.                                                   *)
LEMMA ClosePipe ==
    ASSUME VideoTypes, PipeInv,
           StreamEnds \/ CloseV4l2 \/ JoinV4l2 \/ CloseRegulator \/ JoinRegulator
    PROVE  PipeInv'
<1>0. UNCHANGED <<setup, work>> /\ decoder # "closed" /\ decoder' # "closed"
  BY DEF StreamEnds, CloseV4l2, JoinV4l2, CloseRegulator, JoinRegulator
<1>t. vr \in VrState /\ v4 \in V4State
  BY DEF VideoTypes
<1>1. /\ vr'.held = vr.held /\ vr'.queue = vr.queue /\ vr'.range = vr.range
      /\ vr'.thread = vr.thread \/ (vr.thread = "waitQueue" /\ vr'.thread = "ready")
      /\ vr' = vr \/ vr'.thread # "waitQueue"
  BY <1>t DEF StreamEnds, CloseV4l2, JoinV4l2, CloseRegulator, JoinRegulator,
      VrState
<1>2. /\ v4'.hasFrame = v4.hasFrame /\ v4'.frame = v4.frame
      /\ v4' = v4 \/ v4'.thread # "waiting"
  BY <1>t DEF StreamEnds, CloseV4l2, JoinV4l2, CloseRegulator, JoinRegulator,
      V4State
<1>3. WorkInv'
  BY <1>0, <1>1, WorkSame DEF PipeInv, WorkInv
<1>4. RangeInv'
  BY <1>0, <1>1, DelayedSame, RangeKept DEF PipeInv, RangeInv
<1>5. WakeInv'
  BY <1>1, <1>2 DEF PipeInv, WakeInv, SinksWakeUp
<1> QED BY <1>3, <1>4, <1>5 DEF PipeInv

(* The first step of p ends, or goes on with its event: nothing is added   *)
(* to what the regulator delays.                                           *)
LEMMA HeadDelayed ==
    ASSUME NEW p \in Producers, Heading(p)' = {}, OthersKept(p),
           vr'.held = vr.held, vr'.queue = vr.queue
    PROVE  Delayed' \subseteq Delayed
<1>1. "regulator" \in Producers
  BY DEF Producers
<1>2. Heading("regulator")' \subseteq Heading("regulator")
  <2>1. CASE p = "regulator"
    BY <2>1
  <2>2. CASE p # "regulator"
    BY <1>1, <2>2 DEF OthersKept
  <2> QED BY <2>1, <2>2
<1> QED BY <1>2, DelayedIs DEF Delayed

(* A push to the screen.                                                   *)
LEMMA PushPipe ==
    ASSUME VideoTypes, PipeInv, NEW p \in Producers, PushToScreen(p)
    PROVE  PipeInv'
<1> DEFINE item == ItemOf(p)
<1>0. UNCHANGED <<setup, decoder, vr, v4>> /\ work[p] # <<>> /\ WorkShape
  BY WorkShapeIs DEF PushToScreen, Next_, PipeInv
<1>1. item \in LiveItem /\ <<"post", item>> \in WorkStep
  BY ItemIs DEF PushToScreen, WorkStep
<1>2. \/ work' = Done(p)
      \/ work' = [work EXCEPT ![p] = <<<<"post", item>>>> \o Tail(work[p])]
  BY DEF PushToScreen
<1> HIDE DEF item
<1>3. WorkInv'
  BY <1>0, <1>1, <1>2, WorkKept DEF PipeInv
<1>4. Heading(p)' = {} /\ OthersKept(p)
  BY <1>0, <1>1, <1>2, DoneHeads, ContinuedHeads
<1>5. Delayed' \subseteq Delayed
  BY <1>0, <1>4, HeadDelayed
<1>6. RangeInv'
  BY <1>0, <1>5, RangeKept DEF PipeInv, RangeInv
<1>7. WakeInv'
  BY <1>0 DEF PipeInv, WakeInv, SinksWakeUp
<1> QED BY <1>3, <1>6, <1>7 DEF PipeInv

(* The event is posted, or the producer stops.                             *)
LEMMA PostPipe ==
    ASSUME VideoTypes, PipeInv, NEW p \in Producers, PostNewFrame(p)
    PROVE  PipeInv'
<1>0. UNCHANGED <<setup, v4>> /\ work[p] # <<>> /\ WorkShape /\ WorkInv
  BY WorkShapeIs DEF PostNewFrame, Next_, PipeInv
<1>t. vr \in VrState
  BY DEF VideoTypes
<1>1. /\ vr'.held = vr.held /\ vr'.queue = vr.queue /\ vr'.range = vr.range
      /\ vr'.thread = vr.thread /\ decoder' \in {decoder, "stopV4l2"}
      /\ vr' = vr \/ p = "regulator"
      /\ work' = Done(p) \/ work' = [work EXCEPT ![p] = <<>>]
  <2>1. CASE Fail(p)
    <3>1. work' = [work EXCEPT ![p] = <<>>]
      BY <2>1 DEF Fail
    <3> QED BY <1>0, <1>t, <2>1, <3>1, FailIs DEF VrState, Producers
  <2>2. CASE work' = Done(p) /\ UNCHANGED <<decoder, vr>>
    BY <2>2
  <2> QED BY <2>1, <2>2 DEF PostNewFrame
<1>2. WorkInv'
  BY <1>0, <1>1, WorkKept
<1>3. Heading(p)' = {} /\ OthersKept(p)
  BY <1>0, <1>1, DoneHeads, GivenUpHeads
<1>4. Delayed' \subseteq Delayed
  BY <1>1, <1>3, HeadDelayed
<1>5. RangeInv'
  BY <1>0, <1>1, <1>4, RangeKept DEF PipeInv, RangeInv
<1>6. p = "regulator" => vr.thread = "ready"
  BY <1>0 DEF WorkInv
<1>7. WakeInv'
  BY <1>0, <1>1, <1>6 DEF PipeInv, WakeInv, SinksWakeUp
<1> QED BY <1>2, <1>5, <1>7 DEF PipeInv

(* A push to V4L2: its thread is woken whenever the slot was empty.        *)
LEMMA V4PushPipe ==
    ASSUME VideoTypes, PipeInv, PushToV4l2("decoder")
    PROVE  PipeInv'
<1>d. "decoder" \in Producers
  BY DEF Producers
<1>0. UNCHANGED <<setup, decoder, vr>> /\ work["decoder"] # <<>> /\ WorkShape
      /\ work' = Done("decoder")
  BY WorkShapeIs DEF PushToV4l2, Next_, PipeInv
<1>t. v4 \in V4State
  BY DEF VideoTypes
<1>1. WorkInv'
  BY <1>d, <1>0, WorkKept DEF PipeInv
<1>2. RangeInv'
  <2>1. Delayed' \subseteq Delayed
    BY <1>d, <1>0, DoneHeads, HeadDelayed
  <2> QED BY <1>0, <2>1, RangeKept DEF PipeInv, RangeInv
<1>3. WakeInv'
  <2>1. <<ItemOf("decoder")>> # <<>>
    OBVIOUS
  <2>2. CASE v4' = [v4 EXCEPT !.frame = <<ItemOf("decoder")>>] /\ v4.frame # <<>>
    BY <1>0, <1>t, <2>1, <2>2 DEF PipeInv, WakeInv, SinksWakeUp, V4State
  <2>3. CASE v4' = [v4 EXCEPT !.frame = <<ItemOf("decoder")>>, !.hasFrame = TRUE,
                              !.thread = IF v4.thread = "waiting" THEN "ready" ELSE v4.thread]
    BY <1>0, <1>t, <2>1, <2>3 DEF PipeInv, WakeInv, SinksWakeUp, V4State
  <2> QED BY <2>2, <2>3 DEF PushToV4l2
<1> QED BY <1>1, <1>2, <1>3 DEF PipeInv

(* A push to the regulator: only the first frame goes on at once.          *)
LEMMA RegulatorPipe ==
    ASSUME VideoTypes, PipeInv, PushToRegulator("decoder")
    PROVE  PipeInv'
<1> DEFINE item == ItemOf("decoder")
           range == IF vr.range < 2 THEN vr.range + 1 ELSE 2
           next == IF IsFrame(item) THEN range ELSE vr.range
<1>d. "decoder" \in Producers /\ "decoder" # "regulator"
  BY DEF Producers
<1>0. UNCHANGED <<setup, v4>> /\ work["decoder"] # <<>> /\ WorkShape /\ WorkInv
  BY WorkShapeIs DEF PushToRegulator, Next_, PipeInv
<1>t. vr \in VrState
  BY DEF VideoTypes
<1>1. item \in LiveItem /\ next \in 0..2 /\ range \in 1..2 /\ <<"screen", item>> \in WorkStep
  BY <1>0, <1>t, RegulatorIs DEF WorkStep, VrState
<1>2. setup.regulated
  <2>1. work["decoder"][1][1] = "regulator" /\ Len(work["decoder"]) \in Nat \ {0}
    BY <1>d, ItemIs DEF PushToRegulator
  <2>2. 1 \in 1..Len(work["decoder"])
    BY <2>1
  <2> QED BY <1>0, <2>1, <2>2 DEF WorkInv
<1>3. CASE Fail("decoder")
  <2>1. /\ work' = [work EXCEPT !["decoder"] = <<>>] /\ vr' = vr /\ decoder' = "stopV4l2"
    BY <1>3 DEF Fail
  <2>2. WorkInv'
    BY <1>d, <1>0, <2>1, WorkKept
  <2>3. Delayed' \subseteq Delayed
    BY <1>d, <1>0, <2>1, GivenUpHeads, HeadDelayed
  <2>4. RangeInv'
    BY <1>0, <2>1, <2>3, RangeKept DEF PipeInv, RangeInv
  <2>5. WakeInv'
    BY <1>0, <2>1 DEF PipeInv, WakeInv, SinksWakeUp
  <2> QED BY <2>2, <2>4, <2>5 DEF PipeInv
<1>4. CASE /\ vr' = [Enqueued(item) EXCEPT !.range = next] /\ work' = Done("decoder")
           /\ UNCHANGED decoder /\ (IsFrame(item) => range > 1)
  <2>1. /\ vr'.queue = Append(vr.queue, item) /\ vr'.held = vr.held /\ vr'.stopped = vr.stopped
        /\ vr'.thread = IF vr.thread = "waitQueue" THEN "ready" ELSE vr.thread
        /\ vr'.range = next
    <3> HIDE DEF item, next
    <3>1. Enqueued(item) \in VrState
      BY <1>1, EnqueuedIs
    <3>2. /\ vr'.queue = Enqueued(item).queue /\ vr'.held = Enqueued(item).held
          /\ vr'.stopped = Enqueued(item).stopped /\ vr'.thread = Enqueued(item).thread
          /\ vr'.range = next
      BY <1>4, <3>1 DEF VrState
    <3> QED BY <1>1, <3>2, EnqueuedIs
  <2>2. WorkInv'
    BY <1>d, <1>0, <1>4, <2>1, WorkKept
  <2>3. next = 0 => item.n = 0 /\ vr.range = 0
    BY <1>1, <1>4 DEF IsFrame, LiveItem
  <2>4. Heading("regulator")' = Heading("regulator")
    BY <1>d, <1>0, <1>4, DoneHeads DEF OthersKept, Producers
  <2>5. vr.queue \in Seq(LiveItem)
    BY <1>t DEF VrState
  <2>6. Held(vr'.queue) = Held(vr.queue) \cup ({item.n} \ {0})
    BY <1>1, <2>1, <2>5, HeldAppend
  <2>7. next = 0 => Delayed' = {}
    <3>1. Delayed' = Heading("regulator")' \cup Held(vr'.held) \cup Held(vr'.queue)
      BY DEF Delayed, Held
    <3>2. next = 0 => Delayed = {}
      BY <2>3 DEF PipeInv, RangeInv
    <3> QED BY <2>1, <2>3, <2>4, <2>6, <3>1, <3>2 DEF Delayed
  <2>8. RangeInv'
    BY <1>0, <1>2, <2>1, <2>7 DEF PipeInv, RangeInv
  <2>9. WakeInv'
    BY <1>0, <2>1 DEF PipeInv, WakeInv, SinksWakeUp
  <2> QED BY <2>2, <2>8, <2>9 DEF PipeInv
<1>5. CASE /\ vr' = [vr EXCEPT !.range = range] /\ UNCHANGED decoder
           /\ work' = [work EXCEPT !["decoder"] = <<<<"screen", item>>>> \o Tail(work["decoder"])]
  <2>1. /\ vr'.queue = vr.queue /\ vr'.held = vr.held /\ vr'.stopped = vr.stopped
        /\ vr'.thread = vr.thread /\ vr'.range = range
    BY <1>5, <1>t DEF VrState
  <2>2. WorkInv'
    <3> HIDE DEF item, range
    <3> QED BY <1>d, <1>0, <1>1, <1>5, <2>1, WorkKept
  <2>3. RangeInv'
    BY <1>0, <1>1, <1>2, <2>1 DEF PipeInv, RangeInv
  <2>4. WakeInv'
    BY <1>0, <2>1 DEF PipeInv, WakeInv, SinksWakeUp
  <2> QED BY <2>2, <2>3, <2>4 DEF PipeInv
<1> QED BY <1>3, <1>4, <1>5, RegulatorIs DEF PipeInv

(* The thread of the regulator looks at its queue.                         *)
LEMMA TakePipe ==
    ASSUME VideoTypes, PipeInv, VrTake
    PROVE  PipeInv'
<1>0. /\ UNCHANGED <<setup, decoder, v4>> /\ vr.thread = "ready" /\ work["regulator"] = <<>>
      /\ WorkInv /\ WorkShape
  BY WorkShapeIs DEF VrTake, PipeInv
<1>t. vr \in VrState /\ vr.queue \in Seq(LiveItem)
  BY DEF VideoTypes, VrState
<1>r. "regulator" \in Producers /\ vr.held = <<>> /\ decoder # "closed"
  BY <1>0 DEF Producers, PipeInv, RangeInv, WorkInv
<1>1. CASE vr.stopped /\ vr' = VrFlushed /\ work' = work
  <2>1. WorkInv'
    BY <1>0, <1>1, <1>r, WorkSame
  <2>2. Delayed' \subseteq Delayed
    <3>1. Held(vr'.held) = {} /\ Held(vr'.queue) = {}
      BY <1>1, FlushedIs, HeldIs
    <3>2. Heading("regulator")' = Heading("regulator")
      BY <1>1 DEF Heading
    <3> QED BY <3>1, <3>2, DelayedIs DEF Delayed
  <2>3. RangeInv'
    BY <1>0, <1>1, <2>2, FlushedIs, RangeKept DEF PipeInv
  <2>4. WakeInv'
    BY <1>0, <1>1, FlushedIs DEF PipeInv, WakeInv, SinksWakeUp
  <2> QED BY <2>1, <2>3, <2>4 DEF PipeInv
<1>2. CASE ~vr.stopped /\ vr.queue = <<>> /\ work' = work /\ vr' = [vr EXCEPT !.thread = "waitQueue"]
  <2>1. /\ vr'.held = vr.held /\ vr'.queue = vr.queue /\ vr'.stopped = vr.stopped
        /\ vr'.range = vr.range /\ vr'.thread = "waitQueue"
    BY <1>2, <1>t DEF VrState
  <2>2. WorkInv'
    BY <1>0, <1>2, <1>r, WorkSame
  <2>3. RangeInv'
    BY <1>0, <1>2, <1>r, <2>1, DelayedSame, RangeKept DEF PipeInv
  <2>4. WakeInv'
    BY <1>0, <1>2, <2>1 DEF PipeInv, WakeInv, SinksWakeUp
  <2> QED BY <2>2, <2>3, <2>4 DEF PipeInv
<1>3. CASE /\ vr.queue # <<>> /\ IsFrame(vr.queue[1]) /\ work' = work /\ vr.queue[1] \in LiveItem
           /\ vr' = [vr EXCEPT !.queue = Tail(vr.queue), !.held = <<vr.queue[1]>>,
                               !.thread = "waitDate"]
  <2>1. /\ vr'.held = <<vr.queue[1]>> /\ vr'.queue = Tail(vr.queue) /\ vr'.stopped = vr.stopped
        /\ vr'.range = vr.range /\ vr'.thread = "waitDate" /\ vr'.held # <<>>
        /\ vr'.held[1] = vr.queue[1]
    BY <1>3, <1>t DEF VrState
  <2>2. WorkInv'
    BY <1>0, <1>3, <1>r, WorkSame
  <2>3. vr.queue[1].n # 0
    BY <1>3 DEF IsFrame, LiveItem
  <2>4. Delayed' \subseteq Delayed
    <3>1. Held(vr'.held) \subseteq Held(vr.queue) /\ Held(vr'.queue) \subseteq Held(vr.queue)
      BY <1>3, <1>t, <2>1, <2>3, HeldIs, HeldTail
    <3>2. Heading("regulator")' = Heading("regulator")
      BY <1>3 DEF Heading
    <3> QED BY <3>1, <3>2, DelayedIs DEF Delayed
  <2>5. RangeInv'
    BY <1>0, <2>1, <2>3, <2>4, RangeKept DEF PipeInv
  <2>6. WakeInv'
    BY <1>0, <2>1 DEF PipeInv, WakeInv, SinksWakeUp
  <2> QED BY <2>2, <2>5, <2>6 DEF PipeInv
<1>4. CASE /\ vr.queue # <<>> /\ ~IsFrame(vr.queue[1]) /\ vr.queue[1] \in LiveItem
           /\ vr' = [vr EXCEPT !.queue = Tail(vr.queue)]
           /\ work' = [work EXCEPT !["regulator"] = <<<<"screen", vr.queue[1]>>>>]
  <2>1. /\ vr'.held = vr.held /\ vr'.queue = Tail(vr.queue) /\ vr'.stopped = vr.stopped
        /\ vr'.range = vr.range /\ vr'.thread = "ready"
    BY <1>0, <1>4, <1>t DEF VrState
  <2>2. WorkInv'
    BY <1>0, <1>4, <2>1, WorkGiven
  <2>3. vr.queue[1].n = 0
    BY <1>4, SetupIs DEF IsFrame, LiveItem
  <2>4. Delayed' \subseteq Delayed
    <3>1. Held(vr'.queue) \subseteq Held(vr.queue)
      BY <1>4, <1>t, <2>1, HeldTail
    <3>2. <<"screen", vr.queue[1]>> \in WorkStep
      BY <1>4 DEF WorkStep
    <3>3. Heading("regulator")' = {vr.queue[1].n} \ {0}
      BY <1>0, <1>4, <1>r, <3>2, GivenHeads
    <3>4. Heading("regulator")' = {}
      BY <2>3, <3>3
    <3> QED BY <2>1, <3>1, <3>4, DelayedIs DEF Delayed
  <2>5. RangeInv'
    BY <1>0, <1>r, <2>1, <2>4, RangeKept DEF PipeInv
  <2>6. WakeInv'
    BY <1>0, <2>1 DEF PipeInv, WakeInv, SinksWakeUp
  <2> QED BY <2>2, <2>5, <2>6 DEF PipeInv
<1> QED BY <1>1, <1>2, <1>3, <1>4, TakeIs

(* The date of the held frame comes.                                       *)
LEMMA DatePipe ==
    ASSUME VideoTypes, PipeInv, VrDate
    PROVE  PipeInv'
<1>0. /\ UNCHANGED <<setup, decoder, v4>> /\ vr.thread = "waitDate" /\ work["regulator"] = <<>>
      /\ WorkInv /\ WorkShape /\ RangeInv
  BY WorkShapeIs DEF VrDate, PipeInv, WorkInv
<1>t. vr \in VrState
  BY DEF VideoTypes
<1>r. "regulator" \in Producers /\ decoder # "closed"
  BY <1>0 DEF Producers, WorkInv
<1>1. CASE vr.stopped /\ vr' = VrFlushed /\ work' = work
  <2>1. WorkInv'
    BY <1>0, <1>1, <1>r, WorkSame
  <2>2. Delayed' \subseteq Delayed
    <3>1. Held(vr'.held) = {} /\ Held(vr'.queue) = {}
      BY <1>1, FlushedIs, HeldIs
    <3>2. Heading("regulator")' = Heading("regulator")
      BY <1>1 DEF Heading
    <3> QED BY <3>1, <3>2, DelayedIs DEF Delayed
  <2>3. RangeInv'
    BY <1>0, <1>1, <2>2, FlushedIs, RangeKept
  <2>4. WakeInv'
    BY <1>0, <1>1, FlushedIs DEF PipeInv, WakeInv, SinksWakeUp
  <2> QED BY <2>1, <2>3, <2>4 DEF PipeInv
<1>2. CASE /\ vr.held # <<>> /\ vr.held[1] \in LiveItem
           /\ vr' = [vr EXCEPT !.held = <<>>, !.thread = "ready"]
           /\ work' = [work EXCEPT !["regulator"] = <<<<"screen", vr.held[1]>>>>]
  <2>1. /\ vr'.held = <<>> /\ vr'.queue = vr.queue /\ vr'.stopped = vr.stopped
        /\ vr'.range = vr.range /\ vr'.thread = "ready"
    BY <1>2, <1>t DEF VrState
  <2>2. WorkInv'
    BY <1>0, <1>2, <2>1, WorkGiven
  <2>3. Delayed' \subseteq Delayed
    <3>1. <<"screen", vr.held[1]>> \in WorkStep
      BY <1>2 DEF WorkStep
    <3>2. Heading("regulator")' = {vr.held[1].n} \ {0}
      BY <1>0, <1>2, <1>r, <3>1, GivenHeads
    <3>3. vr.held = <<vr.held[1]>>
      BY <1>2, <1>t DEF VrState, AtMostOne
    <3>4. Heading("regulator")' = Held(vr.held) /\ Held(vr'.held) = {}
      BY <2>1, <3>2, <3>3, HeldIs
    <3> QED BY <2>1, <3>4, DelayedIs DEF Delayed
  <2>4. RangeInv'
    BY <1>0, <2>1, <2>3, RangeKept
  <2>5. WakeInv'
    BY <1>0, <2>1 DEF PipeInv, WakeInv, SinksWakeUp
  <2> QED BY <2>2, <2>4, <2>5 DEF PipeInv
<1> QED BY <1>0, <1>1, <1>2, DateIs

(* Every step of the threads keeps their work, the clock and the waits.    *)
LEMMA PipeStep ==
    ASSUME VideoTypes, PipeInv, VideoNext
    PROVE  PipeInv'
<1>t. vr \in VrState /\ v4 \in V4State
  BY DEF VideoTypes
<1>1. CASE OpenSinks
  BY <1>1, OpenPipe
<1>2. CASE Decode
  BY <1>2, DecodePipe
<1>3. CASE StreamEnds \/ CloseV4l2 \/ JoinV4l2 \/ CloseRegulator \/ JoinRegulator
  BY <1>3, ClosePipe
<1>4. ASSUME NEW p \in Producers, PushToScreen(p) \/ PostNewFrame(p)
      PROVE  PipeInv'
  BY <1>4, PushPipe, PostPipe
<1>5. CASE PushToV4l2("decoder")
  BY <1>5, V4PushPipe
<1>6. CASE PushToRegulator("decoder")
  BY <1>6, RegulatorPipe
<1>7. CASE VrTake
  BY <1>7, TakePipe
<1>8. CASE VrDate
  BY <1>8, DatePipe
<1>9. CASE VrSpuriousWakeup
  <2>0. UNCHANGED <<setup, work, decoder, v4>> /\ vr.thread = "waitQueue"
    BY <1>9 DEF VrSpuriousWakeup
  <2>1. /\ vr'.held = vr.held /\ vr'.queue = vr.queue /\ vr'.range = vr.range
        /\ vr'.thread = "ready"
    BY <1>9, <1>t DEF VrSpuriousWakeup, VrState
  <2>2. WorkInv'
    BY <2>0, <2>1, WorkSame DEF PipeInv, WorkInv
  <2>3. RangeInv'
    BY <2>0, <2>1, DelayedSame, RangeKept DEF PipeInv, RangeInv
  <2>4. WakeInv'
    BY <2>0, <2>1 DEF PipeInv, WakeInv, SinksWakeUp
  <2> QED BY <2>2, <2>3, <2>4 DEF PipeInv
<1>10. CASE V4Take \/ V4Write \/ V4SpuriousWakeup
  <2>0. UNCHANGED <<setup, work, decoder, vr>>
    BY <1>10 DEF V4Take, V4Write, V4SpuriousWakeup
  <2>1. WorkInv'
    BY <2>0 DEF PipeInv, WorkInv
  <2>2. RangeInv'
    BY <2>0, DelayedSame DEF PipeInv, RangeInv
  <2>3. WakeInv'
    <3>1. CASE V4Take
      BY <2>0, <3>1, <1>t DEF PipeInv, WakeInv, SinksWakeUp, V4Take, V4State
    <3>2. CASE V4Write \/ V4SpuriousWakeup
      BY <2>0, <3>2, <1>t DEF PipeInv, WakeInv, SinksWakeUp, V4Write,
          V4SpuriousWakeup, V4State
    <3> QED BY <1>10, <3>1, <3>2
  <2> QED BY <2>1, <2>2, <2>3 DEF PipeInv
<1> QED BY <1>1, <1>2, <1>3, <1>4, <1>5, <1>6, <1>7, <1>8, <1>9, <1>10 DEF VideoNext

--------------------------------------------------------------------------------
(* The way of the frames                                                   *)

LineInv == WayInv /\ StraightInv

(* The parts of the way after a step, one by one.                          *)
LEMMA WayIs ==
    ASSUME InLine(Held(scr'.frame), Held(scr'.resume), Held(slot'.frame),
                  Heading("regulator")', Held(vr'.held), Held(vr'.queue), Heading("decoder")'),
           Sorted(vr'.queue),
           Held(scr'.frame) \cup Held(scr'.resume) \cup Held(slot'.frame)
             \cup Heading("regulator")' \cup Held(vr'.held) \cup Held(vr'.queue)
             \cup Heading("decoder")' \subseteq 1..stream'.count
    PROVE  WayInv'
<1>1. /\ Held(scr.frame)' = Held(scr'.frame) /\ Held(scr.resume)' = Held(scr'.resume)
      /\ Held(slot.frame)' = Held(slot'.frame) /\ Held(vr.held)' = Held(vr'.held)
      /\ Held(vr.queue)' = Held(vr'.queue) /\ Sorted(vr.queue)' = Sorted(vr'.queue)
  BY DEF Held, Sorted
<1>2. Delayed' = Heading("regulator")' \cup Held(vr'.held) \cup Held(vr'.queue)
  BY <1>1 DEF Delayed
<1>3. OnTheWay' = Held(scr'.frame) \cup Held(scr'.resume) \cup Held(slot'.frame)
                  \cup Delayed' \cup Heading("decoder")'
  BY <1>1 DEF OnTheWay
<1>4. OnTheWay' \subseteq 1..stream'.count
  BY <1>2, <1>3
<1>5. InLine(Held(scr.frame), Held(scr.resume), Held(slot.frame), Heading("regulator"),
             Held(vr.held), Held(vr.queue), Heading("decoder"))'
  BY <1>1 DEF InLine, Before
<1> QED BY <1>1, <1>4, <1>5 DEF WayInv

(* What is pushed at once still has nothing delayed before it.             *)
LEMMA StraightKept ==
    ASSUME StraightInv, \/ scr' = scr
                        \/ scr'.paused
                        \/ scr'.resume = <<>>,
           Delayed' \subseteq Delayed,
           \/ work'["decoder"] = work["decoder"]
           \/ \A i \in 1..Len(work'["decoder"]) : work'["decoder"][i][1] # "screen"
           \/ Delayed' = {}
    PROVE  StraightInv'
  BY DEF StraightInv

(* Frames go away, or none moves.                                          *)
LEMMA WayLess ==
    ASSUME WayInv, UNCHANGED <<stream>>, Held(scr'.frame) \subseteq Held(scr.frame),
           Held(scr'.resume) \subseteq Held(scr.resume),
           Held(slot'.frame) \subseteq Held(slot.frame),
           Heading("regulator")' \subseteq Heading("regulator"),
           Held(vr'.held) \subseteq Held(vr.held), Held(vr'.queue) \subseteq Held(vr.queue),
           Heading("decoder")' \subseteq Heading("decoder"), Sorted(vr'.queue)
    PROVE  WayInv'
<1>1. InLine(Held(scr'.frame), Held(scr'.resume), Held(slot'.frame),
             Heading("regulator")', Held(vr'.held), Held(vr'.queue), Heading("decoder")')
  BY DEF WayInv, InLine, Before
<1>2. Held(scr'.frame) \cup Held(scr'.resume) \cup Held(slot'.frame)
        \cup Heading("regulator")' \cup Held(vr'.held) \cup Held(vr'.queue)
        \cup Heading("decoder")' \subseteq 1..stream'.count
  BY DEF WayInv, OnTheWay, Delayed
<1> QED BY <1>1, <1>2, WayIs

(* The work of p comes to its end, the rest is unchanged.                  *)
LEMMA WayDone ==
    ASSUME VideoTypes, PipeInv, LineInv, NEW p \in Producers, UNCHANGED <<stream, slot, scr>>,
           vr'.held = vr.held, vr'.queue = vr.queue,
           work[p] # <<>>, work' = Done(p) \/ work' = [work EXCEPT ![p] = <<>>]
    PROVE  LineInv'
<1>0. WorkShape
  BY WorkShapeIs DEF PipeInv
<1>p. p = "decoder" \/ p = "regulator"
  BY DEF Producers
<1>1. Heading(p)' = {} /\ OthersKept(p)
  BY <1>0, DoneHeads, GivenUpHeads
<1>2. Heading("regulator")' \subseteq Heading("regulator")
      /\ Heading("decoder")' \subseteq Heading("decoder")
  BY <1>1, <1>p DEF OthersKept, Producers
<1>3. WayInv'
  BY <1>2, WayLess DEF LineInv, WayInv
<1>4. Delayed' \subseteq Delayed
  BY <1>1, HeadDelayed
<1>5. \/ work'["decoder"] = work["decoder"]
      \/ \A i \in 1..Len(work'["decoder"]) : work'["decoder"][i][1] # "screen"
  <2>1. CASE p = "regulator"
    BY <1>0, <2>1 DEF WorkShape, Producers, Done
  <2>2. CASE p = "decoder" /\ work' = Done(p)
    <3>1. \A i \in 1..Len(work'[p]) : work'[p][i][1] = "v4l2"
      BY <1>0, <2>2, DoneIs
    <3> QED BY <2>2, <3>1
  <2>3. CASE p = "decoder" /\ work' = [work EXCEPT ![p] = <<>>]
    <3>1. Len(work'[p]) = 0
      BY <1>0, <2>3, GivenUpIs
    <3>2. 1..0 = {}
      OBVIOUS
    <3> QED BY <2>3, <3>1, <3>2
  <2> QED BY <1>p, <2>1, <2>2, <2>3
<1>6. StraightInv'
  BY <1>4, <1>5, StraightKept DEF LineInv
<1> QED BY <1>3, <1>6 DEF LineInv

(* A new frame comes after all the others.                                 *)
LEMMA DecodeWay ==
    ASSUME VideoTypes, PipeInv, LineInv, Decode, UNCHANGED scr
    PROVE  LineInv'
<1>0. UNCHANGED <<setup, decoder, slot, vr, v4>> /\ WorkShape /\ work["decoder"] = <<>>
  BY WorkShapeIs DEF Decode, PipeInv
<1>1. PICK item \in LiveItem :
         /\ work' = [work EXCEPT !["decoder"] = Route(item)]
         /\ item.n \in {0, stream.count + 1} /\ stream'.count = stream.count + 1
  BY DecodeIs
<1>2. Heading("decoder")' = {item.n} \ {0} /\ OthersKept("decoder")
  BY <1>0, <1>1, RouteHeads
<1>3. Heading("regulator")' = Heading("regulator")
  BY <1>2 DEF OthersKept, Producers
<1>4. stream.count \in Nat
  BY SetupIs DEF VideoTypes
<1>5. OnTheWay \subseteq 1..stream.count
  BY DEF LineInv, WayInv
<1>6. \A n \in OnTheWay, m \in {item.n} \ {0} : n < m
  BY <1>1, <1>4, <1>5
<1>7. 1..stream.count \subseteq 1..stream'.count /\ {item.n} \ {0} \subseteq 1..stream'.count
  BY <1>1, <1>4
<1>8. WayInv'
  <2>1. InLine(Held(scr.frame), Held(scr.resume), Held(slot.frame), Heading("regulator"),
               Held(vr.held), Held(vr.queue), {item.n} \ {0})
    BY <1>6 DEF LineInv, WayInv, InLine, Before, OnTheWay, Delayed
  <2>2. OnTheWay \cup ({item.n} \ {0}) \subseteq 1..stream'.count
    BY <1>5, <1>7
  <2> QED BY <1>0, <1>2, <1>3, <2>1, <2>2, WayIs DEF LineInv, WayInv, OnTheWay,
      Delayed
<1>9. Delayed' = Delayed
  BY <1>0, <1>1, DelayedSame DEF WorkShape, Producers
<1>10. setup.regulated \/ Delayed' = {}
  BY <1>9 DEF PipeInv, RangeInv
<1>11. setup.regulated => \A i \in 1..Len(work'["decoder"]) : work'["decoder"][i][1] # "screen"
  <2>1. work'["decoder"] = Route(item)
    BY <1>0, <1>1 DEF WorkShape, Producers
  <2>2. /\ Len(Route(item)) \in {1, 2}
        /\ Route(item)[1][1] = IF setup.regulated THEN "regulator" ELSE "screen"
        /\ Len(Route(item)) = 2 => Route(item)[2][1] = "v4l2"
    BY RouteIs
  <2>3. \A l \in {1, 2} : \A i \in 1..l : i = 1 \/ (i = 2 /\ l = 2)
    OBVIOUS
  <2>4. \A i \in 1..Len(Route(item)) : i = 1 \/ (i = 2 /\ Len(Route(item)) = 2)
    BY <2>2, <2>3
  <2> QED BY <2>1, <2>2, <2>4
<1>12. StraightInv'
  BY <1>9, <1>10, <1>11, StraightKept DEF LineInv
<1> QED BY <1>8, <1>12 DEF LineInv

(* A frame comes to the screen from the regulator, or straight from the    *)
(* decoder, and then the regulator has none.                               *)
LEMMA ScreenPushWay ==
    ASSUME VideoTypes, PipeInv, LineInv, NEW p \in Producers, PushToScreen(p), UNCHANGED scr
    PROVE  LineInv'
<1> DEFINE item == ItemOf(p)
<1>0. UNCHANGED <<stream, vr>> /\ work[p] # <<>> /\ WorkShape
  BY WorkShapeIs DEF PushToScreen, Next_, PipeInv
<1>p. p = "decoder" \/ p = "regulator"
  BY DEF Producers
<1>i. /\ item \in LiveItem /\ <<"post", item>> \in WorkStep /\ work[p][1] = <<"screen", item>>
      /\ Len(work[p]) \in Nat \ {0}
  BY ItemIs DEF PushToScreen, WorkStep
<1>w. \/ work' = Done(p)
      \/ work' = [work EXCEPT ![p] = <<<<"post", item>>>> \o Tail(work[p])]
  BY DEF PushToScreen
<1>s. \/ slot' = [slot EXCEPT !.frame = <<item>>, !.prevent = slot.session.client]
      \/ slot' = [slot EXCEPT !.session = item.session]
  BY DEF PushToScreen
<1>f. slot'.frame = slot.frame \/ slot'.frame = <<item>>
  BY <1>s DEF VideoTypes, SlotState
<1> HIDE DEF item
<1>1. Heading(p) = {item.n} \ {0}
  BY <1>0, <1>i, FirstIs DEF Heading
<1>2. Heading(p)' = {} /\ OthersKept(p)
  BY <1>0, <1>i, <1>w, DoneHeads, ContinuedHeads
<1>3. Held(slot'.frame) = Held(slot.frame) \/ Held(slot'.frame) = Heading(p)
  BY <1>1, <1>f, HeldIs
<1>4. p = "decoder" => Heading(p) = {} \/ Delayed = {}
  <2> SUFFICES ASSUME p = "decoder", item.n # 0 PROVE Delayed = {}
    BY <1>1
  <2>1. 1 \in 1..Len(work["decoder"]) /\ work["decoder"][1][1] = "screen"
        /\ work["decoder"][1][2].n # 0
    BY <1>i
  <2> QED BY <2>1 DEF LineInv, StraightInv
<1>5. Held(vr'.held) = Held(vr.held) /\ Held(vr'.queue) = Held(vr.queue) /\ Sorted(vr'.queue)
      /\ Held(scr'.frame) = Held(scr.frame) /\ Held(scr'.resume) = Held(scr.resume)
  BY <1>0 DEF LineInv, WayInv
<1>6. WayInv'
  <2>1. CASE p = "regulator"
    <3>1. Heading("regulator")' = {} /\ Heading("decoder")' = Heading("decoder")
      BY <1>2, <2>1 DEF OthersKept, Producers
    <3>2. InLine(Held(scr.frame), Held(scr.resume), Held(slot'.frame), {}, Held(vr.held),
                 Held(vr.queue), Heading("decoder"))
      BY <1>3, <2>1 DEF LineInv, WayInv, InLine, Before
    <3>3. Held(scr.frame) \cup Held(scr.resume) \cup Held(slot'.frame) \cup Held(vr.held)
            \cup Held(vr.queue) \cup Heading("decoder") \subseteq 1..stream'.count
      BY <1>0, <1>3, <2>1 DEF LineInv, WayInv, OnTheWay, Delayed
    <3> QED BY <1>5, <3>1, <3>2, <3>3, WayIs
  <2>2. CASE p = "decoder"
    <3>1. Heading("regulator")' = Heading("regulator") /\ Heading("decoder")' = {}
      BY <1>2, <2>2 DEF OthersKept, Producers
    <3>2. InLine(Held(scr.frame), Held(scr.resume), Held(slot'.frame), Heading("regulator"),
                 Held(vr.held), Held(vr.queue), {})
      <4>1. CASE Held(slot'.frame) = Held(slot.frame)
        BY <4>1 DEF LineInv, WayInv, InLine, Before
      <4>2. CASE Held(slot'.frame) = Heading("decoder") /\ Delayed = {}
        BY <4>2 DEF LineInv, WayInv, InLine, Before, Delayed
      <4>3. CASE Held(slot'.frame) = Heading("decoder") /\ Heading("decoder") = {}
        BY <4>3 DEF LineInv, WayInv, InLine, Before
      <4> QED BY <1>3, <1>4, <2>2, <4>1, <4>2, <4>3
    <3>3. Held(scr.frame) \cup Held(scr.resume) \cup Held(slot'.frame) \cup Heading("regulator")
            \cup Held(vr.held) \cup Held(vr.queue) \subseteq 1..stream'.count
      BY <1>0, <1>3, <2>2 DEF LineInv, WayInv, OnTheWay, Delayed
    <3> QED BY <1>5, <3>1, <3>2, <3>3, WayIs
  <2> QED BY <1>p, <2>1, <2>2
<1>7. Delayed' \subseteq Delayed
  BY <1>0, <1>2, HeadDelayed
<1>8. \/ work'["decoder"] = work["decoder"]
      \/ \A i \in 1..Len(work'["decoder"]) : work'["decoder"][i][1] # "screen"
  <2>1. CASE p = "regulator"
    BY <1>0, <1>w, <2>1 DEF WorkShape, Producers, Done
  <2>2. CASE p = "decoder" /\ work' = Done(p)
    <3>1. \A i \in 1..Len(work'[p]) : work'[p][i][1] = "v4l2"
      BY <1>0, <2>2, DoneIs
    <3> QED BY <2>2, <3>1
  <2>3. CASE p = "decoder" /\ work' = [work EXCEPT ![p] = <<<<"post", item>>>> \o Tail(work[p])]
    <3>1. /\ work'[p][1] = <<"post", item>> /\ Len(work'[p]) = Len(work[p])
          /\ \A i \in 2..Len(work'[p]) : work'[p][i] = work[p][i]
      BY <1>0, <1>i, <2>3, ContinuedIs
    <3>2. \A i \in 1..Len(work[p]) : i = 1 \/ i \in 2..Len(work[p])
      BY <1>i
    <3>3. \A i \in 2..Len(work[p]) : work[p][i][1] = "v4l2"
      BY DEF PipeInv, WorkInv
    <3> QED BY <2>3, <3>1, <3>2, <3>3
  <2> QED BY <1>p, <1>w, <2>1, <2>2, <2>3
<1>9. StraightInv'
  BY <1>7, <1>8, StraightKept DEF LineInv
<1> QED BY <1>6, <1>9 DEF LineInv

(* An event moves no frame.                                                *)
LEMMA PostWay ==
    ASSUME VideoTypes, PipeInv, LineInv, NEW p \in Producers, PostNewFrame(p), UNCHANGED scr
    PROVE  LineInv'
<1>0. UNCHANGED <<stream, slot>> /\ work[p] # <<>>
  BY DEF PostNewFrame, Next_
<1>1. CASE Fail(p)
  <2>1. vr'.held = vr.held /\ vr'.queue = vr.queue
    BY <1>1, FailIs DEF PipeInv, VideoTypes, VrState
  <2>2. work' = [work EXCEPT ![p] = <<>>]
    BY <1>1 DEF Fail
  <2> QED BY <1>0, <2>1, <2>2, WayDone
<1>2. CASE work' = Done(p) /\ UNCHANGED vr
  BY <1>0, <1>2, WayDone
<1> QED BY <1>1, <1>2 DEF PostNewFrame

(* V4L2 is not on the way to the screen.                                   *)
LEMMA V4PushWay ==
    ASSUME VideoTypes, PipeInv, LineInv, PushToV4l2("decoder"), UNCHANGED scr
    PROVE  LineInv'
<1>0. /\ UNCHANGED <<stream, slot, vr>> /\ work["decoder"] # <<>> /\ work' = Done("decoder")
      /\ "decoder" \in Producers
  BY DEF PushToV4l2, Next_, Producers
<1> QED BY <1>0, WayDone

(* A frame is queued behind those it follows, or passes an empty regulator. *)
LEMMA RegulatorWay ==
    ASSUME VideoTypes, PipeInv, LineInv, PushToRegulator("decoder"), UNCHANGED scr
    PROVE  LineInv'
<1> DEFINE item == ItemOf("decoder")
           range == IF vr.range < 2 THEN vr.range + 1 ELSE 2
           next == IF IsFrame(item) THEN range ELSE vr.range
<1>d. "decoder" \in Producers /\ "regulator" \in Producers /\ "decoder" # "regulator"
  BY DEF Producers
<1>0. UNCHANGED <<setup, stream, slot>> /\ work["decoder"] # <<>> /\ WorkShape /\ WorkInv
  BY WorkShapeIs DEF PushToRegulator, Next_, PipeInv
<1>t. vr \in VrState /\ vr.queue \in Seq(LiveItem)
  BY DEF VideoTypes, VrState
<1>1. item \in LiveItem /\ next \in 0..2 /\ range \in 1..2 /\ <<"screen", item>> \in WorkStep
  BY <1>0, <1>t, RegulatorIs DEF WorkStep, VrState
<1>i. work["decoder"][1] = <<"regulator", item>>
  BY <1>d, ItemIs DEF PushToRegulator
<1>h. Heading("decoder") = {item.n} \ {0}
  <2> HIDE DEF item
  <2> QED BY <1>0, <1>i, FirstIs DEF Heading
<1>3. CASE Fail("decoder")
  <2>1. /\ work' = [work EXCEPT !["decoder"] = <<>>] /\ vr' = vr
    BY <1>3 DEF Fail
  <2> QED BY <1>0, <1>d, <2>1, WayDone
<1>4. CASE /\ vr' = [Enqueued(item) EXCEPT !.range = next] /\ work' = Done("decoder")
  <2>1. vr'.queue = Append(vr.queue, item) /\ vr'.held = vr.held
    <3> HIDE DEF item, next
    <3>1. Enqueued(item) \in VrState
      BY <1>1, EnqueuedIs
    <3>2. vr'.queue = Enqueued(item).queue /\ vr'.held = Enqueued(item).held
      BY <1>4, <3>1 DEF VrState
    <3> QED BY <1>1, <3>2, EnqueuedIs
  <2>2. Heading("decoder")' = {} /\ Heading("regulator")' = Heading("regulator")
    BY <1>d, <1>0, <1>4, DoneHeads DEF OthersKept
  <2>3. Sorted(vr.queue) /\ \A n \in Held(vr.queue) : item.n # 0 => n < item.n
    BY <1>h DEF LineInv, WayInv, InLine, Before
  <2>4. Held(vr'.queue) = Held(vr.queue) \cup Heading("decoder") /\ Sorted(vr'.queue)
    BY <1>1, <1>t, <1>h, <2>1, <2>3, HeldAppend
  <2>5. WayInv'
    <3>1. InLine(Held(scr.frame), Held(scr.resume), Held(slot.frame), Heading("regulator"),
                 Held(vr.held), Held(vr.queue) \cup Heading("decoder"), {})
      BY DEF LineInv, WayInv, InLine, Before
    <3>2. Held(scr.frame) \cup Held(scr.resume) \cup Held(slot.frame) \cup Heading("regulator")
            \cup Held(vr.held) \cup (Held(vr.queue) \cup Heading("decoder"))
          \subseteq 1..stream'.count
      BY <1>0 DEF LineInv, WayInv, OnTheWay, Delayed
    <3> QED BY <1>0, <2>1, <2>2, <2>4, <3>1, <3>2, WayIs
  <2>6. \A i \in 1..Len(work'["decoder"]) : work'["decoder"][i][1] # "screen"
    <3>1. \A i \in 1..Len(work'["decoder"]) : work'["decoder"][i][1] = "v4l2"
      BY <1>d, <1>0, <1>4, DoneIs
    <3> QED BY <3>1
  <2>7. StraightInv'
    BY <2>6 DEF LineInv, StraightInv
  <2> QED BY <2>5, <2>7 DEF LineInv
<1>5. CASE /\ IsFrame(item) /\ range = 1 /\ vr.range = 0
           /\ vr' = [vr EXCEPT !.range = range]
           /\ work' = [work EXCEPT !["decoder"] = <<<<"screen", item>>>> \o Tail(work["decoder"])]
  <2>1. vr'.queue = vr.queue /\ vr'.held = vr.held
    BY <1>5, <1>t DEF VrState
  <2>2. Delayed = {}
    BY <1>5 DEF PipeInv, RangeInv
  <2> HIDE DEF item, range, next
  <2>3. Heading("decoder")' = {item.n} \ {0} /\ OthersKept("decoder")
    BY <1>d, <1>0, <1>1, <1>5, ContinuedHeads
  <2>4. Heading("decoder")' = Heading("decoder") /\ Heading("regulator")' = Heading("regulator")
    BY <1>d, <1>h, <2>3 DEF OthersKept
  <2>5. WayInv'
    BY <1>0, <2>1, <2>4, WayLess DEF LineInv, WayInv
  <2>6. work'["regulator"] = work["regulator"]
    BY <1>d, <1>0, <1>1, <1>5, ContinuedIs
  <2>7. Delayed' = {}
    BY <2>1, <2>2, <2>6, DelayedSame
  <2>8. StraightInv'
    BY <2>7, StraightKept DEF LineInv
  <2> QED BY <2>5, <2>8 DEF LineInv
<1> QED BY <1>0, <1>3, <1>4, <1>5, RegulatorIs

(* Flushing the regulator only removes frames.                             *)
LEMMA FlushWay ==
    ASSUME LineInv, UNCHANGED <<stream, slot, scr, work>>, vr'.held = <<>>, vr'.queue = <<>>
    PROVE  LineInv'
<1>1. Held(vr'.held) = {} /\ Held(vr'.queue) = {}
  BY HeldIs
<1>2. Sorted(vr'.queue)
  <2>1. Len(vr'.queue) = 0 /\ 1..0 = {}
    OBVIOUS
  <2> QED BY <2>1 DEF Sorted
<1>3. Heading("regulator")' = Heading("regulator") /\ Heading("decoder")' = Heading("decoder")
  BY DEF Heading
<1>4. WayInv'
  BY <1>1, <1>2, <1>3, WayLess DEF LineInv
<1>5. Delayed' \subseteq Delayed
  BY <1>1, <1>3, DelayedIs DEF Delayed
<1>6. StraightInv'
  BY <1>5, StraightKept DEF LineInv
<1> QED BY <1>4, <1>6 DEF LineInv

(* The head of the queue is held or given.                                 *)
LEMMA TakeWay ==
    ASSUME VideoTypes, PipeInv, LineInv, VrTake, UNCHANGED scr
    PROVE  LineInv'
<1>0. /\ UNCHANGED <<setup, stream, slot>> /\ work["regulator"] = <<>> /\ vr.thread = "ready"
      /\ WorkShape /\ "regulator" \in Producers
  BY WorkShapeIs DEF VrTake, PipeInv, Producers
<1>t. vr \in VrState /\ vr.queue \in Seq(LiveItem) /\ vr.held = <<>>
  BY <1>0 DEF VideoTypes, VrState, PipeInv, RangeInv
<1>g. Heading("regulator") = {} /\ Held(vr.held) = {}
  BY <1>0, <1>t, HeldIs DEF Heading, HeadingOf
<1>1. CASE vr' = VrFlushed /\ work' = work
  BY <1>0, <1>1, FlushedIs, FlushWay
<1>2. CASE work' = work /\ vr' = [vr EXCEPT !.thread = "waitQueue"]
  <2>1. vr'.held = vr.held /\ vr'.queue = vr.queue
    BY <1>2, <1>t DEF VrState
  <2>2. Heading("regulator")' = Heading("regulator") /\ Heading("decoder")' = Heading("decoder")
    BY <1>2 DEF Heading
  <2>3. WayInv'
    BY <1>0, <2>1, <2>2, WayLess DEF LineInv, WayInv
  <2>4. StraightInv'
    BY <1>2, <2>1, DelayedSame, StraightKept DEF LineInv
  <2> QED BY <2>3, <2>4 DEF LineInv
<1>3. CASE /\ vr.queue # <<>> /\ IsFrame(vr.queue[1]) /\ work' = work /\ vr.queue[1] \in LiveItem
           /\ vr' = [vr EXCEPT !.queue = Tail(vr.queue), !.held = <<vr.queue[1]>>,
                               !.thread = "waitDate"]
  <2>1. vr'.held = <<vr.queue[1]>> /\ vr'.queue = Tail(vr.queue)
    BY <1>3, <1>t DEF VrState
  <2>2. vr.queue[1].n # 0
    BY <1>3, SetupIs DEF IsFrame, LiveItem
  <2>3. /\ Held(vr'.held) = {vr.queue[1].n} /\ vr.queue[1].n \in Held(vr.queue)
        /\ Held(vr'.queue) \subseteq Held(vr.queue) /\ Sorted(vr'.queue)
        /\ \A n \in Held(vr'.queue) : vr.queue[1].n < n
    <3>1. Sorted(vr.queue)
      BY DEF LineInv, WayInv
    <3>2. Held(<<vr.queue[1]>>) = {vr.queue[1].n} \ {0}
      BY HeldIs
    <3>3. /\ vr.queue[1].n \in Held(vr.queue) /\ Held(Tail(vr.queue)) \subseteq Held(vr.queue)
          /\ Sorted(Tail(vr.queue)) /\ \A n \in Held(Tail(vr.queue)) : vr.queue[1].n < n
      BY <1>3, <1>t, <2>2, <3>1, HeldTail
    <3> QED BY <2>1, <2>2, <3>2, <3>3
  <2>4. Heading("regulator")' = Heading("regulator") /\ Heading("decoder")' = Heading("decoder")
    BY <1>3 DEF Heading
  <2>5. WayInv'
    <3>1. InLine(Held(scr.frame), Held(scr.resume), Held(slot.frame), {}, Held(vr'.held),
                 Held(vr'.queue), Heading("decoder"))
      BY <2>3, <1>g DEF LineInv, WayInv, InLine, Before
    <3>2. Held(scr.frame) \cup Held(scr.resume) \cup Held(slot.frame) \cup {}
            \cup Held(vr'.held) \cup Held(vr'.queue) \cup Heading("decoder")
          \subseteq 1..stream'.count
      BY <1>0, <2>3 DEF LineInv, WayInv, OnTheWay, Delayed
    <3> QED BY <1>0, <1>g, <2>3, <2>4, <3>1, <3>2, WayIs
  <2>6. Delayed' \subseteq Delayed
    BY <2>3, <2>4, DelayedIs DEF Delayed
  <2>7. StraightInv'
    BY <1>3, <2>6, StraightKept DEF LineInv
  <2> QED BY <2>5, <2>7 DEF LineInv
<1>4. CASE /\ vr.queue # <<>> /\ ~IsFrame(vr.queue[1]) /\ vr.queue[1] \in LiveItem
           /\ vr' = [vr EXCEPT !.queue = Tail(vr.queue)]
           /\ work' = [work EXCEPT !["regulator"] = <<<<"screen", vr.queue[1]>>>>]
  <2>1. vr'.held = vr.held /\ vr'.queue = Tail(vr.queue)
    BY <1>4, <1>t DEF VrState
  <2>2. vr.queue[1].n = 0
    BY <1>4, SetupIs DEF IsFrame, LiveItem
  <2>3. Held(vr'.queue) \subseteq Held(vr.queue) /\ Sorted(vr'.queue)
    BY <1>4, <1>t, <2>1, HeldTail DEF LineInv, WayInv
  <2>4. <<"screen", vr.queue[1]>> \in WorkStep
    BY <1>4 DEF WorkStep
  <2>5. Heading("regulator")' = {vr.queue[1].n} \ {0} /\ OthersKept("regulator")
    BY <1>0, <1>4, <2>4, GivenHeads
  <2>6. Heading("regulator")' = {} /\ Heading("decoder")' = Heading("decoder")
    BY <2>2, <2>5 DEF OthersKept, Producers
  <2>7. WayInv'
    BY <1>0, <2>1, <2>3, <2>6, WayLess DEF LineInv
  <2>8. Delayed' \subseteq Delayed
    BY <2>1, <2>3, <2>6, DelayedIs DEF Delayed
  <2>9. work'["decoder"] = work["decoder"]
    BY <1>4, <1>0 DEF WorkShape, Producers
  <2>10. StraightInv'
    BY <2>8, <2>9, StraightKept DEF LineInv
  <2> QED BY <2>7, <2>10 DEF LineInv
<1> QED BY <1>1, <1>2, <1>3, <1>4, TakeIs

(* The held frame is given before those that are queued.                   *)
LEMMA DateWay ==
    ASSUME VideoTypes, PipeInv, LineInv, VrDate, UNCHANGED scr
    PROVE  LineInv'
<1>0. /\ UNCHANGED <<setup, stream, slot>> /\ work["regulator"] = <<>> /\ RangeInv
      /\ WorkShape /\ "regulator" \in Producers
  BY WorkShapeIs DEF VrDate, PipeInv, WorkInv, Producers
<1>t. vr \in VrState
  BY DEF VideoTypes
<1>1. CASE vr' = VrFlushed /\ work' = work
  BY <1>0, <1>1, FlushedIs, FlushWay
<1>2. CASE /\ vr.held # <<>> /\ vr.held[1] \in LiveItem
           /\ vr' = [vr EXCEPT !.held = <<>>, !.thread = "ready"]
           /\ work' = [work EXCEPT !["regulator"] = <<<<"screen", vr.held[1]>>>>]
  <2>1. vr'.held = <<>> /\ vr'.queue = vr.queue
    BY <1>2, <1>t DEF VrState
  <2>2. vr.held = <<vr.held[1]>>
    BY <1>2, <1>t DEF VrState, AtMostOne
  <2>3. <<"screen", vr.held[1]>> \in WorkStep
    BY <1>2 DEF WorkStep
  <2>4. Heading("regulator")' = {vr.held[1].n} \ {0} /\ OthersKept("regulator")
    BY <1>0, <1>2, <2>3, GivenHeads
  <2>5. Heading("regulator")' = Held(vr.held) /\ Heading("decoder")' = Heading("decoder")
    BY <2>2, <2>4, HeldIs DEF OthersKept, Producers
  <2>6. Held(vr'.held) = {} /\ Held(vr'.queue) = Held(vr.queue) /\ Sorted(vr'.queue)
    BY <2>1, HeldIs DEF LineInv, WayInv
  <2>7. WayInv'
    <3>1. InLine(Held(scr.frame), Held(scr.resume), Held(slot.frame), Held(vr.held), {},
                 Held(vr.queue), Heading("decoder"))
      BY DEF LineInv, WayInv, InLine, Before
    <3>2. Held(scr.frame) \cup Held(scr.resume) \cup Held(slot.frame) \cup Held(vr.held)
            \cup {} \cup Held(vr.queue) \cup Heading("decoder") \subseteq 1..stream'.count
      BY <1>0 DEF LineInv, WayInv, OnTheWay, Delayed
    <3> QED BY <1>0, <2>5, <2>6, <3>1, <3>2, WayIs
  <2>8. Delayed' \subseteq Delayed
    BY <2>5, <2>6, DelayedIs DEF Delayed
  <2>9. work'["decoder"] = work["decoder"]
    BY <1>2, <1>0 DEF WorkShape, Producers
  <2>10. StraightInv'
    BY <2>8, <2>9, StraightKept DEF LineInv
  <2> QED BY <2>7, <2>10 DEF LineInv
<1> QED BY <1>0, <1>1, <1>2, DateIs

(* The frames stay in line, whatever thread moves.                         *)
LEMMA LineVideoStep ==
    ASSUME VideoTypes, PipeInv, LineInv, VideoNext, UNCHANGED scr
    PROVE  LineInv'
<1>t. vr \in VrState /\ slot \in SlotState
  BY DEF VideoTypes
<1>1. ASSUME UNCHANGED <<work, stream>>, vr'.held = vr.held, vr'.queue = vr.queue,
             slot'.frame = slot.frame
      PROVE  LineInv'
  <2>1. Heading("regulator")' = Heading("regulator") /\ Heading("decoder")' = Heading("decoder")
    BY <1>1 DEF Heading
  <2>2. WayInv'
    BY <1>1, <2>1, WayLess DEF LineInv, WayInv
  <2>3. StraightInv'
    BY <1>1, DelayedSame, StraightKept DEF LineInv
  <2> QED BY <2>2, <2>3 DEF LineInv
<1>2. CASE OpenSinks
  BY <1>1, <1>2, <1>t DEF OpenSinks, VrState, SlotState
<1>3. CASE Decode
  BY <1>3, DecodeWay
<1>4. CASE StreamEnds \/ CloseV4l2 \/ JoinV4l2 \/ CloseRegulator \/ JoinRegulator
  BY <1>1, <1>4, <1>t DEF StreamEnds, CloseV4l2, JoinV4l2, CloseRegulator,
      JoinRegulator, VrState
<1>5. ASSUME NEW p \in Producers, PushToScreen(p) \/ PostNewFrame(p)
      PROVE  LineInv'
  BY <1>5, ScreenPushWay, PostWay
<1>6. CASE PushToV4l2("decoder")
  BY <1>6, V4PushWay
<1>7. CASE PushToRegulator("decoder")
  BY <1>7, RegulatorWay
<1>8. CASE VrTake
  BY <1>8, TakeWay
<1>9. CASE VrDate
  BY <1>9, DateWay
<1>10. CASE VrSpuriousWakeup \/ V4Take \/ V4Write \/ V4SpuriousWakeup
  BY <1>1, <1>10, <1>t DEF VrSpuriousWakeup, V4Take, V4Write, V4SpuriousWakeup,
      VrState
<1> QED BY <1>2, <1>3, <1>4, <1>5, <1>6, <1>7, <1>8, <1>9, <1>10 DEF VideoNext

--------------------------------------------------------------------------------
(* The announcement of the frame                                           *)

EventsTyped == events \in Seq(EventState)
IsClosed == decoder = "closed"

(* Nothing is posted and no frame moves; some producer may give up.        *)
LEMMA AnnounceSame ==
    ASSUME AnnounceInv, UNCHANGED <<ui, scr, events>>, slot'.frame = slot.frame,
           decoder' = "closed" <=> decoder = "closed",
           \A p \in Producers : Posting(p)' => Posting(p),
           \/ \A p \in Producers : Posting(p) => Posting(p)'
           \/ vr'.stopped \/ decoder' # "running",
           vr.stopped => vr'.stopped, decoder # "running" => decoder' # "running"
    PROVE  AnnounceInv'
<1>1. IsOpened' = IsOpened
  BY DEF IsOpened
<1> QED BY <1>1 DEF AnnounceInv, Producers

(* Opening the sinks announces the window before any frame.                *)
LEMMA OpenAnnounce ==
    ASSUME VideoTypes, EventsTyped, PipeInv, AnnounceInv, OpenSinks, UNCHANGED screenVars
    PROVE  AnnounceInv'
<1> DEFINE e == [type |-> "open", size |-> stream.session.size]
<1>0. /\ decoder = "closed" /\ decoder' # "closed" /\ work' = work /\ slot'.frame = slot.frame
      /\ events' = Append(events, e) /\ ui' = ui /\ scr' = scr
  BY DEF OpenSinks, Post, VideoTypes, SlotState, screenVars
<1>1. slot.frame = <<>>
  BY <1>0 DEF AnnounceInv
<1>2. e \in EventState /\ e.type = "open"
  BY DEF EventState, SizedTypes, VideoTypes, LiveSession
<1> HIDE DEF e
<1>3. /\ Len(events') = Len(events) + 1 /\ Len(events) \in Nat /\ events'[Len(events) + 1] = e
      /\ \A i \in 1..Len(events) : events'[i] = events[i]
  BY <1>0, <1>2, AppendIs DEF EventsTyped
<1>4. \A p \in Producers : Posting(p)' = Posting(p)
  BY <1>0 DEF Posting
<1>5. CASE ui # "loop"
  BY <1>0, <1>5 DEF AnnounceInv
<1>6. CASE ui = "loop"
  <2>1. /\ \A i \in 1..Len(events) : events[i].type # "frame"
        /\ \A p \in Producers : ~Posting(p)
    BY <1>1, <1>6 DEF AnnounceInv
  <2>2. \A i \in 1..Len(events') : i \in 1..Len(events) \/ i = Len(events) + 1
    BY <1>3
  <2>3. \A i \in 1..Len(events') : events'[i].type # "frame"
    BY <1>2, <1>3, <2>1, <2>2
  <2>4. IsOpened'
    <3>1. Len(events) + 1 \in 1..Len(events')
      BY <1>3
    <3> QED BY <1>2, <1>3, <3>1 DEF IsOpened
  <2> QED BY <1>0, <1>1, <1>4, <2>1, <2>3, <2>4 DEF AnnounceInv, Producers
<1> QED BY <1>5, <1>6

(* The sinks are open when a producer has work.                            *)
LEMMA WorkIsOpen ==
    ASSUME PipeInv, NEW p \in Producers, work[p] # <<>>
    PROVE  decoder # "closed"
  BY DEF PipeInv, WorkInv, Producers

(* A push to an empty slot is announced next; a full one already is.       *)
LEMMA ScreenPushAnnounce ==
    ASSUME VideoTypes, PipeInv, AnnounceInv, NEW p \in Producers, PushToScreen(p),
           UNCHANGED <<ui, scr>>
    PROVE  AnnounceInv'
<1> DEFINE item == ItemOf(p)
<1>0. UNCHANGED <<events, decoder, vr>> /\ work[p] # <<>> /\ WorkShape /\ decoder # "closed"
  BY WorkShapeIs, WorkIsOpen DEF PushToScreen, Next_, PipeInv
<1>i. /\ item \in LiveItem /\ <<"post", item>> \in WorkStep /\ work[p][1] = <<"screen", item>>
  BY ItemIs DEF PushToScreen, WorkStep
<1>n. ~Posting(p)
  BY <1>0, <1>i, FirstIs DEF Posting
<1>1. CASE work' = Done(p) /\ (slot'.frame = slot.frame \/ (slot.frame # <<>> /\ slot'.frame # <<>>))
  <2>0. ~Posting(p)' /\ OthersKept(p)
    BY <1>0, <1>1, DoneHeads
  <2>1. \A q \in Producers : Posting(q)' <=> Posting(q)
    BY <2>0, <1>n DEF OthersKept
  <2>2. (slot'.frame = <<>>) = (slot.frame = <<>>)
    BY <1>1
  <2>3. IsOpened' = IsOpened
    BY <1>0 DEF IsOpened
  <2> QED BY <1>0, <2>1, <2>2, <2>3 DEF AnnounceInv, Producers
<1>2. CASE /\ slot.frame = <<>> /\ slot'.frame # <<>>
           /\ work' = [work EXCEPT ![p] = <<<<"post", item>>>> \o Tail(work[p])]
  <2> HIDE DEF item
  <2>1. Posting(p)' /\ OthersKept(p)
    BY <1>0, <1>i, <1>2, ContinuedHeads
  <2>2. CASE ui # "loop"
    BY <1>0, <2>2 DEF AnnounceInv
  <2>3. CASE ui = "loop"
    <3>1. /\ \A i \in 1..Len(events) : events[i].type # "frame"
          /\ \A q \in Producers : ~Posting(q) /\ IsOpened
      BY <1>0, <1>2, <2>3 DEF AnnounceInv, Producers
    <3>2. \A q \in Producers \ {p} : ~Posting(q)'
      BY <2>1, <3>1 DEF OthersKept
    <3>3. ~(Posting("decoder")' /\ Posting("regulator")')
      BY <3>2 DEF Producers
    <3>4. IsOpened' = IsOpened
      BY <1>0 DEF IsOpened
    <3> QED BY <1>0, <1>2, <2>1, <3>1, <3>2, <3>3, <3>4 DEF AnnounceInv, Producers
  <2> QED BY <2>2, <2>3
<1>3. \/ work' = Done(p) /\ (slot'.frame = slot.frame \/ (slot.frame # <<>> /\ slot'.frame # <<>>))
      \/ /\ slot.frame = <<>> /\ slot'.frame # <<>>
         /\ work' = [work EXCEPT ![p] = <<<<"post", item>>>> \o Tail(work[p])]
  <2>1. slot \in SlotState /\ <<item>> # <<>>
    BY DEF VideoTypes
  <2>2. CASE IsFrame(item)
    <3>1. slot' = [slot EXCEPT !.frame = <<item>>, !.prevent = slot.session.client]
      BY <2>2 DEF PushToScreen
    <3>2. slot'.frame = <<item>>
      BY <2>1, <3>1 DEF SlotState
    <3> QED BY <2>1, <2>2, <3>2 DEF PushToScreen
  <2>3. CASE ~IsFrame(item)
    <3>1. slot' = [slot EXCEPT !.session = item.session] /\ work' = Done(p)
      BY <2>3 DEF PushToScreen
    <3>2. slot'.frame = slot.frame
      BY <2>1, <3>1 DEF SlotState
    <3> QED BY <3>1, <3>2
  <2> QED BY <2>2, <2>3
<1> QED BY <1>1, <1>2, <1>3

(* The event is posted by the one who had to.                              *)
LEMMA PostAnnounce ==
    ASSUME VideoTypes, EventsTyped, PipeInv, AnnounceInv, NEW p \in Producers, PostNewFrame(p),
           UNCHANGED <<ui, scr>>
    PROVE  AnnounceInv'
<1>0. UNCHANGED slot /\ work[p] # <<>> /\ WorkShape /\ decoder # "closed"
      /\ slot'.frame = slot.frame
  BY WorkShapeIs, WorkIsOpen DEF PostNewFrame, Next_, PipeInv
<1>n. Posting(p)
  <2>1. Next_(p, "post")
    BY DEF PostNewFrame
  <2>2. work[p][1][1] = "post"
    BY <2>1, ItemIs
  <2> QED BY <1>0, <2>2 DEF Posting, PostsFirst
<1>1. CASE Fail(p) /\ UNCHANGED events
  <2>1. ~Posting(p)' /\ OthersKept(p)
    BY <1>0, <1>1, GivenUpHeads DEF Fail
  <2>2. \A q \in Producers : Posting(q)' => Posting(q)
    BY <2>1 DEF OthersKept
  <2>3. /\ vr'.stopped \/ decoder' # "running"
        /\ decoder' # "closed" /\ (vr.stopped => vr'.stopped)
        /\ decoder # "running" => decoder' # "running"
    BY <1>0, <1>1, FailIs DEF Producers, PipeInv
  <2> QED BY <1>0, <1>1, <2>2, <2>3, AnnounceSame
<1>2. CASE Post(Event("frame")) /\ work' = Done(p) /\ UNCHANGED <<decoder, vr>>
  <2>1. ~Posting(p)' /\ OthersKept(p)
    BY <1>0, <1>2, DoneHeads
  <2>2. CASE ui # "loop"
    BY <1>0, <1>2, <2>2 DEF AnnounceInv
  <2>3. CASE ui = "loop"
    <3> DEFINE e == Event("frame")
    <3>1. e \in EventState /\ e.type = "frame"
      BY DEF EventState, PlainTypes, Event
    <3> HIDE DEF e
    <3>2. /\ Len(events') = Len(events) + 1 /\ Len(events) \in Nat /\ events'[Len(events) + 1] = e
          /\ \A i \in 1..Len(events) : events'[i] = events[i]
      BY <1>2, <3>1, AppendIs DEF EventsTyped, Post, e
    <3>3. /\ \A i \in 1..Len(events) : events[i].type # "frame"
          /\ slot.frame # <<>> /\ IsOpened
          /\ \A q \in Producers \ {p} : ~Posting(q)
      BY <1>0, <1>n, <2>3 DEF AnnounceInv, Producers
    <3>4. \A i \in 1..Len(events') : i \in 1..Len(events) \/ i = Len(events) + 1
      BY <3>2
    <3>5. \A i \in 1..Len(events') : events'[i].type = "frame" => i = Len(events) + 1
      BY <3>2, <3>3, <3>4
    <3>6. \A q \in Producers : ~Posting(q)'
      BY <2>1, <3>3 DEF OthersKept
    <3>7. scr.shown \/ \E j \in 1..Len(events) + 1 : events'[j].type = "open"
      <4>1. CASE scr.shown
        BY <4>1
      <4>2. ASSUME NEW j \in 1..Len(events), events[j].type = "open"
            PROVE  \E k \in 1..Len(events) + 1 : events'[k].type = "open"
        <5>1. j \in 1..Len(events) + 1
          BY <3>2
        <5> QED BY <3>2, <4>2, <5>1
      <4> QED BY <3>3, <4>1, <4>2 DEF IsOpened
    <3>8. Len(events) + 1 \in 1..Len(events') /\ events'[Len(events) + 1].type = "frame"
      BY <3>1, <3>2
    <3>9. IsOpened'
      BY <3>2, <3>7 DEF IsOpened
    <3>10. ~(Posting("decoder")' /\ Posting("regulator")')
      BY <3>6 DEF Producers
    <3>11. \A i, j \in 1..Len(events') :
              events'[i].type = "frame" /\ events'[j].type = "frame" => i = j
      BY <3>5
    <3>12. \A i \in 1..Len(events') : events'[i].type = "frame" =>
               /\ \A q \in Producers : ~Posting(q)'
               /\ slot'.frame # <<>>
               /\ scr'.shown \/ \E j \in 1..i : events'[j].type = "open"
      BY <1>0, <3>3, <3>5, <3>6, <3>7
    <3>13. \E i \in 1..Len(events') : events'[i].type = "frame"
      BY <3>8
    <3> QED BY <1>0, <1>2, <3>6, <3>9, <3>10, <3>11, <3>12, <3>13 DEF AnnounceInv
  <2> QED BY <2>2, <2>3
<1> QED BY <1>1, <1>2 DEF PostNewFrame

(* The regulator announces nothing.                                        *)
LEMMA RegulatorAnnounce ==
    ASSUME VideoTypes, PipeInv, AnnounceInv, PushToRegulator("decoder"), UNCHANGED <<ui, scr>>
    PROVE  AnnounceInv'
<1> DEFINE item == ItemOf("decoder")
           range == IF vr.range < 2 THEN vr.range + 1 ELSE 2
           next == IF IsFrame(item) THEN range ELSE vr.range
<1>d. "decoder" \in Producers
  BY DEF Producers
<1>0. UNCHANGED <<events, slot>> /\ work["decoder"] # <<>> /\ WorkShape /\ decoder # "closed"
      /\ slot'.frame = slot.frame /\ WorkInv
  BY <1>d, WorkShapeIs, WorkIsOpen DEF PushToRegulator, Next_, PipeInv
<1>1. item \in LiveItem /\ next \in 0..2 /\ <<"screen", item>> \in WorkStep
  BY <1>0, RegulatorIs DEF WorkStep
<1>2. ASSUME ~Posting("decoder")', OthersKept("decoder"), vr.stopped => vr'.stopped,
             decoder' # "closed", decoder # "running" => decoder' # "running",
             Posting("decoder") => decoder' # "running"
      PROVE  AnnounceInv'
  <2>1. \A q \in Producers : Posting(q)' => Posting(q)
    BY <1>2 DEF OthersKept
  <2>2. (\A q \in Producers : Posting(q) => Posting(q)') \/ decoder' # "running"
    BY <1>2 DEF OthersKept
  <2> QED BY <1>0, <1>2, <2>1, <2>2, AnnounceSame
<1>n. ~Posting("decoder")
  <2>1. work["decoder"][1] = <<"regulator", item>>
    BY <1>d, ItemIs DEF PushToRegulator
  <2> HIDE DEF item
  <2> QED BY <1>0, <2>1, FirstIs DEF Posting
<1>3. CASE Fail("decoder")
  <2>1. ~Posting("decoder")' /\ OthersKept("decoder")
    BY <1>0, <1>d, <1>3, GivenUpHeads DEF Fail
  <2> QED BY <1>2, <1>3, <1>n, <2>1 DEF Fail
<1>4. CASE /\ vr' = [Enqueued(item) EXCEPT !.range = next] /\ work' = Done("decoder")
           /\ UNCHANGED decoder
  <2>1. ~Posting("decoder")' /\ OthersKept("decoder")
    BY <1>0, <1>d, <1>4, DoneHeads
  <2>2. vr'.stopped = vr.stopped
    <3> HIDE DEF item, next
    <3>1. Enqueued(item) \in VrState
      BY <1>1, EnqueuedIs
    <3>2. vr'.stopped = Enqueued(item).stopped
      BY <1>4, <3>1 DEF VrState
    <3> QED BY <1>1, <3>2, EnqueuedIs
  <2> QED BY <1>0, <1>2, <1>4, <1>n, <2>1, <2>2
<1>5. CASE /\ vr' = [vr EXCEPT !.range = range] /\ UNCHANGED decoder
           /\ work' = [work EXCEPT !["decoder"] = <<<<"screen", item>>>> \o Tail(work["decoder"])]
  <2>1. vr'.stopped = vr.stopped
    BY <1>5 DEF VideoTypes, VrState
  <2>2. ~Posting("decoder")' /\ OthersKept("decoder")
    <3> HIDE DEF item
    <3> QED BY <1>0, <1>1, <1>d, <1>5, ContinuedHeads
  <2> QED BY <1>0, <1>2, <1>5, <1>n, <2>1, <2>2
<1> QED BY <1>0, <1>3, <1>4, <1>5, RegulatorIs

(* The thread of the regulator had nothing to post.                        *)
LEMMA ThreadAnnounce ==
    ASSUME VideoTypes, PipeInv, AnnounceInv, VrTake \/ VrDate, UNCHANGED <<ui, scr>>
    PROVE  AnnounceInv'
<1>0. UNCHANGED <<events, slot, decoder>> /\ work["regulator"] = <<>> /\ WorkShape
      /\ slot'.frame = slot.frame /\ "regulator" \in Producers /\ RangeInv
  BY WorkShapeIs DEF VrTake, VrDate, PipeInv, WorkInv, Producers
<1>t. vr \in VrState
  BY DEF VideoTypes
<1>1. ~Posting("regulator")
  BY <1>0 DEF Posting, PostsFirst
<1>2. vr'.stopped = vr.stopped
  BY <1>0, <1>t, TakeIs, DateIs, FlushedIs DEF VrState
<1>3. \/ work' = work
      \/ \E item \in LiveItem : work' = [work EXCEPT !["regulator"] = <<<<"screen", item>>>>]
  BY <1>0, TakeIs, DateIs
<1>4. \A q \in Producers : Posting(q)' <=> Posting(q)
  <2>1. CASE work' = work
    BY <2>1 DEF Posting
  <2>2. ASSUME NEW item \in LiveItem,
               work' = [work EXCEPT !["regulator"] = <<<<"screen", item>>>>]
        PROVE  \A q \in Producers : Posting(q)' <=> Posting(q)
    <3>1. <<"screen", item>> \in WorkStep
      BY DEF WorkStep
    <3>2. ~Posting("regulator")' /\ OthersKept("regulator")
      BY <1>0, <2>2, <3>1, GivenHeads
    <3> QED BY <1>1, <3>2 DEF OthersKept
  <2> QED BY <1>3, <2>1, <2>2
<1> QED BY <1>0, <1>2, <1>4, AnnounceSame

(* A frame in the slot stays announced once.                               *)
LEMMA AnnounceVideoStep ==
    ASSUME VideoTypes, EventsTyped, PipeInv, AnnounceInv, VideoNext, UNCHANGED screenVars
    PROVE  AnnounceInv'
<1>t. vr \in VrState /\ slot \in SlotState
  BY DEF VideoTypes
<1>u. UNCHANGED <<ui, scr>>
  BY DEF screenVars
<1>1. CASE OpenSinks
  BY <1>1, OpenAnnounce
<1>2. CASE Decode
  <2>0. UNCHANGED <<setup, decoder, slot, vr, events>> /\ WorkShape /\ work["decoder"] = <<>>
        /\ slot'.frame = slot.frame
    BY <1>2, WorkShapeIs DEF Decode, PipeInv
  <2>1. PICK item \in LiveItem : work' = [work EXCEPT !["decoder"] = Route(item)]
    BY <1>2, DecodeIs
  <2>2. ~Posting("decoder")' /\ OthersKept("decoder")
    BY <2>0, <2>1, RouteHeads
  <2>3. ~Posting("decoder")
    BY <2>0 DEF Posting, PostsFirst
  <2>4. \A q \in Producers : Posting(q)' <=> Posting(q)
    BY <2>2, <2>3 DEF OthersKept
  <2> QED BY <1>u, <2>0, <2>4, AnnounceSame
<1>3. CASE StreamEnds \/ CloseV4l2 \/ JoinV4l2 \/ CloseRegulator \/ JoinRegulator
  <2>0. /\ UNCHANGED <<work, slot, events>> /\ slot'.frame = slot.frame
        /\ decoder # "closed" /\ decoder' # "closed" /\ decoder' # "running"
    BY <1>3 DEF StreamEnds, CloseV4l2, JoinV4l2, CloseRegulator, JoinRegulator
  <2>1. vr.stopped => vr'.stopped
    BY <1>3, <1>t DEF StreamEnds, CloseV4l2, JoinV4l2, CloseRegulator,
        JoinRegulator, VrState
  <2>2. \A q \in Producers : Posting(q)' <=> Posting(q)
    BY <2>0 DEF Posting
  <2> QED BY <1>u, <2>0, <2>1, <2>2, AnnounceSame
<1>4. ASSUME NEW p \in Producers, PushToScreen(p) \/ PostNewFrame(p)
      PROVE  AnnounceInv'
  BY <1>4, <1>u, ScreenPushAnnounce, PostAnnounce
<1>5. CASE PushToV4l2("decoder")
  <2>d. "decoder" \in Producers
    BY DEF Producers
  <2>0. UNCHANGED <<events, slot, vr, decoder>> /\ work["decoder"] # <<>> /\ WorkShape
        /\ slot'.frame = slot.frame /\ work' = Done("decoder")
    BY <1>5, WorkShapeIs DEF PushToV4l2, Next_, PipeInv
  <2>1. ~Posting("decoder")' /\ OthersKept("decoder")
    BY <2>0, <2>d, DoneHeads
  <2>2. ~Posting("decoder")
    <3>1. Next_("decoder", "v4l2")
      BY <1>5 DEF PushToV4l2
    <3>2. work["decoder"][1][1] = "v4l2"
      BY <2>d, <3>1, ItemIs
    <3> QED BY <3>2 DEF Posting, PostsFirst
  <2>3. \A q \in Producers : Posting(q)' <=> Posting(q)
    BY <2>1, <2>2 DEF OthersKept
  <2> QED BY <1>u, <2>0, <2>3, AnnounceSame
<1>6. CASE PushToRegulator("decoder")
  BY <1>6, <1>u, RegulatorAnnounce
<1>7. CASE VrTake \/ VrDate
  BY <1>7, <1>u, ThreadAnnounce
<1>8. CASE VrSpuriousWakeup \/ V4Take \/ V4Write \/ V4SpuriousWakeup
  <2>0. UNCHANGED <<work, slot, events, decoder>> /\ slot'.frame = slot.frame
    BY <1>8 DEF VrSpuriousWakeup, V4Take, V4Write, V4SpuriousWakeup
  <2>1. vr.stopped => vr'.stopped
    BY <1>8, <1>t DEF VrSpuriousWakeup, V4Take, V4Write, V4SpuriousWakeup, VrState
  <2>2. \A q \in Producers : Posting(q)' <=> Posting(q)
    BY <2>0 DEF Posting
  <2> QED BY <1>u, <2>0, <2>1, <2>2, AnnounceSame
<1> QED BY <1>1, <1>2, <1>3, <1>4, <1>5, <1>6, <1>7, <1>8 DEF VideoNext

--------------------------------------------------------------------------------
(* The screen                                                              *)

VideoKept == UNCHANGED <<setup, decoder, stream, work, vr, v4>>

(* The events that the main thread handles; the threads and the user; the  *)
(* end.                                                                    *)
LoopNext == OpenWindow \/ NewFrame \/ WindowRestored \/ WindowResized \/ Quit \/ Disconnected
DyingNext == IconLoaded \/ DisconnectionOver \/ OtherEvent
EndNext == Hide \/ JoinDemuxer \/ JoinScreen \/ DestroyScreen
KeyNext == (\E paused \in BOOLEAN : SetPaused(paused))
           \/ (\E transform \in {1, 3, 4, 6} : SetOrientation(transform))
           \/ ResizeToFit \/ SwitchCounter
PostNext == DiscLoad \/ DiscEnds
            \/ (\E flag \in {"fullscreen", "maximized"} : WindowChanges(flag))
            \/ (\E size \in Sizes : UserResizes(size))
            \/ (\E type \in {"quit", "disconnected"} : Outside(type))
OwnNext == LoopNext \/ DyingNext \/ EndNext \/ KeyNext \/ PostNext \/ CounterThread

(* The steps of the screen, by kind.                                       *)
LEMMA NextIs ==
    ASSUME ScreenNext
    PROVE  (VideoNext /\ UNCHANGED screenVars) \/ OwnNext
  BY DEF ScreenNext, OwnNext, LoopNext, DyingNext, EndNext, KeyNext, PostNext

(* The screen leaves the rest of the video alone, and only takes a frame.  *)
LEMMA OwnKeeps ==
    ASSUME OwnNext
    PROVE  /\ VideoKept
           /\ slot' = slot \/ (NewFrame /\ slot' = [slot EXCEPT !.frame = <<>>])
<1>1. CASE LoopNext
  BY <1>1 DEF LoopNext, OpenWindow, NewFrame, WindowRestored, WindowResized,
      Quit, Disconnected,
              SameVideoButEvents, VideoKept
<1>2. CASE DyingNext
  BY <1>2 DEF DyingNext, IconLoaded, DisconnectionOver, OtherEvent,
      SameVideoButEvents, VideoKept
<1>3. CASE EndNext
  BY <1>3 DEF EndNext, Hide, JoinDemuxer, JoinScreen, DestroyScreen, videoVars,
      VideoKept
<1>4. CASE KeyNext
  BY <1>4 DEF KeyNext, SetPaused, SetOrientation, ResizeToFit, SwitchCounter,
      Shortcut, videoVars,
              VideoKept
<1>5. CASE PostNext
  BY <1>5 DEF PostNext, DiscLoad, DiscEnds, WindowChanges, UserResizes, Outside,
              SameVideoButEvents, VideoKept
<1>6. CASE CounterThread
  BY <1>6 DEF CounterThread, videoVars, VideoKept
<1> QED BY <1>1, <1>2, <1>3, <1>4, <1>5, <1>6 DEF OwnNext

(* They keep what is said of the threads.                                  *)
LEMMA OwnVideo ==
    ASSUME VideoTypes, PipeInv, OwnNext
    PROVE  VideoTypes' /\ PipeInv' /\ SlotState' = SlotState
<1>0. VideoKept /\ (slot' = slot \/ slot' = [slot EXCEPT !.frame = <<>>])
  BY OwnKeeps
<1>1. slot' \in SlotState
  BY <1>0 DEF VideoTypes, SlotState, AtMostOne
<1>2. VideoTypes' /\ SlotState' = SlotState
  BY <1>0, <1>1, LiveSame DEF VideoTypes, VideoKept
<1>3. Delayed' = Delayed
  BY <1>0, DelayedSame DEF VideoKept
<1>4. PipeInv'
  BY <1>0, <1>3 DEF PipeInv, WorkInv, RangeInv, WakeInv, SinksWakeUp, VideoKept
<1> QED BY <1>2, <1>4

(* The types of the events depend on the setup only.                       *)
LEMMA EventSame ==
    ASSUME setup' = setup PROVE EventState' = EventState
  BY DEF EventState, SizedTypes

(* The events are taken from the head and posted at the end.               *)
LEMMA PostedTypes ==
    ASSUME EventsTyped, setup' = setup, NEW e \in EventState,
           events' = events \/ events' = Append(events, e)
    PROVE  EventsTyped'
  BY EventSame, AppendIs DEF EventsTyped

(* The types of the events when one is handled.                            *)
LEMMA ConsumedTypes ==
    ASSUME EventsTyped, setup' = setup, events # <<>>, events' = Tail(events)
    PROVE  EventsTyped'
  BY EventSame, TailIs DEF EventsTyped

(* The event that is handled is the first one.                             *)
LEMMA ReceivesIs ==
    ASSUME EventsTyped, NEW place, NEW type, Receives(place, type)
    PROVE  /\ ui = place /\ events # <<>> /\ Len(events) \in Nat \ {0}
           /\ Head(events) = events[1] /\ events[1] \in EventState /\ events[1].type = type
           /\ type \in {"open", "resized"} => events[1].size \in Sizes
           /\ type = "resized" => setup.flex
<1>1. /\ ui = place /\ events # <<>> /\ Len(events) \in Nat \ {0}
      /\ Head(events) = events[1] /\ events[1] \in EventState /\ events[1].type = type
  BY TailIs DEF EventsTyped, Receives
<1>2. /\ type \in {"open", "resized"} => events[1].size \in Sizes
      /\ type = "resized" => setup.flex
  BY <1>1 DEF EventState, SizedTypes, PlainTypes
<1> QED BY <1>1, <1>2

(* The types of the events, for every step.                                *)
LEMMA EventsStep ==
    ASSUME VideoTypes, EventsTyped, ScreenNext
    PROVE  EventsTyped'
<1>1. \A type \in PlainTypes : Event(type) \in EventState
  BY DEF EventState, Event
<1>2. \A size \in Sizes : /\ [type |-> "open", size |-> size] \in EventState
                          /\ setup.flex => [type |-> "resized", size |-> size] \in EventState
  BY DEF EventState, SizedTypes
<1>3. CASE VideoNext
  <2>1. setup' = setup
    BY <1>3 DEF VideoNext, OpenSinks, Decode, StreamEnds, CloseV4l2, JoinV4l2,
        CloseRegulator,
                JoinRegulator, PushToScreen, PostNewFrame, PushToV4l2, PushToRegulator, VrTake,
                VrDate, VrSpuriousWakeup, V4Take, V4Write, V4SpuriousWakeup
  <2>2. \E e \in EventState : events' = events \/ events' = Append(events, e)
    <3>1. CASE OpenSinks
      BY <1>2, <3>1 DEF OpenSinks, Post, VideoTypes, LiveSession
    <3>2. ASSUME NEW p \in Producers, PostNewFrame(p)
          PROVE  \E e \in EventState : events' = events \/ events' = Append(events, e)
      BY <1>1, <3>2 DEF PostNewFrame, Post, PlainTypes
    <3>3. CASE events' = events
      BY <1>1, <3>3 DEF PlainTypes
    <3> QED BY <1>3, <3>1, <3>2, <3>3
            DEF VideoNext, Decode, StreamEnds, CloseV4l2, JoinV4l2, CloseRegulator,
                JoinRegulator, PushToScreen, PushToV4l2, PushToRegulator, VrTake,
                VrDate, VrSpuriousWakeup, V4Take, V4Write, V4SpuriousWakeup
  <2> QED BY <2>1, <2>2, PostedTypes
<1>4. CASE LoopNext \/ DyingNext
  <2>1. setup' = setup /\ events # <<>> /\ events' = Tail(events)
    BY <1>4, OwnKeeps DEF LoopNext, OpenWindow, NewFrame, WindowRestored,
        WindowResized, Quit,
           Disconnected, DyingNext, IconLoaded, DisconnectionOver, OtherEvent, Receives, Consumed,
           OwnNext, VideoKept
  <2> QED BY <2>1, ConsumedTypes
<1>5. CASE EndNext \/ KeyNext \/ CounterThread
  BY <1>5, EventSame DEF EndNext, Hide, JoinDemuxer, JoinScreen, DestroyScreen,
      KeyNext, SetPaused,
         SetOrientation, ResizeToFit, SwitchCounter, CounterThread, Shortcut, videoVars, EventsTyped
<1>6. CASE PostNext
  <2>1. setup' = setup
    BY <1>6, OwnKeeps DEF OwnNext, VideoKept
  <2>2. \E e \in EventState : events' = events \/ events' = Append(events, e)
    BY <1>6, <1>1, <1>2 DEF PostNext, DiscLoad, DiscEnds, WindowChanges,
        UserResizes, Outside, Post,
           PlainTypes
  <2> QED BY <2>1, <2>2, PostedTypes
<1> QED BY <1>3, <1>4, <1>5, <1>6, NextIs DEF OwnNext

--------------------------------------------------------------------------------
(* Sizes and orientations                                                  *)

(* A size of the video is not that of a screen without a frame.            *)
LEMMA SizesArePairs ==
    /\ Sizes \subseteq Pairs
    /\ \A size \in Sizes : size # <<0, 0>>
<1>1. ASSUME NEW size \in Sizes PROVE size \in Pairs /\ size # <<0, 0>>
  <2>1. size \in (Nat \ {0}) \X (Nat \ {0})
    BY VideoOK DEF VideoOK
  <2>2. size[1] \in Nat \ {0} /\ size[2] \in Nat \ {0} /\ size = <<size[1], size[2]>>
    BY <2>1
  <2> QED BY <2>2 DEF Pairs
<1> QED BY <1>1

(* A size, turned.                                                         *)
LEMMA OrientedIs ==
    ASSUME NEW size \in Pairs, NEW o
    PROVE  Oriented(size, o) \in Pairs
  BY DEF Oriented, Pairs

(* The orientations are closed under the shortcuts.                        *)
LEMMA ApplyIs ==
    ASSUME NEW source \in 0..7, NEW transform \in {1, 3, 4, 6}
    PROVE  Apply(source, transform) \in 0..7
<1> DEFINE turn == Rotation(source)
                   + (IF IsSwap(source) /\ IsMirror(transform) THEN 2 ELSE 0)
                   + Rotation(transform)
<1>1. Rotation(source) \in 0..3 /\ Rotation(transform) \in 0..3
  BY DEF Rotation
<1>2. turn \in Nat
  BY <1>1
<1>3. Apply(source, transform)
      = (IF IsMirror(source) # IsMirror(transform) THEN 4 ELSE 0) + (turn % 4)
  BY DEF Apply
<1> HIDE DEF turn
<1>4. turn % 4 \in 0..3
  BY <1>2
<1> QED BY <1>3, <1>4

(* What the changes of a screen leave alone.                               *)
SameView(s, t) ==
    /\ t.frame = s.frame /\ t.resume = s.resume /\ t.paused = s.paused /\ t.shown = s.shown
    /\ t.orientation = s.orientation
    /\ t.request # <<>> => s.request # <<>> \/ setup.flex

(* A request to resize the display touches nothing else.                   *)
LEMMA RequestedIs ==
    ASSUME NEW s \in ScrState, NEW size \in Pairs
    PROVE  LET t == Requested(s, size) IN
           /\ t \in ScrState
           /\ t.frame = s.frame /\ t.resume = s.resume /\ t.paused = s.paused
           /\ t.shown = s.shown /\ t.orientation = s.orientation /\ t.size = s.size
           /\ t.content = s.content /\ t.pending = s.pending
<1> DEFINE r == Oriented(size, s.orientation)
<1>1. r \in Pairs
  BY OrientedIs
<1>2. <<r>> \in OnePair
  BY <1>1 DEF OnePair
<1>3. Requested(s, size) = [s EXCEPT !.request = <<r>>]
  BY DEF Requested
<1> HIDE DEF r
<1> QED BY <1>2, <1>3 DEF ScrState

(* Without a flex display, the window is resized now, or the resize is     *)
(* pending.                                                                *)
ContentSet(s, new, resize, q) ==
    /\ q[1] \in ScrState /\ q[2] \in WindowState /\ SameView(s, q[1])
    /\ q[1].size = s.size /\ q[1].content = new /\ q[2].flags = window.flags
    /\ ~setup.flex /\ resize /\ IsWindowed => q[1].pending = s.pending /\ q[2].fit = new
    /\ ~setup.flex /\ resize /\ ~IsWindowed => q[1].pending = TRUE /\ q[2].fit = window.fit

FrameShown(s, resize, q) ==
    /\ q[1] \in ScrState /\ q[2] \in WindowState /\ SameView(s, q[1])
    /\ q[1].size \in Sizes /\ q[2].flags = window.flags
    /\ ~setup.flex /\ resize =>
         \/ q[1].pending = s.pending /\ q[1].content = s.content /\ q[2].fit = window.fit
         \/ IsWindowed /\ q[1].pending = s.pending /\ q[2].fit = q[1].content
         \/ ~IsWindowed /\ q[1].pending = TRUE /\ q[2].fit = window.fit

(* Setting the size of the content resizes, requests or leaves for later.  *)
LEMMA ContentIs ==
    ASSUME setup.flex \in BOOLEAN, window \in WindowState
    PROVE  \A s \in ScrState, new \in Pairs, resize \in BOOLEAN :
              ContentSet(s, new, resize, SetContentSize(s, new, resize))
<1> TAKE s \in ScrState, new \in Pairs, resize \in BOOLEAN
<1> DEFINE done == [s EXCEPT !.content = new]
           r == SetContentSize(s, new, resize)
<1>1. done \in ScrState /\ SameView(s, done) /\ done.size = s.size /\ done.content = new
      /\ done.pending = s.pending
  BY DEF ScrState, SameView
<1>2. window.fit \in Pairs /\ s.content \in Pairs /\ s.pending \in BOOLEAN
  BY DEF WindowState, ScrState
<1>3. CASE ~resize
  <2>1. r = <<done, window>>
    BY <1>3 DEF SetContentSize
  <2>2. r[1] = done /\ r[2] = window
    BY <2>1
  <2> HIDE DEF r, done
  <2> QED BY <1>1, <1>3, <2>2 DEF r, ContentSet
<1>4. CASE resize /\ IsWindowed
  <2> DEFINE w == [window EXCEPT !.fit = new]
  <2>1. r = <<done, w>>
    BY <1>4 DEF SetContentSize
  <2>2. r[1] = done /\ r[2] = w
    BY <2>1
  <2>3. w \in WindowState /\ w.fit = new /\ w.flags = window.flags
    BY DEF WindowState
  <2> HIDE DEF r, done, w
  <2> QED BY <1>1, <1>4, <2>2, <2>3 DEF r, ContentSet
<1>5. CASE resize /\ ~IsWindowed /\ setup.flex
  <2> DEFINE t == Requested(done, window.fit)
  <2>1. r = <<t, window>>
    BY <1>5 DEF SetContentSize
  <2>2. r[1] = t /\ r[2] = window
    BY <2>1
  <2>3. /\ t \in ScrState
        /\ t.frame = done.frame /\ t.resume = done.resume /\ t.paused = done.paused
        /\ t.shown = done.shown /\ t.orientation = done.orientation /\ t.size = done.size
        /\ t.content = done.content
    <3> HIDE DEF done
    <3> QED BY <1>1, <1>2, RequestedIs
  <2> HIDE DEF r, done, t
  <2>4. SameView(s, t)
    BY <1>1, <1>5, <2>3 DEF SameView
  <2> QED BY <1>1, <1>5, <2>2, <2>3, <2>4 DEF r, ContentSet
<1>6. CASE resize /\ ~IsWindowed /\ ~setup.flex /\ s.pending
  <2>1. r = <<done, window>>
    BY <1>6 DEF SetContentSize
  <2>2. r[1] = done /\ r[2] = window
    BY <2>1
  <2> HIDE DEF r, done
  <2> QED BY <1>1, <1>2, <1>6, <2>2 DEF r, ContentSet
<1>7. CASE resize /\ ~IsWindowed /\ ~setup.flex /\ ~s.pending
  <2> DEFINE t == [done EXCEPT !.pending = TRUE, !.windowed = s.content]
  <2>1. r = <<t, window>>
    BY <1>7 DEF SetContentSize
  <2>2. r[1] = t /\ r[2] = window
    BY <2>1
  <2>3. t \in ScrState /\ SameView(done, t) /\ t.size = done.size /\ t.content = done.content
        /\ t.pending = TRUE
    <3> HIDE DEF done
    <3> QED BY <1>1, <1>2 DEF ScrState, SameView
  <2> HIDE DEF r, done, t
  <2>4. SameView(s, t)
    BY <1>1, <2>3 DEF SameView
  <2> QED BY <1>1, <1>7, <2>2, <2>3, <2>4 DEF r, ContentSet
<1> QED BY <1>3, <1>4, <1>5, <1>6, <1>7

(* And so does a frame of another size.                                    *)
LEMMA FrameIs ==
    ASSUME VideoTypes, window \in WindowState
    PROVE  \A s \in ScrState, resize \in BOOLEAN :
              s.frame # <<>> => FrameShown(s, resize, ApplyFrame(s, resize))
<1> TAKE s \in ScrState, resize \in BOOLEAN
<1> HAVE s.frame # <<>>
<1> DEFINE size == s.frame[1].session.size
           new == Oriented(size, s.orientation)
           tracked == [s EXCEPT !.size = size,
                                !.tracked = IF setup.flex THEN <<new>> ELSE s.tracked]
           r == ApplyFrame(s, resize)
<1>1. size \in Sizes
  BY DEF ScrState, AtMostOne, LiveItem, LiveSession
<1>2. size \in Pairs /\ new \in Pairs
  BY <1>1, SizesArePairs, OrientedIs
<1>3. setup.flex \in BOOLEAN
  BY SetupIs
<1>4. CASE size = s.size
  <2>1. r = <<s, window>>
    BY <1>4 DEF ApplyFrame
  <2>2. r[1] = s /\ r[2] = window
    BY <2>1
  <2>3. SameView(s, s)
    BY DEF SameView
  <2> HIDE DEF r, size
  <2> QED BY <1>1, <1>4, <2>2, <2>3 DEF r, FrameShown
<1>5. CASE size # s.size
  <2>1. tracked \in ScrState /\ SameView(s, tracked) /\ tracked.size = size
        /\ tracked.pending = s.pending
    <3> HIDE DEF size, new
    <3>1. <<new>> \in OnePair
      BY <1>2 DEF OnePair
    <3> QED BY <1>2, <3>1 DEF ScrState, SameView
  <2>2. r = SetContentSize(tracked, new, resize)
    BY <1>5 DEF ApplyFrame
  <2> HIDE DEF size, new, tracked, r
  <2>3. ContentSet(tracked, new, resize, r)
    BY <1>2, <1>3, <2>1, <2>2, ContentIs, Zenon
  <2>4. SameView(s, r[1])
    BY <2>1, <2>3 DEF SameView, ContentSet
  <2> QED BY <1>1, <2>1, <2>3, <2>4 DEF r, ContentSet, FrameShown
<1> QED BY <1>4, <1>5

--------------------------------------------------------------------------------
(* What is displayed                                                       *)

(* The window is resized now, its resize is pending, or nothing changes.   *)
Fitted ==
    ~setup.flex =>
       \/ scr'.pending = scr.pending /\ scr'.content = scr.content /\ window'.fit = window.fit
       \/ IsWindowed /\ scr'.pending = scr.pending /\ window'.fit = scr'.content
       \/ ~IsWindowed /\ scr'.pending = TRUE /\ window'.fit = window.fit
Displayed ==
    /\ scr' \in ScrState /\ window' \in WindowState /\ window'.flags = window.flags
    /\ scr'.shown = scr.shown
    /\ scr'.request # <<>> => setup.flex
    /\ scr'.frame # <<>> => scr'.size # <<0, 0>>
    /\ Fitted

(* An event of a frame finds a frame.                                      *)
LEMMA FrameEventIs ==
    ASSUME EventsTyped, AnnounceInv, Receives("loop", "frame")
    PROVE  /\ slot.frame # <<>> /\ scr.shown /\ \A p \in Producers : ~Posting(p)
           /\ \A i \in 2..Len(events) : events[i].type # "frame"
<1>1. ui = "loop" /\ events[1].type = "frame" /\ Len(events) \in Nat \ {0}
  BY ReceivesIs
<1>2. 1 \in 1..Len(events) /\ 1..1 = {1} /\ \A i \in 2..Len(events) : i \in 1..Len(events) /\ i # 1
  BY <1>1
<1>3. slot.frame # <<>> /\ \A p \in Producers : ~Posting(p)
  BY <1>1, <1>2 DEF AnnounceInv
<1>4. scr.shown
  BY <1>1, <1>2 DEF AnnounceInv
<1>5. \A i \in 2..Len(events) : events[i].type # "frame"
  BY <1>1, <1>2 DEF AnnounceInv
<1> QED BY <1>3, <1>4, <1>5

(* The frame is displayed, or kept by a paused screen.                     *)
LEMMA NewFrameIs ==
    ASSUME VideoTypes, ScreenTypes, ScrInv, slot.frame # <<>>, NewFrame
    PROVE  /\ Displayed /\ scr'.paused = scr.paused
           /\ \/ scr.paused /\ scr'.frame = scr.frame /\ scr'.resume = slot.frame
              \/ ~scr.paused /\ scr'.frame = slot.frame /\ scr'.resume = scr.resume
<1>t. scr \in ScrState /\ window \in WindowState /\ slot \in SlotState
  BY DEF ScreenTypes, VideoTypes
<1>p. slot.frame \in AtMostOne
  BY <1>t DEF SlotState
<1>1. CASE scr.paused
  <2>1. scr' = [scr EXCEPT !.resume = slot.frame] /\ window' = window
    BY <1>1 DEF NewFrame
  <2>2. /\ scr' \in ScrState /\ scr'.frame = scr.frame /\ scr'.resume = slot.frame
        /\ scr'.paused = scr.paused /\ scr'.shown = scr.shown /\ scr'.request = scr.request
        /\ scr'.size = scr.size /\ scr'.pending = scr.pending /\ scr'.content = scr.content
    BY <1>t, <1>p, <2>1 DEF ScrState
  <2> QED BY <1>t, <1>1, <2>1, <2>2 DEF Displayed, Fitted, ScrInv
<1>2. CASE ~scr.paused
  <2> DEFINE s == [scr EXCEPT !.frame = slot.frame]
             resize == ~slot.prevent
             q == ApplyFrame(s, resize)
  <2>1. scr' = q[1] /\ window' = q[2]
    BY <1>2 DEF NewFrame, Become
  <2>2. /\ s \in ScrState /\ s.frame = slot.frame /\ s.resume = scr.resume
        /\ s.paused = scr.paused /\ s.shown = scr.shown /\ s.request = scr.request
        /\ s.pending = scr.pending /\ s.content = scr.content
    BY <1>t, <1>p DEF ScrState
  <2>3. slot.prevent \in Asked
    BY <1>t DEF SlotState
  <2>4. resize \in BOOLEAN /\ (~setup.flex => resize = TRUE)
    BY <2>3 DEF Asked
  <2> HIDE DEF s, resize
  <2>5. FrameShown(s, resize, q)
    BY <1>t, <2>2, <2>4, FrameIs
  <2>6. \A size \in Sizes : size # <<0, 0>>
    BY SizesArePairs
  <2> HIDE DEF q
  <2>7. /\ scr' \in ScrState /\ window' \in WindowState /\ window'.flags = window.flags
        /\ scr'.shown = scr.shown /\ scr'.paused = scr.paused /\ scr'.frame = slot.frame
        /\ scr'.resume = scr.resume /\ scr'.size # <<0, 0>>
        /\ scr'.request # <<>> => setup.flex
    BY <2>1, <2>2, <2>5, <2>6 DEF FrameShown, SameView, ScrInv
  <2>8. Fitted
    BY <2>1, <2>2, <2>4, <2>5 DEF FrameShown, Fitted
  <2> QED BY <1>2, <2>7, <2>8 DEF Displayed
<1> QED BY <1>1, <1>2

(* Pausing displays the frame that was kept, if any.                       *)
LEMMA PausedIs ==
    ASSUME VideoTypes, ScreenTypes, ScrInv, NEW paused \in BOOLEAN, SetPaused(paused)
    PROVE  /\ Displayed
           /\ \/ scr'.frame = scr.resume /\ scr'.resume = <<>>
              \/ scr'.frame = scr.frame /\ scr'.resume = scr.resume
                 /\ (scr.paused => scr.resume = <<>>)
<1>t. scr \in ScrState /\ window \in WindowState /\ scr.resume \in AtMostOne
  BY DEF ScreenTypes, ScrState
<1> DEFINE s == [scr EXCEPT !.frame = scr.resume, !.resume = <<>>]
           q == IF scr.paused /\ scr.resume # <<>> THEN ApplyFrame(s, TRUE) ELSE <<scr, window>>
<1>1. scr' = [q[1] EXCEPT !.paused = paused] /\ window' = q[2]
  BY DEF SetPaused, Become
<1>2. CASE scr.paused /\ scr.resume # <<>>
  <2>1. /\ s \in ScrState /\ s.frame = scr.resume /\ s.resume = <<>>
        /\ s.shown = scr.shown /\ s.request = scr.request
        /\ s.pending = scr.pending /\ s.content = scr.content
    BY <1>t DEF ScrState, AtMostOne
  <2>2. q = ApplyFrame(s, TRUE)
    BY <1>2
  <2> HIDE DEF s, q
  <2>3. FrameShown(s, TRUE, q)
    BY <1>t, <1>2, <2>1, <2>2, FrameIs
  <2>4. q[1] \in ScrState
    BY <2>3 DEF FrameShown
  <2>5. /\ scr' \in ScrState /\ scr'.frame = q[1].frame /\ scr'.resume = q[1].resume
        /\ scr'.shown = q[1].shown /\ scr'.request = q[1].request /\ scr'.size = q[1].size
        /\ scr'.pending = q[1].pending /\ scr'.content = q[1].content
    BY <1>1, <2>4 DEF ScrState
  <2>6. \A size \in Sizes : size # <<0, 0>>
    BY SizesArePairs
  <2>7. /\ window' \in WindowState /\ window'.flags = window.flags
        /\ scr'.shown = scr.shown /\ scr'.frame = scr.resume
        /\ scr'.resume = <<>> /\ scr'.size # <<0, 0>>
        /\ scr'.request # <<>> => setup.flex
    BY <1>1, <2>1, <2>3, <2>5, <2>6 DEF FrameShown, SameView, ScrInv
  <2>8. Fitted
    BY <1>1, <2>1, <2>3, <2>5 DEF FrameShown, Fitted
  <2> QED BY <2>5, <2>7, <2>8 DEF Displayed
<1>3. CASE ~(scr.paused /\ scr.resume # <<>>)
  <2>1. scr' = [scr EXCEPT !.paused = paused] /\ window' = window
    BY <1>1, <1>3
  <2>2. /\ scr' \in ScrState /\ scr'.frame = scr.frame /\ scr'.resume = scr.resume
        /\ scr'.shown = scr.shown /\ scr'.request = scr.request
        /\ scr'.size = scr.size /\ scr'.pending = scr.pending /\ scr'.content = scr.content
    BY <1>t, <2>1 DEF ScrState
  <2> QED BY <1>t, <1>3, <2>1, <2>2 DEF Displayed, Fitted, ScrInv
<1> QED BY <1>2, <1>3

(* Turning the display turns its content.                                  *)
LEMMA OrientationIs ==
    ASSUME VideoTypes, ScreenTypes, ScrInv, NEW transform \in {1, 3, 4, 6},
           SetOrientation(transform)
    PROVE  Displayed /\ scr'.frame = scr.frame /\ scr'.resume = scr.resume
           /\ scr'.paused = scr.paused
<1>t. scr \in ScrState /\ window \in WindowState /\ scr.size \in Pairs
      /\ scr.orientation \in 0..7
  BY DEF ScreenTypes, ScrState
<1> DEFINE o == Apply(scr.orientation, transform)
           new == Oriented(scr.size, o)
           q == SetContentSize(scr, new, TRUE)
<1>1. scr' = [q[1] EXCEPT !.orientation = o] /\ window' = q[2]
  BY DEF SetOrientation, Become
<1>2. o \in 0..7 /\ new \in Pairs /\ setup.flex \in BOOLEAN
  BY <1>t, ApplyIs, OrientedIs, SetupIs
<1> HIDE DEF o, new
<1>3. ContentSet(scr, new, TRUE, q)
  BY <1>t, <1>2, ContentIs
<1> HIDE DEF q
<1>4. q[1] \in ScrState
  BY <1>3 DEF ContentSet
<1>5. /\ scr' \in ScrState /\ scr'.frame = q[1].frame /\ scr'.resume = q[1].resume
      /\ scr'.shown = q[1].shown /\ scr'.request = q[1].request /\ scr'.size = q[1].size
      /\ scr'.pending = q[1].pending /\ scr'.content = q[1].content /\ scr'.paused = q[1].paused
  BY <1>1, <1>2, <1>4 DEF ScrState
<1>6. /\ window' \in WindowState /\ window'.flags = window.flags
      /\ scr'.shown = scr.shown /\ scr'.frame = scr.frame /\ scr'.paused = scr.paused
      /\ scr'.resume = scr.resume /\ scr'.size = scr.size
      /\ scr'.request # <<>> => setup.flex
  BY <1>1, <1>3, <1>5 DEF ContentSet, SameView, ScrInv
<1>7. Fitted
  BY <1>1, <1>3, <1>5 DEF ContentSet, Fitted
<1> QED BY <1>5, <1>6, <1>7 DEF Displayed, ScrInv

--------------------------------------------------------------------------------
(* The types of the screen                                                 *)

(* The setup is that of the whole session.                                 *)
LEMMA SetupKept ==
    ASSUME ScreenNext PROVE setup' = setup
<1>1. CASE VideoNext
  BY <1>1 DEF VideoNext, OpenSinks, Decode, StreamEnds, CloseV4l2, JoinV4l2,
      CloseRegulator,
              JoinRegulator, PushToScreen, PostNewFrame, PushToV4l2, PushToRegulator, VrTake,
              VrDate, VrSpuriousWakeup, V4Take, V4Write, V4SpuriousWakeup
<1>2. CASE OwnNext
  BY <1>2, OwnKeeps DEF VideoKept
<1> QED BY <1>1, <1>2, NextIs

(* The types of the screen depend on the setup only.                       *)
LEMMA ScrSame ==
    ASSUME setup' = setup PROVE ScrState' = ScrState
  BY LiveSame DEF ScrState

Places == {"loop", "window", "hide", "joinDemuxer", "join", "destroy", "end"}

(* What the types of the screen need after a step.                         *)
LEMMA ScreenTyped ==
    ASSUME setup' = setup, EventsTyped', ui' \in Places, scr' \in ScrState,
           scr'.request # <<>> => setup.flex, scr'.frame # <<>> => scr'.size # <<0, 0>>,
           window' \in WindowState, counter' \in CounterState, disc' \in DiscState, steps' \in Nat
    PROVE  ScreenTypes' /\ ScrInv'
<1>1. scr' \in ScrState'
  BY ScrSame
<1> QED BY <1>1 DEF ScreenTypes, ScrInv, EventsTyped, Places, WindowState,
    CounterState, DiscState,
                    Pairs

(* An interrupted counter is a counter.                                    *)
LEMMA InterruptedIs ==
    ASSUME NEW c \in CounterState PROVE Interrupted(c) \in CounterState
  BY DEF Interrupted, CounterState

(* The window is shown with the ratio of the first size.                   *)
LEMMA OpenWindowIs ==
    ASSUME VideoTypes, ScreenTypes, OpenWindow
    PROVE  /\ scr' \in ScrState /\ window' \in WindowState /\ window'.flags = window.flags
           /\ scr'.frame = scr.frame /\ scr'.resume = scr.resume /\ scr'.paused = scr.paused
           /\ scr'.pending = scr.pending /\ scr'.request = scr.request
           /\ scr'.shown = TRUE /\ window'.fit = scr'.content /\ scr'.size \in Sizes
<1> DEFINE size == Head(events).size
           content == Oriented(size, scr.orientation)
<1>t. scr \in ScrState /\ window \in WindowState /\ EventsTyped /\ setup.flex \in BOOLEAN
  BY SetupIs DEF ScreenTypes, EventsTyped
<1>1. size \in Sizes
  BY <1>t, ReceivesIs DEF OpenWindow
<1>2. size \in Pairs /\ content \in Pairs
  BY <1>1, SizesArePairs, OrientedIs
<1>3. /\ scr' = [scr EXCEPT !.size = size, !.content = content, !.shown = TRUE,
                            !.tracked = IF setup.flex THEN <<content>> ELSE scr.tracked]
      /\ window' = [window EXCEPT !.fit = content]
  BY DEF OpenWindow
<1> HIDE DEF size, content
<1>4. <<content>> \in OnePair
  BY <1>2 DEF OnePair
<1>5. window' \in WindowState /\ window'.flags = window.flags /\ window'.fit = content
  BY <1>t, <1>2, <1>3 DEF WindowState
<1>6. /\ scr' \in ScrState /\ scr'.content = content /\ scr'.size = size
      /\ scr'.frame = scr.frame /\ scr'.resume = scr.resume /\ scr'.paused = scr.paused
      /\ scr'.pending = scr.pending /\ scr'.request = scr.request /\ scr'.shown = TRUE
  BY <1>t, <1>2, <1>3, <1>4 DEF ScrState
<1> QED BY <1>1, <1>5, <1>6

(* Only a flexible display is resized by its window.                       *)
LEMMA ResizedIs ==
    ASSUME VideoTypes, ScreenTypes, WindowResized
    PROVE  /\ scr' \in ScrState /\ setup.flex
           /\ scr'.frame = scr.frame /\ scr'.resume = scr.resume /\ scr'.paused = scr.paused
           /\ scr'.shown = scr.shown /\ scr'.size = scr.size
<1> DEFINE size == Head(events).size
<1>t. scr \in ScrState /\ EventsTyped /\ <<>> \in OnePair
  BY DEF ScreenTypes, EventsTyped, OnePair
<1>1. size \in Sizes /\ setup.flex
  BY <1>t, ReceivesIs DEF WindowResized
<1>2. size \in Pairs
  BY <1>1, SizesArePairs
<1>3. CASE scr' = [scr EXCEPT !.tracked = <<>>]
  BY <1>t, <1>1, <1>3 DEF ScrState
<1>4. ASSUME NEW recent \in BOOLEAN,
             scr' = Requested([scr EXCEPT !.tracked = IF recent THEN scr.tracked ELSE <<>>], size)
      PROVE  /\ scr' \in ScrState
             /\ scr'.frame = scr.frame /\ scr'.resume = scr.resume /\ scr'.paused = scr.paused
             /\ scr'.shown = scr.shown /\ scr'.size = scr.size
  <2> DEFINE s == [scr EXCEPT !.tracked = IF recent THEN scr.tracked ELSE <<>>]
  <2>1. /\ s \in ScrState
        /\ s.frame = scr.frame /\ s.resume = scr.resume /\ s.paused = scr.paused
        /\ s.shown = scr.shown /\ s.size = scr.size
    BY <1>t DEF ScrState
  <2>2. scr' = Requested(s, size)
    BY <1>4
  <2> HIDE DEF s, size
  <2> QED BY <1>2, <2>1, <2>2, RequestedIs
<1> QED BY <1>1, <1>3, <1>4 DEF WindowResized

(* The types of the screen, for every step.                                *)
LEMMA ScreenTypesStep ==
    ASSUME VideoTypes, PipeInv, ScreenTypes, ScrInv, AnnounceInv, ScreenNext
    PROVE  ScreenTypes' /\ ScrInv'
<1>t. /\ ui \in Places /\ scr \in ScrState /\ window \in WindowState /\ counter \in CounterState
      /\ disc \in DiscState /\ EventsTyped /\ steps \in Nat
      /\ (scr.request # <<>> => setup.flex) /\ (scr.frame # <<>> => scr.size # <<0, 0>>)
  BY DEF ScreenTypes, ScrInv, Places, EventsTyped
<1>s. setup' = setup /\ EventsTyped'
  BY <1>t, SetupKept, EventsStep
<1>p. {"loop", "window", "hide", "joinDemuxer", "join", "destroy", "end"} \subseteq Places
  BY DEF Places
<1>0. CASE UNCHANGED screenVars
  BY <1>0, <1>s, <1>t, ScreenTyped DEF screenVars
<1>1. CASE OpenWindow
  <2>1. UNCHANGED <<ui, counter, disc, steps>>
    BY <1>1 DEF OpenWindow
  <2>2. \A size \in Sizes : size # <<0, 0>>
    BY SizesArePairs
  <2> QED BY <1>1, <1>s, <1>t, <2>1, <2>2, OpenWindowIs, ScreenTyped
<1>2. CASE NewFrame
  <2>1. UNCHANGED <<ui, counter, disc, steps>> /\ slot.frame # <<>>
    BY <1>2, <1>t, FrameEventIs DEF NewFrame
  <2> QED BY <1>2, <1>s, <1>t, <2>1, NewFrameIs, ScreenTyped DEF Displayed
<1>3. CASE WindowRestored
  <2>1. UNCHANGED <<ui, counter, disc, steps>>
    BY <1>3 DEF WindowRestored
  <2>2. CASE scr' = [scr EXCEPT !.pending = FALSE] /\ window' = [window EXCEPT !.fit = scr.content]
    <3>1. /\ scr' \in ScrState /\ scr'.request = scr.request /\ scr'.frame = scr.frame
          /\ scr'.size = scr.size /\ scr.content \in Pairs
      BY <1>t, <2>2 DEF ScrState
    <3>2. window' \in WindowState
      BY <1>t, <2>2, <3>1 DEF WindowState
    <3> QED BY <1>s, <1>t, <2>1, <3>1, <3>2, ScreenTyped
  <2>3. CASE UNCHANGED <<scr, window>>
    BY <1>s, <1>t, <2>1, <2>3, ScreenTyped
  <2> QED BY <1>3, <2>2, <2>3 DEF WindowRestored
<1>4. CASE WindowResized
  <2>1. UNCHANGED <<ui, counter, disc, steps, window>>
    BY <1>4 DEF WindowResized
  <2> QED BY <1>4, <1>s, <1>t, <2>1, ResizedIs, ScreenTyped
<1>5. CASE Quit
  BY <1>5, <1>s, <1>t, <1>p, InterruptedIs, ScreenTyped DEF Quit
<1>6. CASE Disconnected
  <2>1. UNCHANGED <<window, steps>> /\ scr' = [scr EXCEPT !.disconnected = TRUE]
        /\ ui' \in {"hide", "window"}
    BY <1>6 DEF Disconnected
  <2>2. /\ scr' \in ScrState /\ scr'.request = scr.request /\ scr'.frame = scr.frame
        /\ scr'.size = scr.size
    BY <1>t, <2>1 DEF ScrState
  <2>3. [counter EXCEPT !.started = FALSE] \in CounterState
    BY <1>t DEF CounterState
  <2>4. counter' \in CounterState
    BY <1>6, <1>t, <2>3, InterruptedIs DEF Disconnected
  <2>5. disc' \in DiscState
    BY <1>6, <1>t DEF Disconnected, DiscState
  <2> QED BY <1>s, <1>t, <1>p, <2>1, <2>2, <2>4, <2>5, ScreenTyped
<1>7. CASE DyingNext \/ PostNext \/ CounterThread \/ SwitchCounter
  <2>0. scr' = scr /\ ui' \in {ui, "hide"}
    BY <1>7 DEF DyingNext, IconLoaded, DisconnectionOver, OtherEvent, PostNext,
        DiscLoad,
       DiscEnds, WindowChanges, UserResizes, Outside, CounterThread, SwitchCounter, Shortcut,
       screenVars
  <2>1. ui' \in Places /\ steps' \in {steps, steps + 1}
    BY <1>7, <1>t, <1>p, <2>0 DEF DyingNext, IconLoaded, DisconnectionOver,
        OtherEvent, PostNext,
       DiscLoad, DiscEnds, WindowChanges, UserResizes, Outside, CounterThread, SwitchCounter, Shortcut,
       screenVars
  <2>2. disc' \in DiscState
    BY <1>7, <1>t DEF DyingNext, IconLoaded, DisconnectionOver, OtherEvent,
        PostNext, DiscLoad,
       DiscEnds, WindowChanges, UserResizes, Outside, CounterThread, SwitchCounter, Shortcut,
       screenVars, DiscState
  <2>3. window' \in WindowState
    <3>1. ASSUME NEW flag \in {"fullscreen", "maximized"}, WindowChanges(flag)
          PROVE  window' \in WindowState
      BY <1>t, <3>1 DEF WindowChanges, WindowState
    <3>2. ASSUME NEW size \in Sizes, UserResizes(size)
          PROVE  window' \in WindowState
      BY <1>t, <3>2, SizesArePairs DEF UserResizes, WindowState
    <3>3. CASE window' = window
      BY <1>t, <3>3
    <3> QED BY <1>7, <3>1, <3>2, <3>3 DEF DyingNext, IconLoaded,
        DisconnectionOver, OtherEvent,
              PostNext, DiscLoad, DiscEnds, Outside, CounterThread, SwitchCounter, screenVars
  <2>4. counter' \in CounterState
    BY <1>7, <1>t DEF DyingNext, IconLoaded, DisconnectionOver, OtherEvent,
        PostNext, DiscLoad,
       DiscEnds, WindowChanges, UserResizes, Outside, CounterThread, SwitchCounter, screenVars,
       CounterState
  <2>5. steps' \in Nat
    BY <1>t, <2>1
  <2> QED BY <1>s, <1>t, <2>0, <2>1, <2>2, <2>3, <2>4, <2>5, ScreenTyped
<1>8. CASE EndNext
  <2>1. /\ UNCHANGED <<window, counter, disc, steps>> /\ ui' \in Places
        /\ scr' = scr \/ scr' = [scr EXCEPT !.shown = FALSE]
    BY <1>8, <1>p DEF EndNext, Hide, JoinDemuxer, JoinScreen, DestroyScreen
  <2>2. /\ scr' \in ScrState /\ scr'.request = scr.request /\ scr'.frame = scr.frame
        /\ scr'.size = scr.size
    BY <1>t, <2>1 DEF ScrState
  <2> QED BY <1>s, <1>t, <2>1, <2>2, ScreenTyped
<1>9. ASSUME NEW paused \in BOOLEAN, SetPaused(paused)
      PROVE  ScreenTypes' /\ ScrInv'
  <2>1. UNCHANGED <<ui, counter, disc>> /\ steps' \in Nat
    BY <1>9, <1>t DEF SetPaused, Shortcut
  <2> QED BY <1>9, <1>s, <1>t, <2>1, PausedIs, ScreenTyped DEF Displayed
<1>10. ASSUME NEW transform \in {1, 3, 4, 6}, SetOrientation(transform)
       PROVE  ScreenTypes' /\ ScrInv'
  <2>1. UNCHANGED <<ui, counter, disc>> /\ steps' \in Nat
    BY <1>10, <1>t DEF SetOrientation, Shortcut
  <2> QED BY <1>10, <1>s, <1>t, <2>1, OrientationIs, ScreenTyped DEF Displayed
<1>11. CASE ResizeToFit
  <2>1. UNCHANGED <<ui, counter, disc, scr>> /\ steps' \in Nat
    BY <1>11, <1>t DEF ResizeToFit, Shortcut
  <2>2. scr.content \in Pairs
    BY <1>t DEF ScrState
  <2>3. window' \in WindowState
    BY <1>11, <1>t, <2>2 DEF ResizeToFit, WindowState
  <2> QED BY <1>s, <1>t, <2>1, <2>3, ScreenTyped
<1> QED BY <1>0, <1>1, <1>2, <1>3, <1>4, <1>5, <1>6, <1>7, <1>8, <1>9, <1>10,
    <1>11, NextIs
        DEF OwnNext, LoopNext, KeyNext

--------------------------------------------------------------------------------
(* The way of the frames on the screen                                     *)

(* What the screen takes and shows is not what the other steps change.     *)
FramesKept == scr'.frame = scr.frame /\ scr'.resume = scr.resume /\ scr'.paused = scr.paused

(* Only a new frame and the end of a pause change what is displayed.       *)
LEMMA OthersKeepFrames ==
    ASSUME VideoTypes, ScreenTypes, ScrInv, OwnNext, ~NewFrame,
           \A paused \in BOOLEAN : ~SetPaused(paused)
    PROVE  FramesKept /\ slot' = slot
<1>t. scr \in ScrState
  BY DEF ScreenTypes
<1>0. slot' = slot
  BY OwnKeeps
<1>1. CASE OpenWindow
  BY <1>0, <1>1, OpenWindowIs DEF FramesKept
<1>2. CASE WindowRestored \/ Disconnected \/ Hide
  BY <1>0, <1>2, <1>t DEF WindowRestored, Disconnected, Hide, FramesKept, ScrState
<1>3. CASE WindowResized
  BY <1>0, <1>3, ResizedIs DEF FramesKept
<1>4. ASSUME NEW transform \in {1, 3, 4, 6}, SetOrientation(transform) PROVE FramesKept
  BY <1>4, OrientationIs DEF FramesKept
<1>5. CASE \/ Quit \/ DyingNext \/ JoinDemuxer \/ JoinScreen \/ DestroyScreen \/ ResizeToFit
           \/ SwitchCounter \/ PostNext \/ CounterThread
  <2>1. scr' = scr
    BY <1>5 DEF Quit, DyingNext, IconLoaded, DisconnectionOver, OtherEvent,
        JoinDemuxer, JoinScreen,
       DestroyScreen, ResizeToFit, SwitchCounter, PostNext, DiscLoad, DiscEnds, WindowChanges,
       UserResizes, Outside, CounterThread, screenVars
  <2> QED BY <1>0, <2>1 DEF FramesKept
<1> QED BY <1>0, <1>1, <1>2, <1>3, <1>4, <1>5 DEF OwnNext, LoopNext, EndNext,
    KeyNext

(* The frames stay in line up to the display.                              *)
LEMMA LineStep ==
    ASSUME VideoTypes, PipeInv, LineInv, ScreenTypes, ScrInv, AnnounceInv, ScreenNext
    PROVE  LineInv'
<1>1. CASE VideoNext /\ UNCHANGED screenVars
  BY <1>1, LineVideoStep DEF screenVars
<1>2. CASE OwnNext
  <2>0. /\ UNCHANGED <<stream, work, vr>> /\ vr'.held = vr.held /\ vr'.queue = vr.queue
        /\ Heading("regulator")' = Heading("regulator") /\ Heading("decoder")' = Heading("decoder")
        /\ EventsTyped
    BY <1>2, OwnKeeps DEF VideoKept, Heading, EventsTyped, ScreenTypes
  <2>1. Delayed' = Delayed
    BY <2>0, DelayedSame
  <2>2. CASE FramesKept /\ slot' = slot
    <3>1. WayInv'
      BY <2>0, <2>2, WayLess DEF LineInv, WayInv, FramesKept
    <3>2. StraightInv'
      BY <2>0, <2>1, <2>2 DEF LineInv, StraightInv, FramesKept
    <3> QED BY <3>1, <3>2 DEF LineInv
  <2>3. CASE NewFrame
    <3>1. slot.frame # <<>> /\ slot \in SlotState /\ slot' = [slot EXCEPT !.frame = <<>>]
      BY <2>0, <2>3, FrameEventIs DEF NewFrame, VideoTypes
    <3>2. slot'.frame = <<>>
      BY <3>1 DEF SlotState
    <3>3. Held(slot'.frame) = {}
      BY <3>2, HeldIs
    <3>4. /\ scr'.paused = scr.paused
          /\ \/ scr.paused /\ scr'.frame = scr.frame /\ scr'.resume = slot.frame
             \/ ~scr.paused /\ scr'.frame = slot.frame /\ scr'.resume = scr.resume
      BY <2>3, <3>1, NewFrameIs
    <3>5. CASE scr.paused /\ scr'.frame = scr.frame /\ scr'.resume = slot.frame
      <4>1. InLine(Held(scr.frame), Held(slot.frame), {}, Heading("regulator"), Held(vr.held),
                   Held(vr.queue), Heading("decoder"))
        BY DEF LineInv, WayInv, InLine, Before
      <4>2. Held(scr.frame) \cup Held(slot.frame) \cup {} \cup Heading("regulator")
              \cup Held(vr.held) \cup Held(vr.queue) \cup Heading("decoder")
            \subseteq 1..stream'.count
        BY <2>0 DEF LineInv, WayInv, OnTheWay, Delayed
      <4>3. Sorted(vr'.queue)
        BY <2>0 DEF LineInv, WayInv
      <4>4. WayInv'
        BY <2>0, <3>3, <3>5, <4>1, <4>2, <4>3, WayIs
      <4>5. StraightInv'
        BY <2>0, <2>1, <3>4, <3>5, StraightKept DEF LineInv
      <4> QED BY <4>4, <4>5 DEF LineInv
    <3>6. CASE ~scr.paused /\ scr'.frame = slot.frame /\ scr'.resume = scr.resume
      <4>0. scr.resume = <<>>
        BY <3>6 DEF LineInv, StraightInv
      <4>1. Held(scr'.resume) = {}
        BY <3>6, <4>0, HeldIs
      <4>2. InLine(Held(slot.frame), {}, {}, Heading("regulator"), Held(vr.held),
                   Held(vr.queue), Heading("decoder"))
        BY DEF LineInv, WayInv, InLine, Before
      <4>3. Held(slot.frame) \cup {} \cup {} \cup Heading("regulator")
              \cup Held(vr.held) \cup Held(vr.queue) \cup Heading("decoder")
            \subseteq 1..stream'.count
        BY <2>0 DEF LineInv, WayInv, OnTheWay, Delayed
      <4>4. Sorted(vr'.queue)
        BY <2>0 DEF LineInv, WayInv
      <4>5. WayInv'
        BY <2>0, <3>3, <3>6, <4>1, <4>2, <4>3, <4>4, WayIs
      <4>6. StraightInv'
        BY <2>0, <2>1, <3>6, <4>0, StraightKept DEF LineInv
      <4> QED BY <4>5, <4>6 DEF LineInv
    <3> QED BY <3>4, <3>5, <3>6
  <2>4. ASSUME NEW paused \in BOOLEAN, SetPaused(paused)
        PROVE  LineInv'
    <3>0. slot' = slot
      BY <2>4 DEF SetPaused, Shortcut, videoVars
    <3>1. \/ scr'.frame = scr.resume /\ scr'.resume = <<>>
          \/ /\ scr'.frame = scr.frame /\ scr'.resume = scr.resume
             /\ scr.paused => scr.resume = <<>>
      BY <2>4, PausedIs
    <3>2. Sorted(vr'.queue)
      BY <2>0 DEF LineInv, WayInv
    <3>3. WayInv'
      <4>1. CASE scr'.frame = scr.resume /\ scr'.resume = <<>>
        <5>1. Held(scr'.resume) = {}
          BY <4>1, HeldIs
        <5>2. InLine(Held(scr.resume), {}, Held(slot.frame), Heading("regulator"), Held(vr.held),
                     Held(vr.queue), Heading("decoder"))
          BY DEF LineInv, WayInv, InLine, Before
        <5>3. Held(scr.resume) \cup {} \cup Held(slot.frame) \cup Heading("regulator")
                \cup Held(vr.held) \cup Held(vr.queue) \cup Heading("decoder")
              \subseteq 1..stream'.count
          BY <2>0 DEF LineInv, WayInv, OnTheWay, Delayed
        <5> QED BY <2>0, <3>0, <3>2, <4>1, <5>1, <5>2, <5>3, WayIs
      <4>2. CASE scr'.frame = scr.frame /\ scr'.resume = scr.resume
        BY <2>0, <3>0, <3>2, <4>2, WayLess DEF LineInv
      <4> QED BY <3>1, <4>1, <4>2
    <3>4. scr'.resume = <<>>
      <4>1. ~scr.paused => scr.resume = <<>>
        BY DEF LineInv, StraightInv
      <4> QED BY <3>1, <4>1
    <3>5. StraightInv'
      BY <2>0, <2>1, <3>4, StraightKept DEF LineInv
    <3> QED BY <3>3, <3>5 DEF LineInv
  <2> QED BY <1>2, <2>2, <2>3, <2>4, OthersKeepFrames
<1> QED BY <1>1, <1>2, NextIs

--------------------------------------------------------------------------------
(* The announcement of the frame, handled                                  *)

(* Who has to post depends on the work only.                               *)
LEMMA PostingSame ==
    ASSUME work' = work PROVE \A p \in Producers : Posting(p)' <=> Posting(p)
  BY DEF Posting

(* Another event is posted.                                                *)
LEMMA AnnouncePosted ==
    ASSUME EventsTyped, AnnounceInv, VideoKept, slot' = slot, scr'.shown = scr.shown,
           ui' = "loop" => ui = "loop",
           \/ events' = events
           \/ \E e \in EventState : e.type # "frame" /\ events' = Append(events, e)
    PROVE  AnnounceInv'
<1>0. UNCHANGED <<decoder, work, vr>> /\ slot'.frame = slot.frame
  BY DEF VideoKept
<1>1. \A p \in Producers : Posting(p)' <=> Posting(p)
  BY <1>0, PostingSame
<1>2. CASE ui' # "loop"
  BY <1>0, <1>2 DEF AnnounceInv
<1>3. CASE ui' = "loop" /\ events' = events
  <2>1. IsOpened' <=> IsOpened
    BY <1>3 DEF IsOpened
  <2> QED BY <1>0, <1>1, <1>3, <2>1 DEF AnnounceInv, Producers
<1>4. ASSUME ui' = "loop", NEW e \in EventState, e.type # "frame", events' = Append(events, e)
      PROVE  AnnounceInv'
  <2>1. /\ Len(events') = Len(events) + 1 /\ Len(events) \in Nat /\ events'[Len(events) + 1] = e
        /\ \A i \in 1..Len(events) : events'[i] = events[i]
    BY <1>4, AppendIs DEF EventsTyped
  <2>2. /\ 1..Len(events) \subseteq 1..Len(events')
        /\ \A i \in 1..Len(events') : i \in 1..Len(events) \/ i = Len(events) + 1
        /\ \A i \in 1..Len(events) : 1..i \subseteq 1..Len(events)
    BY <2>1
  <2>3. \A i \in 1..Len(events') : events'[i].type = "frame" =>
           i \in 1..Len(events) /\ events[i].type = "frame"
    BY <1>4, <2>1, <2>2
  <2>4. IsOpened => IsOpened'
    BY <2>1, <2>2 DEF IsOpened
  <2>5. \A i \in 1..Len(events') : events'[i].type = "frame" =>
               /\ \A p \in Producers : ~Posting(p)'
               /\ slot'.frame # <<>>
               /\ scr'.shown \/ \E j \in 1..i : events'[j].type = "open"
    <3> SUFFICES ASSUME NEW i \in 1..Len(events'), events'[i].type = "frame"
                 PROVE  /\ \A p \in Producers : ~Posting(p)'
                        /\ slot'.frame # <<>>
                        /\ scr'.shown \/ \E j \in 1..i : events'[j].type = "open"
      OBVIOUS
    <3>1. i \in 1..Len(events) /\ events[i].type = "frame"
      BY <2>3
    <3>2. /\ \A p \in Producers : ~Posting(p)
          /\ slot.frame # <<>>
          /\ scr.shown \/ \E j \in 1..i : events[j].type = "open"
      BY <1>4, <3>1 DEF AnnounceInv
    <3>3. \A j \in 1..i : events'[j] = events[j]
      BY <2>1, <2>2, <3>1
    <3> QED BY <1>0, <1>1, <3>2, <3>3
  <2>6. \A i, j \in 1..Len(events') :
           events'[i].type = "frame" /\ events'[j].type = "frame" => i = j
    BY <1>4, <2>3 DEF AnnounceInv
  <2>7. (\E i \in 1..Len(events) : events[i].type = "frame")
        => \E i \in 1..Len(events') : events'[i].type = "frame"
    BY <2>1, <2>2
  <2> QED BY <1>0, <1>1, <1>4, <2>4, <2>5, <2>6, <2>7 DEF AnnounceInv, Producers
<1> QED BY <1>2, <1>3, <1>4

(* An event that announces no frame is handled.                            *)
LEMMA AnnounceConsumed ==
    ASSUME EventsTyped, AnnounceInv, VideoKept, slot' = slot, ui = "loop", ui' = "loop",
           events # <<>>, events' = Tail(events), events[1].type # "frame",
           IF events[1].type = "open" THEN scr'.shown ELSE scr'.shown = scr.shown
    PROVE  AnnounceInv'
<1>0. UNCHANGED <<decoder, work, vr>> /\ slot'.frame = slot.frame
  BY DEF VideoKept
<1>1. \A p \in Producers : Posting(p)' <=> Posting(p)
  BY <1>0, PostingSame
<1>2. /\ Len(events) \in Nat \ {0} /\ Len(events') = Len(events) - 1
      /\ \A i \in 1..Len(events) - 1 : events'[i] = events[i + 1]
  BY TailIs DEF EventsTyped
<1>3. /\ \A i \in 1..Len(events') : i + 1 \in 1..Len(events) /\ i \in 1..Len(events) - 1
      /\ \A i \in 1..Len(events) : i = 1 \/ (i - 1 \in 1..Len(events') /\ (i - 1) + 1 = i)
      /\ \A i \in 1..Len(events) : \A j \in 1..i : j \in 1..Len(events)
      /\ \A i \in 1..Len(events') : \A j \in 1..i + 1 : j = 1 \/ j - 1 \in 1..i
  BY <1>2
<1>4. \A i \in 1..Len(events') : events'[i] = events[i + 1]
  BY <1>2, <1>3
<1>5. \A i \in 1..Len(events) : i # 1 => events[i] = events'[i - 1] /\ i - 1 \in 1..Len(events')
  BY <1>3, <1>4
<1>6. IsOpened => IsOpened'
  BY <1>5 DEF IsOpened
<1>7. \A i \in 1..Len(events') : events'[i].type = "frame" =>
             /\ \A p \in Producers : ~Posting(p)'
             /\ slot'.frame # <<>>
             /\ scr'.shown \/ \E j \in 1..i : events'[j].type = "open"
  <2> SUFFICES ASSUME NEW i \in 1..Len(events'), events'[i].type = "frame"
               PROVE  /\ \A p \in Producers : ~Posting(p)'
                      /\ slot'.frame # <<>>
                      /\ scr'.shown \/ \E j \in 1..i : events'[j].type = "open"
    OBVIOUS
  <2>1. i + 1 \in 1..Len(events) /\ events[i + 1].type = "frame"
    BY <1>3, <1>4
  <2>2. /\ \A p \in Producers : ~Posting(p)
        /\ slot.frame # <<>>
        /\ scr.shown \/ \E j \in 1..i + 1 : events[j].type = "open"
    BY <2>1 DEF AnnounceInv
  <2>3. scr'.shown \/ \E j \in 1..i : events'[j].type = "open"
    <3>1. CASE scr.shown
      BY <3>1
    <3>2. ASSUME NEW j \in 1..i + 1, events[j].type = "open"
          PROVE  scr'.shown \/ \E k \in 1..i : events'[k].type = "open"
      <4>1. j = 1 \/ j - 1 \in 1..i
        BY <1>3
      <4>2. CASE j = 1
        BY <3>2, <4>2
      <4>3. CASE j # 1 /\ j - 1 \in 1..i
        <5>1. j \in 1..Len(events)
          BY <1>3, <2>1
        <5> QED BY <1>5, <3>2, <4>3, <5>1
      <4> QED BY <4>1, <4>2, <4>3
    <3> QED BY <2>2, <3>1, <3>2
  <2> QED BY <1>0, <1>1, <2>2, <2>3
<1>8. \A i, j \in 1..Len(events') :
         events'[i].type = "frame" /\ events'[j].type = "frame" => i = j
  <2> SUFFICES ASSUME NEW i \in 1..Len(events'), NEW j \in 1..Len(events'),
                      events'[i].type = "frame", events'[j].type = "frame"
               PROVE  i = j
    OBVIOUS
  <2>1. i + 1 = j + 1
    BY <1>3, <1>4 DEF AnnounceInv
  <2> QED BY <2>1
<1>9. (\E i \in 1..Len(events) : events[i].type = "frame")
      => \E i \in 1..Len(events') : events'[i].type = "frame"
  BY <1>5
<1> QED BY <1>0, <1>1, <1>6, <1>7, <1>8, <1>9 DEF AnnounceInv, Producers

(* The frame that was announced is taken.                                  *)
LEMMA AnnounceTaken ==
    ASSUME VideoTypes, EventsTyped, AnnounceInv, VideoKept, Receives("loop", "frame"),
           ui' = ui, scr'.shown = scr.shown, slot' = [slot EXCEPT !.frame = <<>>],
           events' = Tail(events)
    PROVE  AnnounceInv'
<1>0. UNCHANGED <<decoder, work, vr>> /\ slot'.frame = <<>>
  BY DEF VideoKept, VideoTypes, SlotState
<1>1. \A p \in Producers : Posting(p)' <=> Posting(p)
  BY <1>0, PostingSame
<1>2. scr.shown /\ (\A p \in Producers : ~Posting(p))
      /\ \A i \in 2..Len(events) : events[i].type # "frame"
  BY FrameEventIs
<1>3. /\ Len(events) \in Nat \ {0} /\ Len(events') = Len(events) - 1
      /\ \A i \in 1..Len(events) - 1 : events'[i] = events[i + 1]
  BY TailIs, ReceivesIs DEF EventsTyped
<1>4. \A i \in 1..Len(events') : i + 1 \in 2..Len(events) /\ i \in 1..Len(events) - 1
  BY <1>3
<1>5. \A i \in 1..Len(events') : events'[i].type # "frame"
  BY <1>2, <1>3, <1>4
<1>6. IsOpened'
  BY <1>2 DEF IsOpened
<1> QED BY <1>0, <1>1, <1>2, <1>5, <1>6 DEF AnnounceInv, Producers

(* A frame in the slot is announced once, for every step.                  *)
LEMMA AnnounceStep ==
    ASSUME VideoTypes, PipeInv, ScreenTypes, ScrInv, AnnounceInv, ScreenNext
    PROVE  AnnounceInv'
<1>t. EventsTyped /\ scr \in ScrState
  BY DEF ScreenTypes, EventsTyped
<1>0. CASE VideoNext /\ UNCHANGED screenVars
  BY <1>0, <1>t, AnnounceVideoStep
<1>1. CASE NewFrame
  <2>1. VideoKept /\ Receives("loop", "frame") /\ ui' = ui /\ events' = Tail(events)
        /\ slot' = [slot EXCEPT !.frame = <<>>]
    BY <1>1, OwnKeeps DEF NewFrame, OwnNext, LoopNext, Consumed
  <2>2. scr'.shown = scr.shown
    BY <1>1, <1>t, <2>1, FrameEventIs, NewFrameIs DEF Displayed
  <2> QED BY <1>t, <2>1, <2>2, AnnounceTaken
<1>2. CASE OpenWindow
  <2>1. VideoKept /\ Receives("loop", "open") /\ ui' = ui /\ events' = Tail(events) /\ slot' = slot
    BY <1>2, OwnKeeps DEF OpenWindow, OwnNext, LoopNext, Consumed
  <2>2. scr'.shown
    BY <1>2, OpenWindowIs
  <2>3. ui = "loop" /\ events # <<>> /\ events[1].type = "open"
    BY <1>t, <2>1, ReceivesIs
  <2> QED BY <1>t, <2>1, <2>2, <2>3, AnnounceConsumed
<1>3. CASE WindowRestored \/ WindowResized
  <2>0. OwnNext
    BY <1>3 DEF OwnNext, LoopNext
  <2>1. VideoKept /\ ui' = ui /\ events' = Tail(events) /\ slot' = slot
        /\ (Receives("loop", "restored") \/ Receives("loop", "resized"))
    BY <1>3, <2>0, OwnKeeps DEF WindowRestored, WindowResized, Consumed
  <2>2. scr'.shown = scr.shown
    BY <1>3, <1>t, ResizedIs DEF WindowRestored, ScrState
  <2>3. ui = "loop" /\ events # <<>> /\ events[1].type \in {"restored", "resized"}
    BY <1>t, <2>1, ReceivesIs
  <2> QED BY <1>t, <2>1, <2>2, <2>3, AnnounceConsumed
<1>4. CASE Quit \/ Disconnected \/ DyingNext \/ EndNext
  <2>0. OwnNext /\ ~NewFrame /\ VideoKept
    <3>1. OwnNext
      BY <1>4 DEF OwnNext, LoopNext
    <3>2. Quit => ~Receives("loop", "frame")
      BY DEF Quit, Receives
    <3>3. Disconnected => ~Receives("loop", "frame")
      BY DEF Disconnected, Receives
    <3>4. DyingNext \/ EndNext => ui # "loop"
      BY DEF DyingNext, EndNext, IconLoaded, DisconnectionOver, OtherEvent,
          Hide, JoinDemuxer,
             JoinScreen, DestroyScreen, Receives
    <3> QED BY <1>4, <3>1, <3>2, <3>3, <3>4, OwnKeeps DEF NewFrame, Receives
  <2>1. slot' = slot /\ UNCHANGED decoder
    BY <2>0, OwnKeeps DEF VideoKept
  <2>2. ui' # "loop"
    BY <1>4 DEF Quit, Disconnected, DyingNext, EndNext, IconLoaded,
        DisconnectionOver, OtherEvent,
                Hide, JoinDemuxer, JoinScreen, DestroyScreen, Receives, screenVars
  <2> QED BY <2>1, <2>2 DEF AnnounceInv
<1>5. CASE KeyNext \/ CounterThread
  <2>0. UNCHANGED <<events, slot, ui>> /\ VideoKept
    BY <1>5 DEF KeyNext, CounterThread, SetPaused, SetOrientation, ResizeToFit,
        SwitchCounter,
                Shortcut, videoVars, VideoKept
  <2>1. scr'.shown = scr.shown
    <3>1. ASSUME NEW paused \in BOOLEAN, SetPaused(paused) PROVE scr'.shown = scr.shown
      BY <3>1, PausedIs DEF Displayed
    <3>2. ASSUME NEW transform \in {1, 3, 4, 6}, SetOrientation(transform)
          PROVE  scr'.shown = scr.shown
      BY <3>2, OrientationIs DEF Displayed
    <3>3. CASE ResizeToFit \/ SwitchCounter \/ CounterThread
      BY <3>3 DEF ResizeToFit, SwitchCounter, CounterThread
    <3> QED BY <1>5, <3>1, <3>2, <3>3 DEF KeyNext
  <2> QED BY <1>t, <2>0, <2>1, AnnouncePosted
<1>6. CASE PostNext
  <2>0. UNCHANGED <<slot, ui, scr>> /\ VideoKept
    BY <1>6 DEF PostNext, DiscLoad, DiscEnds, WindowChanges, UserResizes,
        Outside, screenVars,
                VideoKept, SameVideoButEvents
  <2>1. \A type \in PlainTypes : Event(type) \in EventState /\ Event(type).type = type
    BY DEF EventState, Event
  <2>2. \A size \in Sizes : setup.flex => [type |-> "resized", size |-> size] \in EventState
    BY DEF EventState, SizedTypes
  <2>3. \/ events' = events
        \/ \E e \in EventState : e.type # "frame" /\ events' = Append(events, e)
    <3>1. CASE \E type \in {"icon", "timeout", "restored", "quit", "disconnected"} :
                  events' = Append(events, Event(type))
      BY <2>1, <3>1 DEF PlainTypes
    <3>2. ASSUME NEW size \in Sizes, UserResizes(size)
          PROVE  \E e \in EventState : e.type # "frame" /\ events' = Append(events, e)
      BY <2>2, <3>2 DEF UserResizes, Post
    <3> QED BY <1>6, <3>1, <3>2 DEF PostNext, DiscLoad, DiscEnds, WindowChanges,
        Outside, Post
  <2> QED BY <1>t, <2>0, <2>3, AnnouncePosted
<1> QED BY <1>0, <1>1, <1>2, <1>3, <1>4, <1>5, <1>6, NextIs DEF OwnNext, LoopNext

--------------------------------------------------------------------------------
(* The size of the window                                                  *)

HasEvent(s, type) == \E i \in 1..Len(s) : s[i].type = type

(* An event stays until it is handled.                                     *)
LEMMA KeepsEvent ==
    ASSUME EventsTyped, NEW type, HasEvent(events, type),
           \/ events' = events
           \/ \E e \in EventState : events' = Append(events, e)
           \/ events # <<>> /\ events' = Tail(events) /\ events[1].type # type
    PROVE  HasEvent(events', type)
<1>1. PICK i \in 1..Len(events) : events[i].type = type
  BY DEF HasEvent
<1>2. CASE events' = events
  BY <1>2
<1>3. ASSUME NEW e \in EventState, events' = Append(events, e)
      PROVE  HasEvent(events', type)
  <2>1. Len(events') = Len(events) + 1 /\ Len(events) \in Nat /\ events'[i] = events[i]
    BY <1>3, AppendIs DEF EventsTyped
  <2>2. i \in 1..Len(events')
    BY <2>1
  <2> QED BY <1>1, <2>1, <2>2 DEF HasEvent
<1>4. CASE events # <<>> /\ events' = Tail(events) /\ events[1].type # type
  <2>1. /\ Len(events) \in Nat \ {0} /\ Len(events') = Len(events) - 1
        /\ \A k \in 1..Len(events) - 1 : events'[k] = events[k + 1]
    BY <1>4, TailIs DEF EventsTyped
  <2>2. i # 1
    BY <1>1, <1>4
  <2>3. i - 1 \in 1..Len(events) - 1 /\ i - 1 \in 1..Len(events') /\ (i - 1) + 1 = i
    BY <2>1, <2>2
  <2>4. events'[i - 1] = events[i]
    BY <2>1, <2>3
  <2> QED BY <1>1, <2>3, <2>4 DEF HasEvent
<1> QED BY <1>2, <1>3, <1>4

(* The ratio of the window when the content is set by ContentIs, or not.   *)
LEMMA FitKept ==
    ASSUME FitInv, setup' = setup, ui' = "loop" => ui = "loop", window'.flags = window.flags,
           scr'.shown = scr.shown, Fitted, scr.pending \in BOOLEAN, setup.flex \in BOOLEAN,
           HasEvent(events, "restored") => HasEvent(events', "restored")
    PROVE  FitInv'
<1> SUFFICES ASSUME ui' = "loop", ~setup.flex
             PROVE  /\ scr'.shown /\ ~scr'.pending => window'.fit = scr'.content
                    /\ scr'.pending \/ ~IsWindowed' => scr'.shown
                    /\ scr'.pending /\ IsWindowed' => HasEvent(events', "restored")
  BY DEF FitInv, HasEvent
<1>1. IsWindowed' <=> IsWindowed
  BY DEF IsWindowed
<1>2. /\ scr.shown /\ ~scr.pending => window.fit = scr.content
      /\ scr.pending \/ ~IsWindowed => scr.shown
      /\ scr.pending /\ IsWindowed => HasEvent(events, "restored")
  BY DEF FitInv, HasEvent
<1> QED BY <1>1, <1>2 DEF Fitted

(* The ratio of the window, for every step.                                *)
LEMMA FitStep ==
    ASSUME VideoTypes, PipeInv, ScreenTypes, ScrInv, AnnounceInv, FitInv, ScreenNext
    PROVE  FitInv'
<1>t. EventsTyped /\ scr \in ScrState /\ window \in WindowState /\ scr.pending \in BOOLEAN
      /\ setup.flex \in BOOLEAN
  BY SetupIs DEF ScreenTypes, EventsTyped, ScrState
<1>s. setup' = setup
  BY SetupKept
<1>e. \A type \in PlainTypes : Event(type) \in EventState
  BY DEF EventState, Event
<1>1. ASSUME UNCHANGED <<scr, window>>, ui' = "loop" => ui = "loop",
             events' = events \/ \E e \in EventState : events' = Append(events, e)
      PROVE  FitInv'
  <2>1. Fitted
    BY <1>1 DEF Fitted
  <2>2. HasEvent(events, "restored") => HasEvent(events', "restored")
    BY <1>1, <1>t, KeepsEvent
  <2> QED BY <1>1, <1>s, <1>t, <2>1, <2>2, FitKept
<1>2. CASE VideoNext /\ UNCHANGED screenVars
  <2>1. \E e \in EventState : events' = events \/ events' = Append(events, e)
    <3>1. CASE OpenSinks
      BY <3>1 DEF OpenSinks, Post, VideoTypes, LiveSession, EventState, SizedTypes
    <3>2. ASSUME NEW p \in Producers, PostNewFrame(p)
          PROVE  \E e \in EventState : events' = events \/ events' = Append(events, e)
      BY <1>e, <3>2 DEF PostNewFrame, Post, PlainTypes
    <3>3. CASE events' = events
      BY <1>e, <3>3 DEF PlainTypes
    <3> QED BY <1>2, <3>1, <3>2, <3>3
            DEF VideoNext, Decode, StreamEnds, CloseV4l2, JoinV4l2, CloseRegulator,
                JoinRegulator, PushToScreen, PushToV4l2, PushToRegulator, VrTake,
                VrDate, VrSpuriousWakeup, V4Take, V4Write, V4SpuriousWakeup
  <2> QED BY <1>1, <1>2, <2>1 DEF screenVars
<1>3. CASE OpenWindow
  <2>1. Receives("loop", "open") /\ events' = Tail(events)
    BY <1>3 DEF OpenWindow, Consumed
  <2>2. events # <<>> /\ events[1].type = "open" /\ ui = "loop"
    BY <1>t, <2>1, ReceivesIs
  <2>3. HasEvent(events, "restored") => HasEvent(events', "restored")
    BY <1>t, <2>1, <2>2, KeepsEvent
  <2>4. /\ window'.flags = window.flags /\ scr'.pending = scr.pending
        /\ scr'.shown = TRUE /\ window'.fit = scr'.content
    BY <1>3, OpenWindowIs
  <2>5. IsWindowed' <=> IsWindowed
    BY <2>4 DEF IsWindowed
  <2> QED BY <1>s, <2>2, <2>3, <2>4, <2>5 DEF FitInv, HasEvent
<1>4. CASE NewFrame
  <2>1. Receives("loop", "frame") /\ events' = Tail(events) /\ ui' = ui
    BY <1>4 DEF NewFrame, Consumed
  <2>2. events # <<>> /\ events[1].type = "frame" /\ slot.frame # <<>>
    BY <1>t, <2>1, ReceivesIs, FrameEventIs
  <2>3. HasEvent(events, "restored") => HasEvent(events', "restored")
    BY <1>t, <2>1, <2>2, KeepsEvent
  <2>4. Displayed
    BY <1>4, <2>2, NewFrameIs
  <2> QED BY <1>s, <1>t, <2>1, <2>3, <2>4, FitKept DEF Displayed
<1>5. CASE WindowRestored
  <2>1. Receives("loop", "restored") /\ events' = Tail(events) /\ ui' = ui
    BY <1>5 DEF WindowRestored, Consumed
  <2>2. CASE IsWindowed /\ scr.pending
    <3>1. scr' = [scr EXCEPT !.pending = FALSE] /\ window' = [window EXCEPT !.fit = scr.content]
      BY <1>5, <2>2 DEF WindowRestored
    <3>2. scr'.pending = FALSE /\ scr'.content = scr.content
      BY <1>t, <3>1 DEF ScrState
    <3>3. window'.fit = scr.content /\ window'.flags = window.flags
      BY <1>t, <3>1 DEF WindowState
    <3> QED BY <2>2, <3>2, <3>3 DEF FitInv, IsWindowed
  <2>3. CASE ~(IsWindowed /\ scr.pending)
    <3>1. UNCHANGED <<scr, window>>
      BY <1>5, <2>3 DEF WindowRestored
    <3> QED BY <1>s, <2>1, <2>3, <3>1 DEF FitInv, IsWindowed
  <2> QED BY <2>2, <2>3
<1>6. CASE WindowResized
  <2>1. setup.flex
    BY <1>6, ResizedIs
  <2> QED BY <1>s, <2>1 DEF FitInv
<1>7. CASE Quit \/ Disconnected \/ DyingNext \/ EndNext
  <2>1. ui' # "loop"
    BY <1>7 DEF Quit, Disconnected, DyingNext, EndNext, IconLoaded,
        DisconnectionOver, OtherEvent,
                Hide, JoinDemuxer, JoinScreen, DestroyScreen, Receives, screenVars
  <2> QED BY <2>1 DEF FitInv
<1>8. CASE KeyNext \/ CounterThread
  <2>0. UNCHANGED <<events, ui>>
    BY <1>8 DEF KeyNext, CounterThread, SetPaused, SetOrientation, ResizeToFit,
        SwitchCounter,
                Shortcut, videoVars
  <2>1. ASSUME NEW paused \in BOOLEAN, SetPaused(paused) PROVE FitInv'
    BY <1>s, <1>t, <2>0, <2>1, PausedIs, FitKept DEF Displayed
  <2>2. ASSUME NEW transform \in {1, 3, 4, 6}, SetOrientation(transform) PROVE FitInv'
    BY <1>s, <1>t, <2>0, <2>2, OrientationIs, FitKept DEF Displayed
  <2>3. CASE ResizeToFit
    <3>1. IsWindowed /\ window' = [window EXCEPT !.fit = scr.content] /\ scr' = scr
      BY <2>3 DEF ResizeToFit
    <3>2. window'.fit = scr'.content /\ window'.flags = window.flags /\ scr'.pending = scr.pending
      BY <1>t, <3>1 DEF WindowState
    <3>3. Fitted
      BY <3>1, <3>2 DEF Fitted
    <3> QED BY <1>s, <1>t, <2>0, <3>1, <3>2, <3>3, FitKept
  <2>4. CASE SwitchCounter \/ CounterThread
    BY <1>1, <2>0, <2>4 DEF SwitchCounter, CounterThread
  <2> QED BY <1>8, <2>1, <2>2, <2>3, <2>4 DEF KeyNext
<1>9. CASE DiscLoad \/ DiscEnds \/ \E type \in {"quit", "disconnected"} : Outside(type)
  <2>1. UNCHANGED <<scr, window, ui>>
    BY <1>9 DEF DiscLoad, DiscEnds, Outside, screenVars
  <2>2. events' = events \/ \E e \in EventState : events' = Append(events, e)
    BY <1>9, <1>e DEF DiscLoad, DiscEnds, Outside, Post, PlainTypes
  <2> QED BY <1>1, <2>1, <2>2
<1>10. ASSUME NEW flag \in {"fullscreen", "maximized"}, WindowChanges(flag)
       PROVE  FitInv'
  <2>0. scr.shown /\ UNCHANGED <<scr, ui>>
    BY <1>10 DEF WindowChanges
  <2>1. CASE flag \in window.flags
    <3>1. window' = [window EXCEPT !.flags = window.flags \ {flag}]
          /\ events' = Append(events, Event("restored"))
      BY <1>10, <2>1 DEF WindowChanges, Post
    <3>2. window'.fit = window.fit
      BY <1>t, <3>1 DEF WindowState
    <3>3. HasEvent(events', "restored")
      <4>1. Event("restored") \in EventState /\ Event("restored").type = "restored"
        BY <1>e DEF PlainTypes, Event
      <4>2. Len(events') = Len(events) + 1 /\ Len(events) \in Nat
            /\ events'[Len(events) + 1].type = "restored"
        BY <1>t, <3>1, <4>1, AppendIs DEF EventsTyped
      <4>3. Len(events) + 1 \in 1..Len(events')
        BY <4>2
      <4> QED BY <4>2, <4>3 DEF HasEvent
    <3> QED BY <1>s, <2>0, <3>2, <3>3 DEF FitInv, HasEvent
  <2>2. CASE flag \notin window.flags
    <3>1. window' = [window EXCEPT !.flags = window.flags \cup {flag}]
      BY <1>10, <2>2 DEF WindowChanges
    <3>2. window'.fit = window.fit /\ window'.flags # {}
      BY <1>t, <3>1 DEF WindowState
    <3> QED BY <1>s, <2>0, <3>2 DEF FitInv, IsWindowed
  <2> QED BY <2>1, <2>2
<1>11. ASSUME NEW size \in Sizes, UserResizes(size) PROVE FitInv'
  BY <1>s, <1>11 DEF UserResizes, FitInv
<1> QED BY <1>2, <1>3, <1>4, <1>5, <1>6, <1>7, <1>8, <1>9, <1>10, <1>11, NextIs
        DEF OwnNext, LoopNext, PostNext

--------------------------------------------------------------------------------
(* The end: the decoder does not run again, and what was posted is freed   *)

RunInv == work["decoder"] # <<>> => decoder = "running"

(* Only a running decoder has work, so that one that ended cannot fail.    *)
LEMMA RunStep ==
    ASSUME VideoTypes, WorkInv, RunInv, VideoNext
    PROVE  RunInv' /\ (decoder = "ended" => decoder' = "ended")
<1> USE DEF Producers
<1>w. work \in [Producers -> Seq(WorkStep)] /\ (decoder = "closed" => work["decoder"] = <<>>)
  BY DEF VideoTypes, WorkInv
<1>1. CASE OpenSinks
  BY <1>1, <1>w DEF OpenSinks, RunInv
<1>2. CASE Decode \/ StreamEnds
  BY <1>2 DEF Decode, StreamEnds, RunInv
<1>3. CASE CloseV4l2 \/ JoinV4l2 \/ CloseRegulator \/ JoinRegulator
  BY <1>3 DEF CloseV4l2, JoinV4l2, CloseRegulator, JoinRegulator, RunInv
<1>4. ASSUME NEW p \in Producers, work[p] # <<>>,
             \/ decoder' = decoder /\ \E w : work' = [work EXCEPT ![p] = w]
             \/ Fail(p)
      PROVE  RunInv' /\ (decoder = "ended" => decoder' = "ended")
  BY <1>4, <1>w DEF RunInv, Fail
<1>5. ASSUME NEW p \in Producers, PushToScreen(p) \/ PostNewFrame(p)
      PROVE  RunInv' /\ (decoder = "ended" => decoder' = "ended")
  <2>1. work[p] # <<>>
    BY <1>5 DEF PushToScreen, PostNewFrame, Next_
  <2>2. \/ decoder' = decoder /\ \E w : work' = [work EXCEPT ![p] = w]
        \/ Fail(p)
    BY <1>5 DEF PushToScreen, PostNewFrame, Done
  <2> QED BY <1>4, <2>1, <2>2
<1>6. CASE PushToV4l2("decoder") \/ PushToRegulator("decoder")
  <2>1. work["decoder"] # <<>>
    BY <1>6 DEF PushToV4l2, PushToRegulator, Next_
  <2>2. \/ decoder' = decoder /\ \E w : work' = [work EXCEPT !["decoder"] = w]
        \/ Fail("decoder")
    BY <1>6 DEF PushToV4l2, PushToRegulator, Done
  <2> QED BY <1>4, <2>1, <2>2
<1>7. CASE VrTake \/ VrDate \/ VrSpuriousWakeup \/ V4Take \/ V4Write \/ V4SpuriousWakeup
  <2>1. decoder' = decoder /\ work'["decoder"] = work["decoder"]
    BY <1>7, <1>w DEF VrTake, VrDate, VrSpuriousWakeup, V4Take, V4Write,
        V4SpuriousWakeup
  <2> QED BY <2>1 DEF RunInv
<1> QED BY <1>1, <1>2, <1>3, <1>5, <1>6, <1>7 DEF VideoNext

(* What is posted is there, with the rest.                                 *)
LEMMA EventHere ==
    ASSUME EventsTyped, NEW e \in EventState, events' = Append(events, e)
    PROVE  /\ HasEvent(events', e.type)
           /\ \A i \in 1..Len(events') : events'[i] = e \/ (i \in 1..Len(events) /\ events'[i] = events[i])
<1>1. /\ Len(events') = Len(events) + 1 /\ Len(events) \in Nat /\ events'[Len(events) + 1] = e
      /\ \A i \in 1..Len(events) : events'[i] = events[i]
  BY AppendIs DEF EventsTyped
<1>2. Len(events) + 1 \in 1..Len(events')
  BY <1>1
<1>3. \A i \in 1..Len(events') : i = Len(events) + 1 \/ i \in 1..Len(events)
  BY <1>1
<1> QED BY <1>1, <1>2, <1>3 DEF HasEvent

(* What FreedInv says of each part, with what it may become.               *)
LEMMA FreedKept ==
    ASSUME EventsTyped, FreedInv, freed \subseteq freed', ui' # "end",
           ui' \in {"join", "destroy", "end"} => decoder' = "ended",
           ui' \in {"destroy", "end"} => disc'.thread \in {"none", "ended"},
           decoder' # "closed" => decoder # "closed",
           HasEvent(events, "open") => HasEvent(events', "open") \/ "open" \in freed',
           scr'.shown \/ ui' = "window" => scr.shown \/ ui = "window" \/ "open" \in freed'
    PROVE  FreedInv'
<1>1. decoder' # "closed" => "open" \in freed' \/ HasEvent(events', "open")
  BY DEF FreedInv, HasEvent
<1>2. scr'.shown \/ ui' = "window" => "open" \in freed'
  BY DEF FreedInv
<1> QED BY <1>1, <1>2 DEF FreedInv, HasEvent

(* The data of the events, for a step of the threads.                      *)
LEMMA FreedVideoStep ==
    ASSUME VideoTypes, WorkInv, RunInv, EventsTyped, FreedInv, VideoNext, UNCHANGED screenVars
    PROVE  FreedInv'
<1>0. decoder = "ended" => decoder' = "ended"
  BY RunStep
<1>s. UNCHANGED <<ui, scr, disc, freed>>
  BY DEF screenVars
<1>1. CASE OpenSinks
  <2>1. stream.session.size \in Sizes
    BY DEF VideoTypes, LiveSession
  <2> DEFINE e == [type |-> "open", size |-> stream.session.size]
  <2>2. e \in EventState /\ e.type = "open" /\ events' = Append(events, e)
    BY <1>1, <2>1 DEF OpenSinks, Post, EventState, SizedTypes
  <2> HIDE DEF e
  <2>3. HasEvent(events', "open")
    BY <2>2, EventHere
  <2>4. decoder = "closed"
    BY <1>1 DEF OpenSinks
  <2>5. ui \notin {"join", "destroy", "end"}
    BY <2>4 DEF FreedInv
  <2>6. scr.shown \/ ui = "window" => "open" \in freed
    BY DEF FreedInv
  <2> QED BY <1>s, <2>3, <2>5, <2>6 DEF FreedInv, HasEvent
<1>2. ASSUME NEW p \in Producers, PostNewFrame(p) PROVE FreedInv'
  <2>1. decoder # "closed" \/ decoder' = "closed"
    <3>1. CASE decoder = "closed" /\ p = "decoder"
      BY <1>2, <3>1 DEF PostNewFrame, Next_, WorkInv
    <3>2. CASE p = "regulator"
      BY <1>2, <3>2 DEF PostNewFrame, Fail
    <3> QED BY <3>1, <3>2 DEF Producers
  <2>2. Event("frame") \in EventState /\ Event("frame").type = "frame"
    BY DEF Event, EventState, PlainTypes
  <2>3. events' = events \/ events' = Append(events, Event("frame"))
    BY <1>2 DEF PostNewFrame, Post
  <2>4. HasEvent(events, "open") => HasEvent(events', "open")
    BY <2>2, <2>3, KeepsEvent
  <2>5. \A i \in 1..Len(events') : events'[i].type = "frame"
                                   \/ (i \in 1..Len(events) /\ events'[i] = events[i])
    <3>1. CASE events' = events
      BY <3>1
    <3>2. CASE events' = Append(events, Event("frame"))
      BY <3>2, <2>2, EventHere
    <3> QED BY <2>3, <3>1, <3>2
  <2>6. ui' = "end" => \A i \in 1..Len(events') : events'[i].type \in {"open", "icon"}
                                                  => events'[i].type \in freed'
    BY <1>s, <2>5 DEF FreedInv
  <2>7. decoder' # "closed" => "open" \in freed' \/ HasEvent(events', "open")
    BY <1>s, <2>1, <2>4 DEF FreedInv, HasEvent
  <2>8. /\ ui' \in {"join", "destroy", "end"} => decoder' = "ended"
        /\ ui' \in {"destroy", "end"} => disc'.thread \in {"none", "ended"}
        /\ scr'.shown \/ ui' = "window" => "open" \in freed'
    BY <1>0, <1>s DEF FreedInv
  <2> QED BY <2>6, <2>7, <2>8 DEF FreedInv, HasEvent
<1>3. CASE events' = events /\ (decoder' # "closed" => decoder # "closed")
  BY <1>0, <1>3, <1>s DEF FreedInv
<1>4. ASSUME NEW p \in Producers, PushToScreen(p) PROVE FreedInv'
  BY <1>3, <1>4 DEF PushToScreen
<1>5. CASE PushToRegulator("decoder")
  <2>1. decoder # "closed" /\ events' = events
    BY <1>5 DEF PushToRegulator, Next_, WorkInv
  <2> QED BY <1>3, <2>1
<1> QED BY <1>1, <1>2, <1>3, <1>4, <1>5
        DEF VideoNext, Decode, StreamEnds, CloseV4l2, JoinV4l2, CloseRegulator,
            JoinRegulator, PushToV4l2, VrTake, VrDate, VrSpuriousWakeup, V4Take, V4Write,
            V4SpuriousWakeup

(* The data of the events, for every step.                                 *)
LEMMA FreedStep ==
    ASSUME VideoTypes, PipeInv, RunInv, ScreenTypes, ScrInv, AnnounceInv, FreedInv, ScreenNext
    PROVE  FreedInv'
<1>t. EventsTyped /\ scr \in ScrState /\ disc \in DiscState
  BY DEF ScreenTypes, EventsTyped
<1>1. CASE VideoNext /\ UNCHANGED screenVars
  BY <1>1, <1>t, FreedVideoStep DEF PipeInv
<1>k. OwnNext => decoder' = decoder
  BY OwnKeeps DEF VideoKept
<1>2. CASE OpenWindow
  <2>1. "open" \in freed' /\ freed \subseteq freed' /\ ui = "loop" /\ ui' = "loop" /\ disc' = disc
    BY <1>2 DEF OpenWindow, Receives
  <2>2. decoder' = decoder
    BY <1>2, <1>k DEF OwnNext, LoopNext
  <2> QED BY <1>t, <2>1, <2>2, FreedKept
<1>3. CASE NewFrame \/ WindowRestored \/ WindowResized \/ Quit
  <2>1. /\ Receives("loop", "frame") \/ Receives("loop", "restored")
           \/ Receives("loop", "resized") \/ Receives("loop", "quit")
        /\ ui' \in {"loop", "hide"} /\ freed' = freed /\ events' = Tail(events)
    BY <1>3 DEF NewFrame, WindowRestored, WindowResized, Quit, Receives, Consumed
  <2>2. events # <<>> /\ events[1].type # "open"
    BY <1>t, <2>1, ReceivesIs
  <2>3. HasEvent(events, "open") => HasEvent(events', "open")
    BY <1>t, <2>1, <2>2, KeepsEvent
  <2>4. decoder' = decoder
    BY <1>3, <1>k DEF OwnNext, LoopNext
  <2>5. scr'.shown = scr.shown
    <3>1. CASE NewFrame
      BY <3>1, <1>t, FrameEventIs, NewFrameIs DEF Displayed, NewFrame
    <3>2. CASE WindowRestored \/ WindowResized \/ Quit
      BY <3>2, <1>t, ResizedIs DEF WindowRestored, Quit, ScrState
    <3> QED BY <1>3, <3>1, <3>2
  <2> QED BY <1>t, <2>1, <2>3, <2>4, <2>5, FreedKept
<1>4. CASE Disconnected
  <2>1. /\ Receives("loop", "disconnected") /\ freed' = freed /\ events' = Tail(events)
        /\ scr' = [scr EXCEPT !.disconnected = TRUE]
        /\ ui' = "hide" \/ (scr.shown /\ ui' = "window")
    BY <1>4 DEF Disconnected, Consumed
  <2>2. events # <<>> /\ events[1].type # "open"
    BY <1>t, <2>1, ReceivesIs
  <2>3. HasEvent(events, "open") => HasEvent(events', "open")
    BY <1>t, <2>1, <2>2, KeepsEvent
  <2>4. decoder' = decoder /\ scr'.shown = scr.shown
    BY <1>4, <1>k, <1>t, <2>1 DEF OwnNext, LoopNext, ScrState
  <2> QED BY <1>t, <2>1, <2>3, <2>4, FreedKept
<1>5. CASE DyingNext
  <2>1. /\ freed \subseteq freed' /\ ui = "window" /\ ui' \in {"window", "hide"}
        /\ scr' = scr
    BY <1>5 DEF DyingNext, IconLoaded, DisconnectionOver, OtherEvent, Receives,
        screenVars
  <2>2. decoder' = decoder
    BY <1>5, <1>k DEF OwnNext
  <2>3. "open" \in freed'
    BY <2>1 DEF FreedInv
  <2> QED BY <1>t, <2>1, <2>2, <2>3, FreedKept
<1>6. CASE Hide \/ JoinDemuxer \/ JoinScreen
  <2>1. /\ freed' = freed /\ events' = events /\ decoder' = decoder /\ disc' = disc
        /\ ui' \in {"joinDemuxer", "join", "destroy"}
    BY <1>6 DEF Hide, JoinDemuxer, JoinScreen, videoVars
  <2>2. scr'.shown => scr.shown
    BY <1>6, <1>t DEF Hide, JoinDemuxer, JoinScreen, ScrState
  <2>3. ui' \in {"join", "destroy", "end"} => decoder' = "ended"
    BY <1>6, <2>1 DEF Hide, JoinDemuxer, JoinScreen, FreedInv
  <2>4. ui' \in {"destroy", "end"} => disc'.thread \in {"none", "ended"}
    BY <1>6, <2>1 DEF Hide, JoinDemuxer, JoinScreen
  <2> QED BY <1>t, <2>1, <2>2, <2>3, <2>4, FreedKept
<1>7. CASE DestroyScreen
  <2>1. /\ UNCHANGED <<decoder, events, scr, disc>> /\ ui = "destroy" /\ ui' = "end"
        /\ freed' = freed \cup ({events[i].type : i \in DOMAIN events} \cap {"icon", "open"})
    BY <1>7 DEF DestroyScreen, videoVars
  <2>2. DOMAIN events = 1..Len(events)
    BY <1>t, LenProperties DEF EventsTyped
  <2>3. \A i \in 1..Len(events) : events[i].type \in {"open", "icon"} => events[i].type \in freed'
    BY <2>1, <2>2
  <2> QED BY <2>1, <2>3 DEF FreedInv
<1>8. CASE KeyNext
  <2>0. UNCHANGED <<events, ui, freed, disc, decoder>> /\ ui \in {"loop", "window"}
    BY <1>8 DEF KeyNext, SetPaused, SetOrientation, ResizeToFit, SwitchCounter,
        Shortcut, videoVars
  <2>1. ASSUME NEW paused \in BOOLEAN, SetPaused(paused) PROVE scr'.shown = scr.shown
    BY <2>1, PausedIs DEF Displayed
  <2>2. ASSUME NEW transform \in {1, 3, 4, 6}, SetOrientation(transform)
        PROVE  scr'.shown = scr.shown
    BY <2>2, OrientationIs DEF Displayed
  <2>3. scr'.shown = scr.shown
    BY <1>8, <2>1, <2>2 DEF KeyNext, ResizeToFit, SwitchCounter
  <2> QED BY <1>t, <2>0, <2>3 DEF FreedInv
<1>9. CASE CounterThread
  BY <1>9 DEF CounterThread, videoVars, FreedInv
<1>10. CASE PostNext
  <2>0. UNCHANGED <<ui, scr, freed>> /\ decoder' = decoder
    BY <1>10, <1>k DEF PostNext, DiscLoad, DiscEnds, WindowChanges, UserResizes,
        Outside, screenVars,
                OwnNext
  <2>1. \A type \in PlainTypes : Event(type) \in EventState /\ Event(type).type = type
    BY DEF EventState, Event
  <2>2. \A size \in Sizes : /\ [type |-> "resized", size |-> size].type = "resized"
                            /\ setup.flex => [type |-> "resized", size |-> size] \in EventState
    BY DEF EventState, SizedTypes
  <2>3. \/ events' = events
        \/ \E e \in EventState : /\ e.type # "open" /\ (e.type = "icon" => DiscLoad)
                                 /\ events' = Append(events, e)
    <3>1. CASE DiscLoad
      BY <2>1, <3>1 DEF DiscLoad, Post, PlainTypes
    <3>2. CASE \E type \in {"timeout", "restored", "quit", "disconnected"} :
                  events' = Append(events, Event(type))
      BY <2>1, <3>2 DEF PlainTypes
    <3>3. ASSUME NEW size \in Sizes, UserResizes(size)
          PROVE  \E e \in EventState : /\ e.type # "open" /\ (e.type = "icon" => DiscLoad)
                                       /\ events' = Append(events, e)
      <4>1. [type |-> "resized", size |-> size] \in EventState
            /\ [type |-> "resized", size |-> size].type = "resized"
            /\ events' = Append(events, [type |-> "resized", size |-> size])
        BY <2>2, <3>3 DEF UserResizes, Post
      <4> QED BY <4>1
    <3> QED BY <1>10, <3>1, <3>2, <3>3 DEF PostNext, DiscEnds, WindowChanges,
        Outside, Post
  <2>4. ui \in {"destroy", "end"} => ~DiscLoad /\ disc'.thread \in {"none", "ended"}
    <3>1. ui \in {"destroy", "end"} => disc.thread \in {"none", "ended"}
      BY DEF FreedInv
    <3>2. disc' = disc \/ disc.thread \in {"loading", "waiting"}
      BY <1>10 DEF PostNext, DiscLoad, DiscEnds, WindowChanges, UserResizes,
          Outside, screenVars
    <3> QED BY <3>1, <3>2 DEF DiscLoad
  <2>5. HasEvent(events, "open") => HasEvent(events', "open")
    BY <1>t, <2>3, KeepsEvent
  <2>6. \A i \in 1..Len(events') :
           \/ events'[i].type \notin {"open", "icon"} \/ DiscLoad
           \/ i \in 1..Len(events) /\ events'[i] = events[i]
    BY <1>t, <2>3, EventHere
  <2>7. ui' = "end" => \A i \in 1..Len(events') : events'[i].type \in {"open", "icon"}
                                                  => events'[i].type \in freed'
    BY <2>0, <2>4, <2>6 DEF FreedInv
  <2>8. decoder' # "closed" => "open" \in freed' \/ HasEvent(events', "open")
    BY <2>0, <2>5 DEF FreedInv, HasEvent
  <2>9. /\ ui' \in {"join", "destroy", "end"} => decoder' = "ended"
        /\ scr'.shown \/ ui' = "window" => "open" \in freed'
    BY <2>0 DEF FreedInv
  <2> QED BY <2>0, <2>4, <2>7, <2>8, <2>9 DEF FreedInv, HasEvent
<1> QED BY <1>1, <1>2, <1>3, <1>4, <1>5, <1>6, <1>7, <1>8, <1>9, <1>10, NextIs
        DEF OwnNext, LoopNext, EndNext

--------------------------------------------------------------------------------
(* The first state                                                         *)

ScreenInvariant ==
    /\ VideoTypes /\ PipeInv /\ RunInv /\ LineInv /\ AnnounceInv
    /\ ScreenTypes /\ ScrInv /\ FitInv /\ FreedInv

(* Nothing has no number.                                                  *)
LEMMA NothingHeld == Held(<<>>) = {} /\ HeadingOf(<<>>) = {}
<1>1. 1..0 = {}
  OBVIOUS
<1> QED BY <1>1 DEF Held, HeadingOf

(* The first state.                                                        *)
LEMMA ScreenStarts ==
    ASSUME ScreenInit PROVE ScreenInvariant
<1> USE DEF Producers
<1>0. /\ setup \in Setups /\ decoder = "closed" /\ stream.count = 0
      /\ \A p \in Producers : work[p] = <<>>
      /\ slot.frame = <<>> /\ events = <<>> /\ v4.frame = <<>> /\ ~v4.hasFrame /\ v4.thread = "none"
      /\ vr.thread = "none" /\ vr.queue = <<>> /\ vr.held = <<>> /\ vr.range = 0
  BY DEF ScreenInit, VideoInit
<1>s. /\ ui = "loop" /\ ~scr.shown /\ scr.frame = <<>> /\ scr.resume = <<>> /\ ~scr.pending
      /\ scr.request = <<>> /\ window.flags = {} /\ disc.thread = "none"
  BY DEF ScreenInit
<1>n. 1..Len(<<>>) = {} /\ 2..Len(<<>>) = {} /\ <<>> # <<1>>
  OBVIOUS
<1>1. VideoTypes
  <2>1. setup.frames \in Nat
    BY <1>0, VideoOK DEF VideoOK
  <2>2. 0 \in 0..setup.frames /\ FALSE \in Asked
    <3>1. CASE setup.flex
      BY <2>1, <3>1 DEF Asked
    <3>2. CASE ~setup.flex
      BY <2>1, <3>2 DEF Asked
    <3> QED BY <3>1, <3>2
  <2>3. PICK size \in Sizes :
           stream = [count |-> 0, session |-> [size |-> size, client |-> FALSE]]
    BY DEF ScreenInit, VideoInit
  <2>4. stream.session \in LiveSession /\ stream \in [count : 0..setup.frames, session : LiveSession]
    BY <2>2, <2>3 DEF LiveSession
  <2>5. work \in [Producers -> Seq(WorkStep)]
    <3>1. <<>> \in Seq(WorkStep)
      BY EmptySeq
    <3> QED BY <3>1 DEF ScreenInit, VideoInit
  <2>6. slot \in SlotState
    BY <2>2, <2>4 DEF ScreenInit, VideoInit, SlotState, AtMostOne
  <2>7. vr \in VrState
    <3>1. <<>> \in Seq(LiveItem) /\ 0 \in 0..2
      BY EmptySeq
    <3> QED BY <3>1 DEF ScreenInit, VideoInit, VrState, AtMostOne
  <2>8. v4 \in V4State
    BY <2>2 DEF ScreenInit, VideoInit, V4State, AtMostOne
  <2> QED BY <1>0, <2>4, <2>5, <2>6, <2>7, <2>8 DEF VideoTypes
<1>2. Delayed = {} /\ Heading("decoder") = {} /\ Held(<<>>) = {}
  BY <1>0, NothingHeld DEF Delayed, Heading
<1>3. PipeInv
  BY <1>0, <1>n, <1>2 DEF PipeInv, WorkInv, RangeInv, WakeInv, SinksWakeUp
<1>4. RunInv
  BY <1>0 DEF RunInv
<1>5. LineInv
  <2>1. Heading("regulator") = {}
    BY <1>0, NothingHeld DEF Heading
  <2>2. WayInv
    BY <1>0, <1>s, <1>n, <1>2, <2>1 DEF WayInv, InLine, Before, Sorted, OnTheWay
  <2>3. StraightInv
    BY <1>0, <1>s, <1>n DEF StraightInv
  <2> QED BY <2>2, <2>3 DEF LineInv
<1>6. AnnounceInv
  BY <1>0, <1>s, <1>n DEF AnnounceInv, Posting, PostsFirst
<1>7. ScreenTypes
  <2>1. <<0, 0>> \in Pairs /\ <<>> \in OnePair /\ <<>> \in AtMostOne /\ 0 \in 0..7
    BY DEF Pairs, OnePair, AtMostOne
  <2>2. scr \in ScrState
    BY <2>1 DEF ScreenInit, ScrState
  <2>3. window \in WindowState
    BY <2>1 DEF ScreenInit, WindowState
  <2>4. counter \in CounterState /\ disc \in DiscState
    BY DEF ScreenInit, CounterState, DiscState
  <2>5. events \in Seq(EventState)
    BY <1>0, EmptySeq
  <2> QED BY <2>2, <2>3, <2>4, <2>5 DEF ScreenInit, ScreenTypes
<1>8. ScrInv
  BY <1>s DEF ScrInv
<1>9. FitInv
  BY <1>s DEF FitInv, IsWindowed
<1>10. FreedInv
  BY <1>0, <1>s DEF FreedInv
<1> QED BY <1>1, <1>3, <1>4, <1>5, <1>6, <1>7, <1>8, <1>9, <1>10 DEF ScreenInvariant

(* Every step of the screen and of the video.                              *)
LEMMA ScreenSteps ==
    ASSUME ScreenInvariant, [ScreenNext]_<<videoVars, screenVars>>
    PROVE  ScreenInvariant'
<1>1. CASE UNCHANGED <<videoVars, screenVars>>
  <2>0. UNCHANGED <<setup, decoder, stream, work, slot, vr, v4, events, ui, scr, window, counter,
                    disc, freed, steps>>
    BY <1>1 DEF videoVars, screenVars
  <2>1. VideoTypes' /\ ScrState' = ScrState /\ EventState' = EventState
    BY <2>0, LiveSame, ScrSame, EventSame DEF ScreenInvariant, VideoTypes
  <2>2. Delayed' = Delayed /\ Heading("decoder")' = Heading("decoder")
        /\ Heading("regulator")' = Heading("regulator")
    BY <2>0 DEF Delayed, Heading
  <2>3. PipeInv' /\ RunInv'
    BY <2>0, <2>2 DEF ScreenInvariant, PipeInv, RunInv, WorkInv, RangeInv,
        WakeInv, SinksWakeUp
  <2>4. LineInv'
    BY <2>0, <2>2 DEF ScreenInvariant, LineInv, WayInv, StraightInv, OnTheWay,
        Sorted
  <2>5. AnnounceInv'
    BY <2>0 DEF ScreenInvariant, AnnounceInv, Posting, IsOpened
  <2>6. ScreenTypes' /\ ScrInv'
    BY <2>0, <2>1 DEF ScreenInvariant, ScreenTypes, ScrInv, Pairs, WindowState,
        CounterState, DiscState
  <2>7. FitInv' /\ FreedInv'
    BY <2>0 DEF ScreenInvariant, FitInv, FreedInv, IsWindowed
  <2> QED BY <2>1, <2>3, <2>4, <2>5, <2>6, <2>7 DEF ScreenInvariant
<1>2. CASE ScreenNext
  <2>0. VideoTypes /\ PipeInv /\ RunInv /\ LineInv /\ AnnounceInv
        /\ ScreenTypes /\ ScrInv /\ FitInv /\ FreedInv
    BY DEF ScreenInvariant
  <2>1. VideoTypes' /\ PipeInv' /\ RunInv'
    <3>1. CASE VideoNext
      BY <2>0, <3>1, VideoTypesStep, PipeStep, RunStep DEF PipeInv
    <3>2. CASE OwnNext
      <4>1. VideoKept
        BY <3>2, OwnKeeps
      <4> QED BY <2>0, <3>2, <4>1, OwnVideo DEF VideoKept, RunInv
    <3> QED BY <1>2, <3>1, <3>2, NextIs
  <2>2. ScreenTypes' /\ ScrInv'
    BY <1>2, <2>0, ScreenTypesStep
  <2>3. LineInv'
    BY <1>2, <2>0, LineStep
  <2>4. AnnounceInv'
    BY <1>2, <2>0, AnnounceStep
  <2>5. FitInv'
    BY <1>2, <2>0, FitStep
  <2>6. FreedInv'
    BY <1>2, <2>0, FreedStep
  <2> QED BY <2>1, <2>2, <2>3, <2>4, <2>5, <2>6 DEF ScreenInvariant
<1> QED BY <1>1, <1>2

(* A shortcut turns or flips what is displayed, for a content of any size  *)
(* and any point.                                                          *)
RotatesFrom(source, transform, w, h, x, y) ==
    LET before == IF IsSwap(transform) THEN <<h, w>> ELSE <<w, h>>
        p == ToFrame(transform, w, h, x, y)
    IN ToFrame(Apply(source, transform), w, h, x, y)
         = ToFrame(source, before[1], before[2], p[1], p[2])

LEMMA RotatesAnywhere ==
    ASSUME NEW source \in 0..7, NEW transform \in {1, 3, 4, 6},
           NEW w \in Int, NEW h \in Int, NEW x \in Int, NEW y \in Int
    PROVE  RotatesFrom(source, transform, w, h, x, y)
<1>1. CASE transform = 1
  BY <1>1 DEF RotatesFrom, ToFrame, Apply, IsSwap, IsMirror, Rotation
<1>2. CASE transform = 3
  BY <1>2 DEF RotatesFrom, ToFrame, Apply, IsSwap, IsMirror, Rotation
<1>3. CASE transform = 4
  BY <1>3 DEF RotatesFrom, ToFrame, Apply, IsSwap, IsMirror, Rotation
<1>4. CASE transform = 6
  BY <1>4 DEF RotatesFrom, ToFrame, Apply, IsSwap, IsMirror, Rotation
<1> QED BY <1>1, <1>2, <1>3, <1>4

(* In particular for the points that the run checks.                       *)
LEMMA ScreenRotates == RotatesTheDisplay
<1>1. ASSUME NEW source \in 0..7, NEW transform \in {1, 3, 4, 6}, NEW x \in 0..2, NEW y \in 0..3
      PROVE  RotatesFrom(source, transform, 2, 3, x, y)
  <2>1. x \in Int /\ y \in Int /\ 2 \in Int /\ 3 \in Int
    OBVIOUS
  <2> QED BY <2>1, RotatesAnywhere, Zenon
<1>2. \A source \in 0..7, transform \in {1, 3, 4, 6} : \A x \in 0..2, y \in 0..3 :
         RotatesFrom(source, transform, 2, 3, x, y)
  BY <1>1
<1> QED BY <1>2, Zenon DEF RotatesTheDisplay, RotatesFrom

--------------------------------------------------------------------------------
(* What the properties say                                                 *)

(* The types and the assertions of the code.                               *)
LEMMA ScreenTyping ==
    ASSUME ScreenInvariant PROVE ScreenTypeOK
<1>0. VideoTypes /\ RangeInv /\ WorkInv /\ ScreenTypes /\ ScrInv
  BY DEF ScreenInvariant, PipeInv
<1>1. LiveSession \subseteq Session
  <2>1. Asked \subseteq BOOLEAN
    BY SetupIs, <1>0 DEF Asked
  <2> QED BY <2>1 DEF LiveSession, Session
<1>2. LiveItem \subseteq Item
  BY <1>1 DEF LiveItem, Item
<1>3. slot.frame \in {<<>>} \cup {<<item>> : item \in Item}
  BY <1>0, <1>2 DEF VideoTypes, SlotState, AtMostOne
<1>4. stream \in [count : 0..setup.frames, session : Session]
  BY <1>0, <1>1 DEF VideoTypes
<1>5. /\ vr.thread \in {"none", "ready", "waitQueue", "waitDate", "ended"}
      /\ v4.thread \in {"none", "ready", "waiting", "writing", "ended"}
      /\ vr.range \in 0..2
  BY <1>0 DEF VideoTypes, VrState, V4State
<1>6. vr.held # <<>> => vr.range > 0
  <2> SUFFICES ASSUME vr.held # <<>>, vr.range = 0 PROVE FALSE
    BY <1>5
  <2>1. vr.held \in AtMostOne
    BY <1>0 DEF VideoTypes, VrState
  <2>2. Len(vr.held) = 1
    BY <2>1 DEF AtMostOne
  <2>3. vr.held[1].n \in Held(vr.held)
    <3>1. 1 \in 1..1
      OBVIOUS
    <3> QED BY <1>0, <2>2, <3>1 DEF RangeInv, Held
  <2> QED BY <1>0, <2>3 DEF RangeInv, Delayed
<1>7. VideoTypeOK
  BY <1>0, <1>3, <1>4, <1>5, <1>6 DEF VideoTypeOK, VideoTypes, RangeInv
<1>8. /\ scr.orientation \in 0..7 /\ counter.thread \in {"none", "running", "waiting", "ended"}
      /\ disc.thread \in {"none", "loading", "waiting", "ended"}
  BY <1>0 DEF ScreenTypes, ScrState, CounterState, DiscState
<1> QED BY <1>0, <1>7, <1>8 DEF ScreenTypeOK, ScreenTypes, ScrInv

(* The frames of a part of the way are in order, with these numbers.       *)
PartIs(part, numbers) ==
    /\ \A i \in DOMAIN part : IsFrame(part[i]) => part[i].n \in numbers
    /\ \A i, j \in DOMAIN part : i < j /\ IsFrame(part[i]) /\ IsFrame(part[j])
                                 => part[i].n < part[j].n

(* One frame, or none, is in order.                                        *)
LEMMA OnePart ==
    ASSUME NEW s \in AtMostOne
    PROVE  PartIs(s, Held(s))
<1>1. CASE s = <<>>
  BY <1>1 DEF PartIs
<1>2. CASE s # <<>>
  <2>1. Len(s) = 1 /\ DOMAIN s = {1} /\ 1 \in 1..1
    BY <1>2 DEF AtMostOne
  <2>2. IsFrame(s[1]) => s[1].n \in Held(s)
    BY <2>1 DEF Held, IsFrame
  <2> QED BY <2>1, <2>2 DEF PartIs
<1> QED BY <1>1, <1>2

(* Only the first step of a producer goes to the screen.                   *)
LEMMA HeadPart ==
    ASSUME VideoTypes, WorkInv, NEW p \in Producers
    PROVE  PartIs(ToScreen(p), Heading(p))
<1>0. work[p] \in Seq(WorkStep)
  BY DEF VideoTypes
<1>1. DOMAIN work[p] = 1..Len(work[p]) /\ Len(work[p]) \in Nat
  BY <1>0, LenProperties
<1>2. ASSUME NEW i \in DOMAIN ToScreen(p)
      PROVE  i = 1 /\ ToScreen(p)[i] = work[p][1][2] /\ work[p] # <<>>
             /\ work[p][1][1] \in {"screen", "regulator"}
  <2>1. /\ i \in 1..Len(work[p]) /\ work[p][i][1] \in {"screen", "regulator"}
        /\ ToScreen(p)[i] = work[p][i][2]
    BY <1>1, <1>2 DEF ToScreen
  <2>2. i \notin 2..Len(work[p])
    BY <2>1 DEF WorkInv
  <2>3. i = 1
    BY <1>1, <2>1, <2>2
  <2>4. work[p] # <<>>
    BY <1>1, <2>1
  <2> QED BY <2>1, <2>3, <2>4
<1>3. ASSUME NEW i \in DOMAIN ToScreen(p), IsFrame(ToScreen(p)[i])
      PROVE  ToScreen(p)[i].n \in Heading(p)
  BY <1>2, <1>3 DEF Heading, HeadingOf, IsFrame
<1> QED BY <1>2, <1>3 DEF PartIs

(* The queue of the regulator is sorted.                                   *)
LEMMA QueuePart ==
    ASSUME VideoTypes, Sorted(vr.queue)
    PROVE  PartIs(vr.queue, Held(vr.queue))
<1>1. vr.queue \in Seq(LiveItem)
  BY DEF VideoTypes, VrState
<1>2. DOMAIN vr.queue = 1..Len(vr.queue)
  BY <1>1, LenProperties
<1> QED BY <1>2 DEF PartIs, Sorted, Held, IsFrame

(* Seven parts in order, each before the next ones.                        *)
LEMMA PartsInOrder ==
    ASSUME NEW a1, NEW a2, NEW a3, NEW a4, NEW a5, NEW a6, NEW a7,
           NEW s1, NEW s2, NEW s3, NEW s4, NEW s5, NEW s6, NEW s7,
           PartIs(a1, s1), PartIs(a2, s2), PartIs(a3, s3), PartIs(a4, s4), PartIs(a5, s5),
           PartIs(a6, s6), PartIs(a7, s7), InLine(s1, s2, s3, s4, s5, s6, s7)
    PROVE  InOrder(<<a1, a2, a3, a4, a5, a6, a7>>)
<1> DEFINE way == <<a1, a2, a3, a4, a5, a6, a7>>
           sets == <<s1, s2, s3, s4, s5, s6, s7>>
<1>1. DOMAIN way = 1..7
  OBVIOUS
<1>2. \A a \in 1..7 : PartIs(way[a], sets[a])
  <2>1. \A a \in 1..7 : a = 1 \/ a = 2 \/ a = 3 \/ a = 4 \/ a = 5 \/ a = 6 \/ a = 7
    OBVIOUS
  <2>2. /\ PartIs(way[1], sets[1]) /\ PartIs(way[2], sets[2]) /\ PartIs(way[3], sets[3])
        /\ PartIs(way[4], sets[4]) /\ PartIs(way[5], sets[5]) /\ PartIs(way[6], sets[6])
        /\ PartIs(way[7], sets[7])
    OBVIOUS
  <2> HIDE DEF way, sets
  <2> QED BY <2>1, <2>2
<1>3. \A a, b \in 1..7 : a < b => Before(sets[a], sets[b])
  <2>1. /\ \A b \in 2..7 : Before(s1, sets[b])
        /\ \A b \in 3..7 : Before(s2, sets[b])
        /\ \A b \in 4..7 : Before(s3, sets[b])
        /\ \A b \in 5..7 : Before(s4, sets[b])
        /\ \A b \in 6..7 : Before(s5, sets[b])
        /\ \A b \in 7..7 : Before(s6, sets[b])
    BY DEF InLine, Before
  <2>2. \A a, b \in 1..7 : a < b =>
           \/ (a = 1 /\ b \in 2..7) \/ (a = 2 /\ b \in 3..7) \/ (a = 3 /\ b \in 4..7)
           \/ (a = 4 /\ b \in 5..7) \/ (a = 5 /\ b \in 6..7) \/ (a = 6 /\ b \in 7..7)
    OBVIOUS
  <2>3. /\ sets[1] = s1 /\ sets[2] = s2 /\ sets[3] = s3 /\ sets[4] = s4 /\ sets[5] = s5
        /\ sets[6] = s6
    OBVIOUS
  <2> HIDE DEF sets
  <2> QED BY <2>1, <2>2, <2>3
<1> HIDE DEF way, sets
<1>4. ASSUME NEW a \in DOMAIN way, NEW b \in DOMAIN way, NEW i \in DOMAIN way[a],
             NEW j \in DOMAIN way[b], a < b \/ (a = b /\ i < j),
             IsFrame(way[a][i]), IsFrame(way[b][j])
      PROVE  way[a][i].n < way[b][j].n
  <2>1. PartIs(way[a], sets[a]) /\ PartIs(way[b], sets[b])
    BY <1>1, <1>2
  <2>2. CASE a < b
    <3>1. Before(sets[a], sets[b])
      BY <1>1, <1>3, <2>2
    <3> QED BY <1>4, <2>1, <3>1 DEF PartIs, Before
  <2>3. CASE a = b /\ i < j
    BY <1>4, <2>1, <2>3 DEF PartIs
  <2> QED BY <1>4, <2>2, <2>3
<1>5. InOrder(way)
  BY <1>4 DEF InOrder
<1> QED BY <1>5 DEF way

(* A set whose elements are equal has one at most.                         *)
LEMMA CountedOnce ==
    ASSUME NEW S, \A x, y \in S : x = y
    PROVE  Cardinality(S) \in {0, 1} /\ (S = {} => Cardinality(S) = 0)
<1>1. CASE S = {}
  BY <1>1, FS_EmptySet
<1>2. CASE S # {}
  <2>1. PICK x \in S : TRUE
    BY <1>2
  <2>2. S = {x}
    BY <2>1
  <2> QED BY <1>2, <2>2, FS_Singleton
<1> QED BY <1>1, <1>2

(* Frames are in order, announced once, and nobody sleeps on work.         *)
LEMMA ScreenFrames ==
    ASSUME ScreenInvariant PROVE FramesReachTheScreen
<1>0. VideoTypes /\ WorkInv /\ WakeInv /\ WayInv /\ AnnounceInv /\ ScreenTypes
  BY DEF ScreenInvariant, PipeInv, LineInv
<1>1. InOrder(<<scr.frame, scr.resume, slot.frame, ToScreen("regulator"), vr.held, vr.queue,
                ToScreen("decoder")>>)
  <2>1. scr.frame \in AtMostOne /\ scr.resume \in AtMostOne /\ slot.frame \in AtMostOne
        /\ vr.held \in AtMostOne
    BY <1>0 DEF ScreenTypes, ScrState, VideoTypes, SlotState, VrState
  <2>2. /\ PartIs(scr.frame, Held(scr.frame)) /\ PartIs(scr.resume, Held(scr.resume))
        /\ PartIs(slot.frame, Held(slot.frame)) /\ PartIs(vr.held, Held(vr.held))
    BY <2>1, OnePart
  <2>3. /\ PartIs(ToScreen("regulator"), Heading("regulator"))
        /\ PartIs(ToScreen("decoder"), Heading("decoder"))
    BY <1>0, HeadPart DEF Producers
  <2>4. PartIs(vr.queue, Held(vr.queue))
    BY <1>0, QueuePart DEF WayInv
  <2>5. InLine(Held(scr.frame), Held(scr.resume), Held(slot.frame), Heading("regulator"),
               Held(vr.held), Held(vr.queue), Heading("decoder"))
    BY <1>0 DEF WayInv
  <2> QED BY <2>2, <2>3, <2>4, <2>5, PartsInOrder
<1>2. DOMAIN events = 1..Len(events)
  BY <1>0, LenProperties DEF ScreenTypes
<1>3. \A p \in Producers : Next_(p, "post") <=> Posting(p)
  <2>1. ASSUME NEW p \in Producers PROVE Next_(p, "post") <=> Posting(p)
    <3>1. work[p] # <<>> => Head(work[p]) = work[p][1]
      BY <1>0, TailIs DEF VideoTypes
    <3> QED BY <3>1 DEF Next_, Posting, PostsFirst
  <2> QED BY <2>1
<1> DEFINE posting == {p \in Producers : Next_(p, "post")}
<1>4. ASSUME ui = "loop"
      PROVE  /\ Cardinality(FrameEvents) + Cardinality(posting) <= 1
             /\ FrameEvents # {} => slot.frame # <<>>
             /\ slot.frame # <<>> => \/ FrameEvents # {} \/ posting # {}
                                     \/ vr.stopped \/ decoder # "running"
             /\ \A i \in FrameEvents : scr.shown \/ \E j \in 1..i : events[j].type = "open"
  <2>1. /\ \A i, j \in FrameEvents : i = j
        /\ \A i \in FrameEvents : /\ \A p \in Producers : ~Posting(p)
                                  /\ slot.frame # <<>>
                                  /\ scr.shown \/ \E j \in 1..i : events[j].type = "open"
        /\ ~(Posting("decoder") /\ Posting("regulator"))
    BY <1>0, <1>2, <1>4 DEF AnnounceInv, FrameEvents
  <2>2. \A p, q \in posting : p = q
    BY <1>3, <2>1 DEF Producers
  <2>3. FrameEvents # {} => posting = {}
    BY <1>3, <2>1
  <2>4. Cardinality(FrameEvents) + Cardinality(posting) <= 1
    <3>1. /\ Cardinality(FrameEvents) \in {0, 1} /\ Cardinality(posting) \in {0, 1}
          /\ FrameEvents = {} => Cardinality(FrameEvents) = 0
          /\ posting = {} => Cardinality(posting) = 0
      BY <2>1, <2>2, CountedOnce
    <3> HIDE DEF posting
    <3> QED BY <2>3, <3>1
  <2>5. slot.frame # <<>> => \/ FrameEvents # {} \/ posting # {}
                             \/ vr.stopped \/ decoder # "running"
    BY <1>0, <1>2, <1>3, <1>4 DEF AnnounceInv, FrameEvents
  <2> QED BY <2>1, <2>4, <2>5
<1> QED BY <1>0, <1>1, <1>4 DEF FramesReachTheScreen, WakeInv

(* What was posted is freed.                                               *)
LEMMA ScreenFrees ==
    ASSUME ScreenInvariant PROVE PostedDataIsFreed
<1>1. FreedInv /\ DOMAIN events = 1..Len(events)
  BY LenProperties DEF ScreenInvariant, ScreenTypes
<1> QED BY <1>1 DEF FreedInv, PostedDataIsFreed

(* The window fits its content.                                            *)
LEMMA ScreenFits ==
    ASSUME ScreenInvariant PROVE WindowFitsContent
<1>1. FitInv /\ DOMAIN events = 1..Len(events) /\ scr.pending \in BOOLEAN
  BY LenProperties DEF ScreenInvariant, ScreenTypes, ScrState
<1> QED BY <1>1 DEF FitInv, WindowFitsContent

(***************************************************************************)
(* The ring of samples: its cursors                                        *)
(***************************************************************************)

LEMMA AudioSizes ==
    /\ AudioCapacity \in Nat \ {0} /\ AudioTarget \in Nat /\ MaxSample \in Nat
    /\ InitialLimit \in Nat /\ PlayedLimit \in Nat
    /\ AudioTarget < AudioCapacity
    /\ \A n \in FrameLengths : n \in Nat
    /\ \A n \in PullLengths : n \in Nat \ {0}
  BY AudioOK DEF AudioOK

Cursors == 0..AudioCapacity

LEMMA Wrapping ==
    ASSUME NEW x \in 0..2 * AllocSize - 1
    PROVE  x % AllocSize = IF x < AllocSize THEN x ELSE x - AllocSize
<1> DEFINE n == AllocSize
<1>1. n \in Nat \ {0}
  BY AudioSizes DEF AllocSize
<1> HIDE DEF n
<1>2. CASE x < n
  BY <1>1, <1>2 DEF n
<1>3. CASE x >= n
  <2>1. x \in n..2 * n - 1
    BY <1>1, <1>3 DEF n
  <2>2. x % n = x - n
    BY <1>1, <2>1
  <2> QED
    BY <1>1, <1>3, <2>2 DEF n
<1> QED
  BY <1>1, <1>2, <1>3 DEF n

LEMMA Distances ==
    ASSUME NEW head \in Cursors, NEW tail \in Cursors
    PROVE  /\ CanRead(head, tail) = IF tail <= head THEN head - tail ELSE AllocSize + head - tail
           /\ CanRead(head, tail) \in 0..AudioCapacity
           /\ CanWrite(head, tail) = AudioCapacity - CanRead(head, tail)
           /\ CanWrite(head, tail) \in 0..AudioCapacity
<1> USE AudioSizes DEF Cursors, AllocSize
<1>1. AllocSize + head - tail \in 0..2 * AllocSize - 1 /\ AllocSize + tail - head - 1 \in 0..2 * AllocSize - 1
  OBVIOUS
<1> DEFINE x == AllocSize + head - tail
           y == AllocSize + tail - head - 1
<1>2. x % AllocSize = IF x < AllocSize THEN x ELSE x - AllocSize
  BY <1>1, Wrapping
<1>3. y % AllocSize = IF y < AllocSize THEN y ELSE y - AllocSize
  BY <1>1, Wrapping
<1>4. CanRead(head, tail) = x % AllocSize /\ CanWrite(head, tail) = y % AllocSize
  BY DEF CanRead, CanWrite
<1>5. CanRead(head, tail) = IF tail <= head THEN head - tail ELSE AllocSize + head - tail
  BY <1>2, <1>4
<1>6. CanWrite(head, tail) = IF head < tail THEN tail - head - 1 ELSE AllocSize + tail - head - 1
  BY <1>3, <1>4
<1> QED
  BY <1>5, <1>6

LEMMA Moving ==
    ASSUME NEW cursor \in Cursors, NEW n \in Cursors
    PROVE  /\ (cursor + n) % AllocSize \in Cursors
           /\ (cursor + n) % AllocSize = IF cursor + n < AllocSize THEN cursor + n ELSE cursor + n - AllocSize
<1> USE AudioSizes DEF Cursors, AllocSize
<1>1. cursor + n \in 0..2 * AllocSize - 1
  OBVIOUS
<1> QED
  BY <1>1, Wrapping

LEMMA Reads ==
    ASSUME NEW head \in Cursors, NEW tail \in Cursors, NEW n \in 0..CanRead(head, tail)
    PROVE  /\ n \in Cursors /\ (tail + n) % AllocSize \in Cursors
           /\ CanRead(head, (tail + n) % AllocSize) = CanRead(head, tail) - n
<1>1. n \in Cursors
  BY Distances, AudioSizes DEF Cursors
<1> DEFINE t == (tail + n) % AllocSize
<1>2. t \in Cursors /\ t = IF tail + n < AllocSize THEN tail + n ELSE tail + n - AllocSize
  BY <1>1, Moving
<1> HIDE DEF t
<1>3. CanRead(head, tail) = IF tail <= head THEN head - tail ELSE AllocSize + head - tail
  BY Distances
<1>4. CanRead(head, t) = IF t <= head THEN head - t ELSE AllocSize + head - t
  BY <1>2, Distances
<1>5. CanRead(head, t) = CanRead(head, tail) - n
  BY <1>1, <1>2, <1>3, <1>4, AudioSizes DEF Cursors, AllocSize
<1> QED
  BY <1>1, <1>2, <1>5 DEF t

LEMMA Writes ==
    ASSUME NEW head \in Cursors, NEW tail \in Cursors, NEW n \in 0..CanWrite(head, tail)
    PROVE  /\ n \in Cursors /\ (head + n) % AllocSize \in Cursors
           /\ CanRead((head + n) % AllocSize, tail) = CanRead(head, tail) + n
<1>1. n \in Cursors
  BY Distances, AudioSizes DEF Cursors
<1> DEFINE h == (head + n) % AllocSize
<1>2. h \in Cursors /\ h = IF head + n < AllocSize THEN head + n ELSE head + n - AllocSize
  BY <1>1, Moving
<1> HIDE DEF h
<1>3. CanRead(head, tail) = IF tail <= head THEN head - tail ELSE AllocSize + head - tail
  BY Distances
<1>4. CanRead(h, tail) = IF tail <= h THEN h - tail ELSE AllocSize + h - tail
  BY <1>2, Distances
<1>5. n <= AudioCapacity - CanRead(head, tail)
  BY Distances
<1>6. CanRead(h, tail) = CanRead(head, tail) + n
  BY <1>1, <1>2, <1>3, <1>4, <1>5, AudioSizes DEF Cursors, AllocSize
<1> QED
  BY <1>1, <1>2, <1>6 DEF h

(* A stale cursor only makes the other side more careful.                  *)
LEMMA Shares ==
    ASSUME NEW head \in Cursors, NEW tail \in Cursors, NEW seen \in Cursors,
           CanRead(head, tail) <= CanRead(head, seen)
    PROVE  CanWrite(head, seen) <= CanWrite(head, tail)
<1>1. /\ CanWrite(head, seen) = AudioCapacity - CanRead(head, seen)
      /\ CanRead(head, seen) \in 0..AudioCapacity
  BY Distances
<1>2. /\ CanWrite(head, tail) = AudioCapacity - CanRead(head, tail)
      /\ CanRead(head, tail) \in 0..AudioCapacity
  BY Distances
<1> QED
  BY <1>1, <1>2, AudioSizes

(***************************************************************************)
(* Samples in their order                                                  *)
(***************************************************************************)

Sounds == Seq(0..MaxSample)
Memory == [Cursors -> 0..MaxSample]
Ascending(s) == \A i, j \in DOMAIN s : i < j /\ s[i] # 0 /\ s[j] # 0 => s[i] < s[j]
Stored(data, cursor, n) == [i \in 1..n |-> data[(cursor + i - 1) % AllocSize]]

LEMMA RealSamples ==
    ASSUME NEW s \in Sounds
    PROVE  /\ Real(s) \subseteq 1..MaxSample
           /\ \A i \in 1..Len(s) : s[i] # 0 => s[i] \in Real(s)
           /\ \A x \in Real(s) : x # 0 /\ \E i \in 1..Len(s) : s[i] = x
  BY AudioSizes DEF Real, ToSet, Sounds

LEMMA JoinedReal ==
    ASSUME NEW s \in Sounds, NEW t \in Sounds
    PROVE  s \o t \in Sounds /\ Real(s \o t) = Real(s) \cup Real(t)
<1>1. /\ s \o t \in Sounds /\ Len(s \o t) = Len(s) + Len(t)
      /\ \A i \in 1..Len(s) : (s \o t)[i] = s[i]
      /\ \A i \in 1..Len(t) : (s \o t)[Len(s) + i] = t[i]
  BY DEF Sounds
<1>2. \A i \in 1..Len(s) + Len(t) : i \notin 1..Len(s) => i - Len(s) \in 1..Len(t) /\ Len(s) + (i - Len(s)) = i
  BY DEF Sounds
<1>3. Len(s) \in Nat /\ Len(t) \in Nat
  BY DEF Sounds
<1>4. ASSUME NEW x \in Real(s \o t) PROVE x \in Real(s) \cup Real(t)
  <2>1. PICK i \in 1..Len(s) + Len(t) : (s \o t)[i] = x
    BY <1>1, <1>4, RealSamples, ZenonT(60)
  <2>2. x # 0
    BY <1>1, <1>4, RealSamples
  <2>3. CASE i \in 1..Len(s)
    BY <1>1, <2>1, <2>2, <2>3, RealSamples
  <2>4. CASE i \notin 1..Len(s)
    BY <1>1, <1>2, <2>1, <2>2, <2>4, RealSamples
  <2> QED
    BY <2>3, <2>4
<1>5. ASSUME NEW x \in Real(s) PROVE x \in Real(s \o t)
  <2>1. PICK i \in 1..Len(s) : s[i] = x
    BY <1>5, RealSamples
  <2>2. x # 0
    BY <1>5, RealSamples
  <2>3. i \in 1..Len(s \o t)
    BY <1>1, <1>3
  <2> QED
    BY <1>1, <2>1, <2>2, <2>3, RealSamples
<1>6. ASSUME NEW x \in Real(t) PROVE x \in Real(s \o t)
  <2>1. PICK i \in 1..Len(t) : t[i] = x
    BY <1>6, RealSamples
  <2>2. x # 0
    BY <1>6, RealSamples
  <2>3. Len(s) + i \in 1..Len(s \o t)
    BY <1>1, <1>3
  <2> QED
    BY <1>1, <2>1, <2>2, <2>3, RealSamples
<1> QED
  BY <1>1, <1>4, <1>5, <1>6

LEMMA JoinedOrder ==
    ASSUME NEW s \in Sounds, NEW t \in Sounds
    PROVE  Ascending(s \o t) <=> Ascending(s) /\ Ascending(t) /\ Before(Real(s), Real(t))
<1>1. /\ s \o t \in Sounds /\ Len(s \o t) = Len(s) + Len(t)
      /\ \A i \in 1..Len(s) : (s \o t)[i] = s[i]
      /\ \A i \in 1..Len(t) : (s \o t)[Len(s) + i] = t[i]
  BY DEF Sounds
<1>2. \A i \in 1..Len(s) + Len(t) : i \notin 1..Len(s) => i - Len(s) \in 1..Len(t) /\ Len(s) + (i - Len(s)) = i
  BY DEF Sounds
<1>3. Len(s) \in Nat /\ Len(t) \in Nat
  BY DEF Sounds
<1>4. DOMAIN s = 1..Len(s) /\ DOMAIN t = 1..Len(t) /\ DOMAIN (s \o t) = 1..Len(s) + Len(t)
  BY <1>1 DEF Sounds
<1>5. /\ \A i \in 1..Len(s) : i \in 1..Len(s) + Len(t)
      /\ \A i \in 1..Len(t) : Len(s) + i \in 1..Len(s) + Len(t)
      /\ \A i \in 1..Len(s), j \in 1..Len(t) : i < Len(s) + j
      /\ \A i, j \in 1..Len(t) : i < j => Len(s) + i < Len(s) + j
  BY <1>3
<1>6. ASSUME Ascending(s \o t) PROVE Ascending(s) /\ Ascending(t) /\ Before(Real(s), Real(t))
  <2>1. Ascending(s)
    BY <1>1, <1>4, <1>5, <1>6 DEF Ascending
  <2>2. Ascending(t)
    BY <1>1, <1>4, <1>5, <1>6 DEF Ascending
  <2>3. ASSUME NEW x \in Real(s), NEW y \in Real(t) PROVE x < y
    <3>1. PICK i \in 1..Len(s) : s[i] = x /\ x # 0
      BY RealSamples
    <3>2. PICK j \in 1..Len(t) : t[j] = y /\ y # 0
      BY RealSamples
    <3> QED
      BY <1>1, <1>4, <1>5, <1>6, <3>1, <3>2 DEF Ascending
  <2> QED
    BY <2>1, <2>2, <2>3 DEF Before
<1>7. ASSUME Ascending(s), Ascending(t), Before(Real(s), Real(t)) PROVE Ascending(s \o t)
  <2> SUFFICES ASSUME NEW i \in 1..Len(s) + Len(t), NEW j \in 1..Len(s) + Len(t), i < j,
                      (s \o t)[i] # 0, (s \o t)[j] # 0
               PROVE  (s \o t)[i] < (s \o t)[j]
    BY <1>4 DEF Ascending
  <2>1. CASE j \in 1..Len(s)
    <3>1. i \in 1..Len(s)
      BY <1>3, <2>1
    <3> QED
      BY <1>1, <1>4, <1>7, <2>1, <3>1 DEF Ascending
  <2>2. CASE i \in 1..Len(s) /\ j \notin 1..Len(s)
    <3>1. (s \o t)[i] \in Real(s)
      BY <1>1, <2>2, RealSamples
    <3>2. (s \o t)[j] \in Real(t)
      BY <1>1, <1>2, <2>2, RealSamples
    <3> QED
      BY <1>7, <3>1, <3>2 DEF Before
  <2>3. CASE i \notin 1..Len(s) /\ j \notin 1..Len(s)
    <3>1. i - Len(s) \in 1..Len(t) /\ j - Len(s) \in 1..Len(t) /\ i - Len(s) < j - Len(s)
      BY <1>2, <1>3, <2>3
    <3>2. (s \o t)[i] = t[i - Len(s)] /\ (s \o t)[j] = t[j - Len(s)]
      BY <1>1, <1>2, <2>3
    <3> QED
      BY <1>4, <1>7, <3>1, <3>2 DEF Ascending
  <2> QED
    BY <2>1, <2>2, <2>3
<1> QED
  BY <1>6, <1>7

LEMMA StoredSounds ==
    ASSUME NEW data \in Memory, NEW cursor \in Cursors, NEW n \in Cursors
    PROVE  /\ Stored(data, cursor, n) \in Sounds /\ Len(Stored(data, cursor, n)) = n
           /\ \A i \in 1..n : /\ Stored(data, cursor, n)[i] = data[(cursor + i - 1) % AllocSize]
                              /\ i - 1 \in Cursors /\ cursor + i - 1 = cursor + (i - 1)
<1>1. ASSUME NEW i \in 1..n
      PROVE  i - 1 \in Cursors /\ cursor + i - 1 = cursor + (i - 1)
  BY AudioSizes DEF Cursors
<1>2. \A i \in 1..n : data[(cursor + i - 1) % AllocSize] \in 0..MaxSample
  BY <1>1, Moving DEF Memory
<1>3. n \in Nat
  BY AudioSizes DEF Cursors
<1>4. Stored(data, cursor, n) \in Sounds /\ Len(Stored(data, cursor, n)) = n
  BY <1>2, <1>3 DEF Stored, Sounds
<1> QED
  BY <1>1, <1>4 DEF Stored

LEMMA StoredParts ==
    ASSUME NEW data \in Memory, NEW cursor \in Cursors, NEW n \in Cursors, NEW m \in 0..n
    PROVE  /\ m \in Cursors /\ n - m \in Cursors /\ (cursor + m) % AllocSize \in Cursors
           /\ Stored(data, cursor, n)
                = Stored(data, cursor, m) \o Stored(data, (cursor + m) % AllocSize, n - m)
<1>0. n - m \in Cursors
  BY AudioSizes DEF Cursors
<1> PICK k \in Cursors : k = n - m
  BY <1>0
<1>1. m \in Cursors /\ n \in Nat /\ m \in Nat /\ k \in Nat /\ m + k = n
  BY AudioSizes DEF Cursors
<1> DEFINE c == (cursor + m) % AllocSize
<1>2. c \in Cursors /\ c = IF cursor + m < AllocSize THEN cursor + m ELSE cursor + m - AllocSize
  BY <1>1, Moving
<1> HIDE DEF c
<1> DEFINE whole == Stored(data, cursor, n)
           first == Stored(data, cursor, m)
           rest == Stored(data, c, k)
<1>3. whole \in Sounds /\ Len(whole) = n /\ \A i \in 1..n : whole[i] = data[(cursor + i - 1) % AllocSize]
  BY StoredSounds
<1>4. first \in Sounds /\ Len(first) = m /\ \A i \in 1..m : first[i] = data[(cursor + i - 1) % AllocSize]
  BY <1>1, StoredSounds
<1>5. rest \in Sounds /\ Len(rest) = k /\ \A i \in 1..k : rest[i] = data[(c + i - 1) % AllocSize]
  <2>1. c \in Cursors
    BY <1>2
  <2> QED
    BY <2>1, StoredSounds
<1>6. ASSUME NEW i \in 1..n, i > m
      PROVE  i - m \in 1..k /\ (c + (i - m) - 1) % AllocSize = (cursor + i - 1) % AllocSize
  <2>1. i - m \in 1..k /\ i - 1 \in Cursors /\ (i - m) - 1 \in Cursors
    BY <1>1, <1>6, AudioSizes DEF Cursors
  <2>2. (cursor + (i - 1)) % AllocSize
          = IF cursor + (i - 1) < AllocSize THEN cursor + (i - 1) ELSE cursor + (i - 1) - AllocSize
    BY <2>1, Moving
  <2>3. (c + ((i - m) - 1)) % AllocSize
          = IF c + ((i - m) - 1) < AllocSize THEN c + ((i - m) - 1) ELSE c + ((i - m) - 1) - AllocSize
    BY <1>2, <2>1, Moving
  <2>4. (c + ((i - m) - 1)) % AllocSize = (cursor + (i - 1)) % AllocSize
    BY <1>1, <1>2, <2>1, <2>2, <2>3, AudioSizes DEF Cursors, AllocSize
  <2>5. c + ((i - m) - 1) = c + (i - m) - 1 /\ cursor + (i - 1) = cursor + i - 1
    BY <1>1, <1>2 DEF Cursors
  <2> QED
    BY <2>1, <2>4, <2>5
<1> HIDE DEF whole, first, rest
<1>7. first \o rest \in Sounds /\ Len(first \o rest) = n
  <2>1. first \in Seq(0..MaxSample) /\ rest \in Seq(0..MaxSample)
    BY <1>4, <1>5 DEF Sounds
  <2>2. first \o rest \in Seq(0..MaxSample) /\ Len(first \o rest) = Len(first) + Len(rest)
    BY <2>1, ConcatProperties
  <2> QED
    BY <1>1, <1>4, <1>5, <2>2 DEF Sounds
<1>8. \A i \in 1..n : (first \o rest)[i] = whole[i]
  <2> SUFFICES ASSUME NEW i \in 1..n PROVE (first \o rest)[i] = whole[i]
    OBVIOUS
  <2>1. CASE i <= m
    <3>1. i \in 1..m
      BY <1>1, <2>1
    <3>2. (first \o rest)[i] = first[i]
      BY <1>4, <1>5, <3>1 DEF Sounds
    <3> QED
      BY <1>3, <1>4, <3>1, <3>2
  <2>2. CASE i > m
    <3>1. (first \o rest)[i] = rest[i - m]
      BY <1>1, <1>4, <1>5, <2>2 DEF Sounds
    <3> QED
      BY <1>3, <1>5, <1>6, <2>2, <3>1
  <2>3. i <= m \/ i > m
    BY <1>1
  <2> QED
    BY <2>1, <2>2, <2>3
<1>9. whole = first \o rest
  BY <1>3, <1>7, <1>8, SeqEqual DEF Sounds
<1> QED
  BY <1>1, <1>2, <1>9 DEF whole, first, rest, c

(***************************************************************************)
(* Writing                                                                 *)
(***************************************************************************)

(* What is read is not where the writer writes.                            *)
LEMMA FreeSlots ==
    ASSUME NEW head \in Cursors, NEW tail \in Cursors, NEW i \in 1..CanRead(head, tail)
    PROVE  /\ (tail + i - 1) % AllocSize \in Cursors
           /\ CanWrite(head, tail) < CanRead((tail + i - 1) % AllocSize, head) + 1
<1>1. i - 1 \in Cursors /\ tail + i - 1 = tail + (i - 1)
  BY Distances, AudioSizes DEF Cursors
<1> DEFINE p == (tail + (i - 1)) % AllocSize
<1>2. p \in Cursors /\ p = IF tail + (i - 1) < AllocSize THEN tail + (i - 1) ELSE tail + (i - 1) - AllocSize
  BY <1>1, Moving
<1> HIDE DEF p
<1>3. CanRead(head, tail) = IF tail <= head THEN head - tail ELSE AllocSize + head - tail
  BY Distances
<1>4. CanWrite(head, tail) = AudioCapacity - CanRead(head, tail)
  BY Distances
<1>5. CanRead(p, head) = IF head <= p THEN p - head ELSE AllocSize + p - head
  BY <1>2, Distances
<1>6. CanWrite(head, tail) < CanRead(p, head) + 1
  BY <1>1, <1>2, <1>3, <1>4, <1>5, AudioSizes DEF Cursors, AllocSize
<1> QED
  BY <1>1, <1>2, <1>6 DEF p

LEMMA NewSlots ==
    ASSUME NEW head \in Cursors, NEW k \in 1..AudioCapacity
    PROVE  /\ (head + k - 1) % AllocSize \in Cursors
           /\ CanRead((head + k - 1) % AllocSize, head) + 1 = k
<1>1. k - 1 \in Cursors /\ head + k - 1 = head + (k - 1)
  BY AudioSizes DEF Cursors
<1> DEFINE p == (head + (k - 1)) % AllocSize
<1>2. p \in Cursors /\ p = IF head + (k - 1) < AllocSize THEN head + (k - 1) ELSE head + (k - 1) - AllocSize
  BY <1>1, Moving
<1> HIDE DEF p
<1>3. CanRead(p, head) = IF head <= p THEN p - head ELSE AllocSize + p - head
  BY <1>2, Distances
<1>4. CanRead(p, head) + 1 = k
  BY <1>1, <1>2, <1>3, AudioSizes DEF Cursors, AllocSize
<1> QED
  BY <1>1, <1>2, <1>4 DEF p

LEMMA SoundTyped == ASSUME NEW s \in Sounds, NEW i \in 1..Len(s) PROVE s[i] \in 0..MaxSample
  BY ElementOfSeq DEF Sounds

Copied(data, head, samples, n) ==
    [i \in Cursors |-> IF CanRead(i, head) + 1 <= n THEN samples[CanRead(i, head) + 1] ELSE data[i]]

LEMMA Copying ==
    ASSUME NEW data \in Memory, NEW head \in Cursors, NEW tail \in Cursors,
           NEW samples \in Sounds, NEW n \in 0..Len(samples), n <= CanWrite(head, tail)
    PROVE  /\ Copied(data, head, samples, n) \in Memory
           /\ \A m \in 0..CanRead(head, tail) :
                 Stored(Copied(data, head, samples, n), tail, m) = Stored(data, tail, m)
           /\ \A k \in 1..n : /\ Copied(data, head, samples, n)[(head + k - 1) % AllocSize] = samples[k]
                              /\ k \in 1..AudioCapacity
<1> DEFINE c == Copied(data, head, samples, n)
<1>1. n \in Nat /\ n <= AudioCapacity
  <2>1. CanWrite(head, tail) \in 0..AudioCapacity
    BY Distances
  <2> QED
    BY <2>1, AudioSizes
<1>2. c \in Memory
  <2> SUFFICES ASSUME NEW i \in Cursors
               PROVE  (IF CanRead(i, head) + 1 <= n THEN samples[CanRead(i, head) + 1] ELSE data[i])
                         \in 0..MaxSample
    BY DEF Copied, Memory
  <2>1. CanRead(i, head) \in Nat
    BY Distances
  <2>2. CASE CanRead(i, head) + 1 <= n
    <3>1. CanRead(i, head) + 1 \in 1..Len(samples)
      BY <2>1, <2>2, <1>1 DEF Sounds
    <3>2. samples[CanRead(i, head) + 1] \in 0..MaxSample
      BY <3>1, SoundTyped
    <3> QED
      BY <2>2, <3>2
  <2>3. CASE ~(CanRead(i, head) + 1 <= n)
    BY <2>3 DEF Memory
  <2> QED
    BY <2>2, <2>3
<1>3. ASSUME NEW m \in 0..CanRead(head, tail)
      PROVE  Stored(c, tail, m) = Stored(data, tail, m)
  <2>1. ASSUME NEW i \in 1..m
        PROVE  c[(tail + i - 1) % AllocSize] = data[(tail + i - 1) % AllocSize]
    <3>0. CanRead(head, tail) \in Nat /\ CanWrite(head, tail) \in Nat
      BY Distances
    <3>1. i \in 1..CanRead(head, tail)
      BY <3>0
    <3> DEFINE p == (tail + i - 1) % AllocSize
    <3>2. p \in Cursors /\ CanWrite(head, tail) < CanRead(p, head) + 1
      BY <3>1, FreeSlots
    <3> HIDE DEF p
    <3>3. CanRead(p, head) \in Nat
      BY <3>2, Distances
    <3>4. ~(CanRead(p, head) + 1 <= n)
      BY <1>1, <3>0, <3>2, <3>3
    <3>5. c[p] = data[p]
      BY <3>2, <3>4 DEF Copied
    <3> QED
      BY <3>5 DEF p
  <2> HIDE DEF c
  <2> QED
    BY <2>1 DEF Stored
<1>4. ASSUME NEW k \in 1..n
      PROVE  c[(head + k - 1) % AllocSize] = samples[k] /\ k \in 1..AudioCapacity
  <2>1. k \in 1..AudioCapacity
    BY <1>1, AudioSizes
  <2> DEFINE p == (head + k - 1) % AllocSize
  <2>2. p \in Cursors /\ CanRead(p, head) + 1 = k
    BY <2>1, NewSlots
  <2> HIDE DEF p
  <2>3. k <= n
    BY <1>1
  <2>4. c[p] = samples[k]
    BY <2>2, <2>3 DEF Copied
  <2> QED
    BY <2>1, <2>4 DEF p
<1> QED
  BY <1>2, <1>3, <1>4

LEMMA Halves ==
    ASSUME NEW s \in Sounds, NEW n \in 0..Len(s)
    PROVE  /\ SubSeq(s, 1, n) \in Sounds /\ SubSeq(s, n + 1, Len(s)) \in Sounds
           /\ Len(SubSeq(s, 1, n)) = n /\ Len(SubSeq(s, n + 1, Len(s))) = Len(s) - n
           /\ \A i \in 1..n : SubSeq(s, 1, n)[i] = s[i]
           /\ \A i \in 1..Len(s) - n : SubSeq(s, n + 1, Len(s))[i] = s[n + i]
           /\ s = SubSeq(s, 1, n) \o SubSeq(s, n + 1, Len(s))
<1>1. Len(s) \in Nat /\ n \in Nat /\ n <= Len(s)
  BY DEF Sounds
<1>0. Len(s) - n \in Nat
  BY <1>1
<1> PICK k \in Nat : k = Len(s) - n
  BY <1>0
<1>2. k + n = Len(s)
  BY <1>1
<1> DEFINE a == SubSeq(s, 1, n)
           b == SubSeq(s, n + 1, Len(s))
<1>3. a \in Sounds /\ Len(a) = n /\ \A i \in 1..n : a[i] = s[i]
  <2>1. 1 \in Int /\ n \in Int /\ n - 1 + 1 = n /\ (IF 1 <= n THEN n ELSE 0) = n
    BY <1>1
  <2>4. \A i \in 1..n : s[i] \in 0..MaxSample
    BY <1>1, SoundTyped
  <2>2. /\ a \in Sounds /\ Len(a) = IF 1 <= n THEN n - 1 + 1 ELSE 0
        /\ \A i \in 1..n - 1 + 1 : a[i] = s[1 + i - 1]
    BY <2>1, <2>4, SubSeqProperties DEF Sounds
  <2>3. \A i \in 1..n : 1 + i - 1 = i
    OBVIOUS
  <2> QED
    BY <2>1, <2>2, <2>3
<1>4. b \in Sounds /\ Len(b) = k /\ \A i \in 1..k : b[i] = s[n + i]
  <2>1. n + 1 \in Int /\ Len(s) \in Int /\ Len(s) - (n + 1) + 1 = k
        /\ (IF n + 1 <= Len(s) THEN k ELSE 0) = k
    BY <1>1, <1>2
  <2>4. \A i \in n + 1..Len(s) : s[i] \in 0..MaxSample
    <3>1. \A i \in n + 1..Len(s) : i \in 1..Len(s)
      BY <1>1
    <3> QED
      BY <3>1, SoundTyped
  <2>2. /\ b \in Sounds /\ Len(b) = IF n + 1 <= Len(s) THEN Len(s) - (n + 1) + 1 ELSE 0
        /\ \A i \in 1..Len(s) - (n + 1) + 1 : b[i] = s[(n + 1) + i - 1]
    BY <2>1, <2>4, SubSeqProperties DEF Sounds
  <2>3. \A i \in 1..k : (n + 1) + i - 1 = n + i
    BY <1>1
  <2> QED
    BY <2>1, <2>2, <2>3
<1> HIDE DEF a, b
<1>5. a \o b \in Sounds /\ Len(a \o b) = Len(s)
  <2>1. a \o b \in Sounds /\ Len(a \o b) = Len(a) + Len(b)
    BY <1>3, <1>4, ConcatProperties DEF Sounds
  <2>2. n + k = Len(s)
    BY <1>1, <1>2
  <2> QED
    BY <1>3, <1>4, <2>1, <2>2
<1>6. ASSUME NEW i \in 1..Len(s) PROVE s[i] = (a \o b)[i]
  <2>1. CASE i <= n
    <3>1. i \in 1..n
      BY <1>1, <2>1
    <3>2. (a \o b)[i] = a[i]
      BY <1>3, <1>4, <3>1 DEF Sounds
    <3> QED
      BY <1>3, <3>1, <3>2
  <2>2. CASE i > n
    <3>1. i - n \in 1..k /\ n + (i - n) = i
      BY <1>1, <1>2, <2>2
    <3>2. (a \o b)[i] = b[i - n]
      BY <1>1, <1>2, <1>3, <1>4, <2>2 DEF Sounds
    <3> QED
      BY <1>4, <3>1, <3>2
  <2>3. i <= n \/ i > n
    BY <1>1
  <2> QED
    BY <2>1, <2>2, <2>3
<1>7. s = a \o b
  BY <1>5, <1>6, SeqEqual DEF Sounds
<1> QED
  BY <1>3, <1>4, <1>7 DEF a, b

LEMMA Publishing ==
    ASSUME NEW data \in Memory, NEW head \in Cursors, NEW tail \in Cursors,
           NEW samples \in Sounds, NEW n \in 0..Len(samples), n <= CanWrite(head, tail),
           \A k \in 1..n : data[(head + k - 1) % AllocSize] = samples[k]
    PROVE  Stored(data, tail, CanRead((head + n) % AllocSize, tail))
             = Stored(data, tail, CanRead(head, tail)) \o SubSeq(samples, 1, n)
<1> DEFINE m == CanRead(head, tail)
           h == (head + n) % AllocSize
<1>0. m \in 0..AudioCapacity /\ CanWrite(head, tail) = AudioCapacity - m
  BY Distances
<1>1. n \in 0..CanWrite(head, tail)
  BY <1>0, AudioSizes DEF Sounds
<1>2. n \in Cursors /\ h \in Cursors /\ CanRead(h, tail) = m + n
  BY <1>1, Writes
<1>3. CanRead(h, tail) \in Cursors
  BY <1>2, Distances DEF Cursors
<1>4. m \in Cursors /\ m \in 0..m + n /\ (m + n) - m = n
  BY <1>0, <1>2, AudioSizes DEF Cursors
<1>5. (tail + m) % AllocSize = head
  <2>1. m = IF tail <= head THEN head - tail ELSE AllocSize + head - tail
    BY Distances
  <2>2. (tail + m) % AllocSize = IF tail + m < AllocSize THEN tail + m ELSE tail + m - AllocSize
    BY <1>4, Moving
  <2> HIDE DEF m
  <2> QED
    BY <1>4, <2>1, <2>2, AudioSizes DEF Cursors, AllocSize
<1>6. Stored(data, head, n) = SubSeq(samples, 1, n)
  <2>1. /\ Stored(data, head, n) \in Sounds /\ Len(Stored(data, head, n)) = n
        /\ \A i \in 1..n : Stored(data, head, n)[i] = data[(head + i - 1) % AllocSize]
    BY <1>2, StoredSounds
  <2>2. /\ SubSeq(samples, 1, n) \in Sounds /\ Len(SubSeq(samples, 1, n)) = n
        /\ \A i \in 1..n : SubSeq(samples, 1, n)[i] = samples[i]
    BY Halves
  <2> QED
    BY <2>1, <2>2, SeqEqual DEF Sounds
<1>7. m + n \in Cursors
  BY <1>2, <1>3
<1> HIDE DEF m, h
<1>8. Stored(data, tail, m + n) = Stored(data, tail, m) \o Stored(data, (tail + m) % AllocSize, (m + n) - m)
  <2>1. m \in 0..m + n
    BY <1>4
  <2>2. /\ m \in Cursors /\ (m + n) - m \in Cursors /\ (tail + m) % AllocSize \in Cursors
        /\ Stored(data, tail, m + n)
             = Stored(data, tail, m) \o Stored(data, (tail + m) % AllocSize, (m + n) - m)
    BY <1>7, <2>1, StoredParts, ZenonT(60)
  <2> QED
    BY <2>2
<1>9. Stored(data, tail, m + n) = Stored(data, tail, m) \o SubSeq(samples, 1, n)
  BY <1>4, <1>5, <1>6, <1>8
<1> QED
  BY <1>2, <1>9 DEF m, h

(***************************************************************************)
(* The line of samples                                                     *)
(***************************************************************************)

(* From the samples that were played to those that wait to be written.     *)
Line(past, playing, waiting, samples, given, n) ==
    /\ Ascending(playing) /\ Ascending(waiting) /\ Ascending(samples)
    /\ Before(past, Real(playing)) /\ Before(past, Real(waiting)) /\ Before(past, Real(samples))
    /\ Before(Real(playing), Real(waiting)) /\ Before(Real(playing), Real(samples))
    /\ Before(Real(waiting), Real(samples))
    /\ past \cup Real(playing) \cup Real(waiting) \cup Real(samples) = (1..n) \ given

LEMMA NoSamples == <<>> \in Sounds /\ Len(<<>>) = 0 /\ Real(<<>>) = {} /\ Ascending(<<>>)
<1>1. <<>> \in Sounds /\ Len(<<>>) = 0
  BY DEF Sounds
<1>2. DOMAIN <<>> = {}
  OBVIOUS
<1> QED
  BY <1>1, <1>2 DEF Real, ToSet, Ascending

LEMMA WriteLine ==
    ASSUME NEW past, NEW playing, NEW waiting \in Sounds, NEW first \in Sounds, NEW rest \in Sounds,
           NEW given, NEW n, Line(past, playing, waiting, first \o rest, given, n)
    PROVE  Line(past, playing, waiting \o first, rest, given, n)
<1>1. Real(first \o rest) = Real(first) \cup Real(rest)
  BY JoinedReal
<1>2. Real(waiting \o first) = Real(waiting) \cup Real(first)
  BY JoinedReal
<1>3. Ascending(first) /\ Ascending(rest) /\ Before(Real(first), Real(rest))
  BY JoinedOrder DEF Line
<1>4. Before(Real(waiting), Real(first))
  BY <1>1 DEF Line, Before
<1>5. Ascending(waiting \o first)
  BY <1>3, <1>4, JoinedOrder DEF Line
<1> QED
  BY <1>1, <1>2, <1>3, <1>5 DEF Line, Before

(* Silence may be added or given up anywhere.                              *)
LEMMA SilentLine ==
    ASSUME NEW past, NEW playing, NEW waiting \in Sounds, NEW first \in Sounds, NEW rest \in Sounds,
           NEW silence \in Sounds, Real(first) = {}, Real(silence) = {},
           NEW given, NEW n, Line(past, playing, waiting, first \o rest, given, n)
    PROVE  Line(past, playing, waiting \o silence, rest, given, n)
<1>1. Real(first \o rest) = Real(rest) /\ Real(waiting \o silence) = Real(waiting)
  <2>1. Real(first \o rest) = Real(first) \cup Real(rest)
    BY JoinedReal
  <2>2. Real(waiting \o silence) = Real(waiting) \cup Real(silence)
    BY JoinedReal
  <2> QED
    BY <2>1, <2>2
<1>2. Ascending(rest)
  BY JoinedOrder DEF Line
<1>3. Ascending(silence)
  <2>1. \A i \in 1..Len(silence) : silence[i] = 0
    BY RealSamples
  <2>2. DOMAIN silence = 1..Len(silence)
    BY DEF Sounds
  <2> QED
    BY <2>1, <2>2 DEF Ascending
<1>4. Ascending(waiting \o silence)
  BY <1>3, JoinedOrder DEF Line, Before
<1> QED
  BY <1>1, <1>2, <1>4 DEF Line

LEMMA TakeLine ==
    ASSUME NEW past, NEW first \in Sounds, NEW rest \in Sounds, NEW samples,
           NEW given, NEW n, Line(past, <<>>, first \o rest, samples, given, n)
    PROVE  Line(past, first, rest, samples, given, n)
<1>1. Real(first \o rest) = Real(first) \cup Real(rest) /\ Real(<<>>) = {}
  BY JoinedReal, NoSamples
<1>2. Ascending(first) /\ Ascending(rest) /\ Before(Real(first), Real(rest))
  BY JoinedOrder DEF Line
<1> QED
  BY <1>1, <1>2 DEF Line, Before

LEMMA PlayLine ==
    ASSUME NEW past, NEW playing, NEW waiting, NEW samples,
           NEW given, NEW n, Line(past, playing, waiting, samples, given, n)
    PROVE  Line(past \cup Real(playing), <<>>, waiting, samples, given, n)
<1>1. Real(<<>>) = {} /\ Ascending(<<>>)
  BY NoSamples
<1> QED
  BY <1>1 DEF Line, Before

LEMMA DropLine ==
    ASSUME NEW past \in SUBSET Nat, NEW playing \in Sounds, NEW first \in Sounds, NEW rest \in Sounds,
           NEW samples \in Sounds,
           NEW given, NEW n, Line(past, playing, first \o rest, samples, given, n)
    PROVE  Line(past, playing, rest, samples, given \cup Real(first), n)
<1>1. Real(first \o rest) = Real(first) \cup Real(rest)
  BY JoinedReal
<1>2. Ascending(first) /\ Ascending(rest) /\ Before(Real(first), Real(rest))
  BY JoinedOrder DEF Line
<1>3. \A x, y \in Nat : x < y => x # y
  OBVIOUS
<1>4. /\ Real(first) \subseteq Nat /\ Real(rest) \subseteq Nat /\ Real(playing) \subseteq Nat
      /\ Real(samples) \subseteq Nat
  <2>1. 1..MaxSample \subseteq Nat
    BY AudioSizes
  <2> QED
    BY <2>1, RealSamples
<1>5. \A x \in Real(first) : x \notin past \cup Real(playing) \cup Real(rest) \cup Real(samples)
  BY <1>1, <1>2, <1>3, <1>4 DEF Line, Before
<1>6. past \cup Real(playing) \cup Real(rest) \cup Real(samples) = (1..n) \ (given \cup Real(first))
  BY <1>1, <1>5 DEF Line
<1> QED
  BY <1>1, <1>2, <1>6 DEF Line, Before

LEMMA ReceiveLine ==
    ASSUME NEW past \in SUBSET Nat, NEW playing \in Sounds, NEW waiting \in Sounds, NEW samples \in Sounds,
           NEW given, NEW n \in Nat, NEW lost \in Nat, NEW new \in Nat, lost <= new,
           Line(past, playing, waiting, <<>>, given, n), given \subseteq 1..n,
           Ascending(samples), Real(samples) = n + lost + 1..n + new
    PROVE  Line(past, playing, waiting, samples, given \cup (n + 1..n + lost), n + new)
<1>1. Real(<<>>) = {}
  BY NoSamples
<1>2. past \cup Real(playing) \cup Real(waiting) = (1..n) \ given
  BY <1>1 DEF Line
<1>3. \A x \in 1..n, y \in n + lost + 1..n + new : x < y
  OBVIOUS
<1>4. /\ Before(past, Real(samples)) /\ Before(Real(playing), Real(samples))
      /\ Before(Real(waiting), Real(samples))
  BY <1>2, <1>3 DEF Before
<1>5. /\ 1..n + new = (1..n) \cup (n + 1..n + lost) \cup (n + lost + 1..n + new)
      /\ \A x \in n + 1..n + lost : x \notin 1..n /\ x \notin n + lost + 1..n + new
      /\ \A x \in n + lost + 1..n + new : x \notin 1..n
  OBVIOUS
<1>6. past \cup Real(playing) \cup Real(waiting) \cup Real(samples)
        = (1..n + new) \ (given \cup (n + 1..n + lost))
  BY <1>2, <1>5
<1> QED
  BY <1>4, <1>6 DEF Line

(***************************************************************************)
(* What holds in every state                                               *)
(***************************************************************************)

PushState == [pc : {"idle", "load", "copy", "store", "lock", "drop", "unlock", "check", "skip"},
              phase : {"silence", "first", "locked", "last"},
              samples : Sounds, tail : Cursors, limit : Nat]
PullState == [pc : {"idle", "read", "move", "play"}, want : Nat, head : Cursors, out : Sounds]

SoundTypes ==
    /\ ring \in [head : Cursors, tail : Cursors, data : Memory]
    /\ mutex \in {"none", "producer", "consumer"}
    /\ push \in PushState /\ pull \in PullState
    /\ played \in BOOLEAN /\ decoded \in 0..MaxSample
    /\ heard \subseteq 1..decoded /\ dropped \subseteq 1..decoded

Writing == push.pc \in {"copy", "store"}
Reading == pull.pc \in {"read", "move"}

(* Each side has the mutex where the other must not move its cursor.       *)
MutexInv ==
    /\ mutex = "consumer" <=> Reading
    /\ mutex = "producer" <=> \/ push.pc \in {"drop", "unlock"}
                              \/ push.phase = "locked" /\ push.pc \in {"load", "copy", "store"}

PhaseInv ==
    /\ push.pc \in {"idle", "lock", "skip"} => push.phase = "first"
    /\ push.pc = "drop" => push.phase = "locked"
    /\ push.pc = "unlock" => push.phase = "last" \/ (push.phase = "locked" /\ push.samples = <<>>)
    /\ push.pc = "check" => push.phase # "silence"
    /\ push.pc \in {"idle", "check", "skip"} => push.samples = <<>>
    /\ pull.pc \in {"idle", "read"} => pull.out = <<>>

(* Only a frame that follows a gap begins with silence, m samples of it;   *)
(* without it, the frame fits in the ring.                                 *)
SilenceFirst(samples, m) ==
    /\ m \in 0..Len(samples)
    /\ \A k \in 1..Len(samples) : samples[k] = 0 <=> k <= m
    /\ Len(samples) - m <= AudioCapacity
HoldsInv ==
    IF push.phase = "silence" THEN \E m \in Nat : SilenceFirst(push.samples, m)
                              ELSE SilenceFirst(push.samples, 0)

(* A cursor read before shows less room, or fewer samples, than there are. *)
StaleInv ==
    /\ Writing => CanRead(ring.head, ring.tail) <= CanRead(ring.head, push.tail)
    /\ Writing /\ push.phase = "locked" => push.tail = ring.tail
    /\ Reading => CanRead(pull.head, ring.tail) <= CanRead(ring.head, ring.tail)

(* After the drop, what is left fits.                                      *)
RoomInv ==
    /\ push.pc = "drop" => CanRead(ring.head, ring.tail) = AudioCapacity
    /\ push.phase = "last" /\ push.pc \in {"unlock", "load"}
         => Len(push.samples) <= CanWrite(ring.head, ring.tail)
    /\ push.phase = "last" /\ Writing
         => Len(push.samples) <= CanWrite(ring.head, push.tail)

(* What was copied is in its place until the cursor moves over it.         *)
OutInPlace == pull.pc = "move" => /\ Len(pull.out) <= CanRead(ring.head, ring.tail)
                                  /\ pull.out = Stored(ring.data, ring.tail, Len(pull.out))
NewInPlace == push.pc = "store" => \A k \in 1..Writable :
                 ring.data[(ring.head + k - 1) % AllocSize] = push.samples[k]
CopyInv == OutInPlace /\ NewInPlace

Waiting == Stored(ring.data, ring.tail, CanRead(ring.head, ring.tail))
Playing == IF pull.pc = "play" THEN pull.out ELSE <<>>
SoundLineInv == Line(heard, Playing, Waiting, push.samples, dropped, decoded)

ProtocolInv == MutexInv /\ PhaseInv
DataInv == HoldsInv /\ StaleInv /\ RoomInv
AudioInvariant == SoundTypes /\ ProtocolInv /\ DataInv /\ CopyInv /\ SoundLineInv

LEMMA SoundParts ==
    ASSUME SoundTypes
    PROVE  /\ ring.head \in Cursors /\ ring.tail \in Cursors /\ ring.data \in Memory
           /\ push.tail \in Cursors /\ push.samples \in Sounds /\ pull.head \in Cursors
           /\ pull.out \in Sounds /\ pull.want \in Nat /\ push.limit \in Nat
           /\ Len(push.samples) \in Nat /\ Len(pull.out) \in Nat
           /\ Playing \in Sounds /\ Waiting \in Sounds
           /\ CanRead(ring.head, ring.tail) \in Cursors /\ CanRead(ring.head, ring.tail) \in Nat
           /\ Len(Waiting) = CanRead(ring.head, ring.tail)
           /\ heard \in SUBSET Nat
<1>1. /\ ring.head \in Cursors /\ ring.tail \in Cursors /\ ring.data \in Memory
      /\ push.tail \in Cursors /\ push.samples \in Sounds /\ pull.head \in Cursors
      /\ pull.out \in Sounds /\ pull.want \in Nat /\ push.limit \in Nat
  BY DEF SoundTypes, PushState, PullState
<1>2. Len(push.samples) \in Nat /\ Len(pull.out) \in Nat
  BY <1>1 DEF Sounds
<1>3. CanRead(ring.head, ring.tail) \in Cursors /\ CanRead(ring.head, ring.tail) \in Nat
  <2>1. CanRead(ring.head, ring.tail) \in 0..AudioCapacity
    BY <1>1, Distances
  <2> QED
    BY <2>1, AudioSizes DEF Cursors
<1>4. Waiting \in Sounds /\ Len(Waiting) = CanRead(ring.head, ring.tail)
  BY <1>1, <1>3, StoredSounds DEF Waiting
<1>5. Playing \in Sounds
  BY <1>1, NoSamples DEF Playing
<1>6. heard \in SUBSET Nat
  BY DEF SoundTypes
<1> QED
  BY <1>1, <1>2, <1>3, <1>4, <1>5, <1>6

LEMMA OfferedSamples ==
    ASSUME SoundTypes, HoldsInv
    PROVE  /\ Offered \in 0..Len(push.samples)
           /\ push.phase = "silence" => SilenceFirst(push.samples, Offered)
           /\ push.phase # "silence" => Offered = Len(push.samples)
           /\ Writable \in 0..Len(push.samples) /\ Writable <= Offered
           /\ Writable <= CanWrite(ring.head, push.tail)
           /\ Writable = Offered \/ Writable = CanWrite(ring.head, push.tail)
<1>1. Len(push.samples) \in Nat /\ DOMAIN push.samples = 1..Len(push.samples)
  BY SoundParts DEF Sounds
<1>2. /\ Offered \in 0..Len(push.samples)
      /\ push.phase = "silence" => SilenceFirst(push.samples, Offered)
      /\ push.phase # "silence" => Offered = Len(push.samples)
  <2>1. CASE push.phase = "silence"
    <3>1. PICK m \in Nat : SilenceFirst(push.samples, m)
      BY <2>1 DEF HoldsInv
    <3>2. m <= Len(push.samples)
      BY <1>1, <3>1 DEF SilenceFirst
    <3>3. \A k \in 1..Len(push.samples) : k \in 1..m <=> k <= m
      BY <1>1
    <3>4. \A k \in 1..m : k \in 1..Len(push.samples)
      BY <1>1, <3>2
    <3>5. {k \in DOMAIN push.samples : push.samples[k] = 0} = 1..m
      BY <1>1, <3>1, <3>3, <3>4 DEF SilenceFirst
    <3>6. Cardinality(1..m) = m
      <4>1. Cardinality(1..m) = IF 1 > m THEN 0 ELSE m - 1 + 1
        BY FS_Interval
      <4> QED
        BY <4>1
    <3>7. Offered = m
      BY <2>1, <3>5, <3>6 DEF Offered
    <3> QED
      BY <1>1, <2>1, <3>1, <3>2, <3>7
  <2>2. CASE push.phase # "silence"
    <3>1. Offered = Len(push.samples)
      BY <2>2 DEF Offered
    <3> QED
      BY <1>1, <2>2, <3>1
  <2> QED
    BY <2>1, <2>2
<1> DEFINE room == CanWrite(ring.head, push.tail)
<1>3. room \in Nat
  <2>1. room \in 0..AudioCapacity
    BY SoundParts, Distances
  <2> QED
    BY <2>1, AudioSizes
<1>4. Writable = IF Offered < room THEN Offered ELSE room
  BY DEF Writable, Least
<1> HIDE DEF room
<1>5. Writable \in 0..Len(push.samples) /\ Writable <= Offered /\ Writable <= room
  BY <1>1, <1>2, <1>3, <1>4
<1>6. Writable = Offered \/ Writable = room
  BY <1>4
<1> QED
  BY <1>2, <1>5, <1>6 DEF room

LEMMA AudioInitInv == AudioInit => AudioInvariant
<1> SUFFICES ASSUME AudioInit PROVE AudioInvariant
  OBVIOUS
<1> USE DEF AudioInit
<1>1. 0 \in Cursors /\ 0 \in 0..MaxSample /\ CanRead(0, 0) = 0
  <2>1. 0 \in Cursors /\ 0 \in 0..MaxSample
    BY AudioSizes DEF Cursors
  <2>2. CanRead(0, 0) = IF 0 <= 0 THEN 0 - 0 ELSE AllocSize + 0 - 0
    BY <2>1, Distances
  <2> QED
    BY <2>1, <2>2
<1>2. SoundTypes
  <2>1. ring \in [head : Cursors, tail : Cursors, data : Memory]
    BY <1>1 DEF Memory, Cursors
  <2>2. push \in PushState
    BY <1>1, NoSamples DEF PushState
  <2>3. pull \in PullState
    BY <1>1, NoSamples DEF PullState
  <2> QED
    BY <1>1, <2>1, <2>2, <2>3 DEF SoundTypes
<1>3. ProtocolInv
  BY DEF ProtocolInv, MutexInv, PhaseInv, Reading
<1>4. DataInv
  <2>1. SilenceFirst(<<>>, 0)
    BY NoSamples, AudioSizes DEF SilenceFirst
  <2> QED
    BY <2>1 DEF DataInv, HoldsInv, StaleInv, RoomInv, Writing, Reading
<1>5. CopyInv
  BY DEF CopyInv, OutInPlace, NewInPlace
<1>6. SoundLineInv
  <2>1. Waiting \in Sounds /\ Len(Waiting) = 0
    BY <1>1, <1>2, SoundParts
  <2>2. Waiting = <<>>
    BY <2>1 DEF Sounds
  <2>3. Playing = <<>> /\ push.samples = <<>>
    BY DEF Playing
  <2>4. 1..0 = {}
    OBVIOUS
  <2> QED
    BY <2>2, <2>3, <2>4, NoSamples DEF SoundLineInv, Line, Before
<1> QED
  BY <1>2, <1>3, <1>4, <1>5, <1>6 DEF AudioInvariant

(***************************************************************************)
(* The producer                                                            *)
(***************************************************************************)

LEMMA LoadTailKeeps == ASSUME AudioInvariant, LoadTail PROVE AudioInvariant'
<1> USE DEF AudioInvariant, LoadTail
<1>1. /\ push' \in PushState /\ push'.pc = "copy" /\ push'.phase = push.phase
      /\ push'.samples = push.samples /\ push'.tail = ring.tail
  BY SoundParts DEF SoundTypes, PushState
<1>2. SoundTypes'
  BY <1>1 DEF SoundTypes
<1>3. ProtocolInv'
  BY <1>1 DEF ProtocolInv, MutexInv, PhaseInv, Reading
<1>4. DataInv'
  <2>1. HoldsInv'
    BY <1>1 DEF DataInv, HoldsInv
  <2>2. StaleInv'
    BY <1>1, SoundParts DEF DataInv, StaleInv, Writing, Reading
  <2>3. RoomInv'
    BY <1>1 DEF DataInv, RoomInv, Writing
  <2> QED
    BY <2>1, <2>2, <2>3 DEF DataInv
<1>5. CopyInv'
  BY <1>1 DEF CopyInv, OutInPlace, NewInPlace
<1>6. SoundLineInv'
  BY <1>1 DEF SoundLineInv, Playing, Waiting
<1> QED
  BY <1>2, <1>3, <1>4, <1>5, <1>6

LEMMA Room ==
    ASSUME AudioInvariant, Writing
    PROVE  /\ Writable <= CanWrite(ring.head, ring.tail) /\ Writable \in 0..CanWrite(ring.head, ring.tail)
           /\ Writable \in 0..Len(push.samples)
<1> USE DEF AudioInvariant, DataInv
<1>1. CanWrite(ring.head, push.tail) <= CanWrite(ring.head, ring.tail)
  BY SoundParts, Shares DEF StaleInv
<1>2. CanWrite(ring.head, push.tail) \in 0..AudioCapacity
  BY SoundParts, Distances
<1>3. CanWrite(ring.head, ring.tail) \in 0..AudioCapacity
  BY SoundParts, Distances
<1>4. Writable \in 0..Len(push.samples) /\ Writable <= CanWrite(ring.head, push.tail)
  BY OfferedSamples
<1>5. Len(push.samples) \in Nat
  BY SoundParts
<1> QED
  BY <1>1, <1>2, <1>3, <1>4, <1>5, AudioSizes

LEMMA CopyKeeps == ASSUME AudioInvariant, Copy PROVE AudioInvariant'
<1> USE DEF AudioInvariant
<1> DEFINE data == Copied(ring.data, ring.head, push.samples, Writable)
<1>0. Writing
  BY DEF Copy, Writing
<1>1. /\ push' \in PushState /\ push'.pc = "store" /\ push'.phase = push.phase
      /\ push'.samples = push.samples /\ push'.tail = push.tail
  BY DEF Copy, SoundTypes, PushState
<1>2. ring' = [ring EXCEPT !.data = data]
  BY DEF Copy, Copied, CanRead, Cursors
<1>3. /\ data \in Memory
      /\ \A m \in 0..CanRead(ring.head, ring.tail) :
            Stored(data, ring.tail, m) = Stored(ring.data, ring.tail, m)
      /\ \A k \in 1..Writable : data[(ring.head + k - 1) % AllocSize] = push.samples[k]
  BY <1>0, Room, SoundParts, Copying, SMTT(20)
<1> HIDE DEF data
<1>4. /\ ring' \in [head : Cursors, tail : Cursors, data : Memory]
      /\ ring'.head = ring.head /\ ring'.tail = ring.tail /\ ring'.data = data
  BY <1>2, <1>3 DEF SoundTypes
<1>5. UNCHANGED <<mutex, pull, played, decoded, heard, dropped>> /\ push.pc = "copy"
  BY DEF Copy
<1>6. SoundTypes'
  BY <1>1, <1>4, <1>5 DEF SoundTypes
<1>7. ProtocolInv'
  BY <1>1, <1>5 DEF ProtocolInv, MutexInv, PhaseInv, Reading
<1>8. DataInv'
  <2>1. HoldsInv'
    BY <1>1 DEF DataInv, HoldsInv
  <2>2. StaleInv'
    BY <1>1, <1>4, <1>5 DEF DataInv, StaleInv, Writing, Reading
  <2>3. RoomInv'
    BY <1>1, <1>4, <1>5 DEF DataInv, RoomInv, Writing
  <2> QED
    BY <2>1, <2>2, <2>3 DEF DataInv
<1>9. CopyInv'
  <2>1. Writable' = Writable
    BY <1>1, <1>4 DEF Writable, Offered
  <2>2. NewInPlace'
    BY <1>1, <1>3, <1>4, <2>1 DEF NewInPlace
  <2>3. OutInPlace'
    <3>1. SUFFICES ASSUME pull.pc = "move"
                   PROVE  /\ Len(pull.out) <= CanRead(ring.head, ring.tail)
                          /\ pull.out = Stored(data, ring.tail, Len(pull.out))
      BY <1>4, <1>5 DEF OutInPlace
    <3>2. Len(pull.out) <= CanRead(ring.head, ring.tail) /\ pull.out = Stored(ring.data, ring.tail, Len(pull.out))
      BY <3>1 DEF CopyInv, OutInPlace
    <3>3. Len(pull.out) \in 0..CanRead(ring.head, ring.tail)
      BY <3>2, SoundParts
    <3> QED
      BY <1>3, <3>2, <3>3
  <2> QED
    BY <2>2, <2>3 DEF CopyInv
<1>10. SoundLineInv'
  <2>1. CanRead(ring.head, ring.tail) \in 0..CanRead(ring.head, ring.tail)
    BY SoundParts
  <2>2. Waiting' = Waiting
    BY <1>3, <1>4, <2>1 DEF Waiting
  <2> QED
    BY <1>1, <1>5, <2>2 DEF SoundLineInv, Playing
<1> QED
  BY <1>6, <1>7, <1>8, <1>9, <1>10

LEMMA StoreKeeps == ASSUME AudioInvariant, Store PROVE AudioInvariant'
<1> USE DEF AudioInvariant
<1> DEFINE w == Writable
           k == IF push.phase = "silence" THEN Offered ELSE w
           rest == SubSeq(push.samples, k + 1, Len(push.samples))
           h == (ring.head + w) % AllocSize
<1>0. Writing /\ push.pc = "store"
  BY DEF Store, Writing
<1>1. /\ w \in 0..CanWrite(ring.head, ring.tail) /\ w <= CanWrite(ring.head, ring.tail)
      /\ w \in 0..Len(push.samples)
  BY <1>0, Room
<1>2. k \in 0..Len(push.samples)
  BY <1>1, OfferedSamples DEF DataInv
<1>3. /\ rest \in Sounds /\ Len(rest) = Len(push.samples) - k
      /\ \A i \in 1..Len(push.samples) - k : rest[i] = push.samples[k + i]
      /\ push.samples = SubSeq(push.samples, 1, k) \o rest
      /\ SubSeq(push.samples, 1, k) \in Sounds
      /\ Len(SubSeq(push.samples, 1, k)) = k
      /\ \A i \in 1..k : SubSeq(push.samples, 1, k)[i] = push.samples[i]
  BY <1>2, SoundParts, Halves
<1>4. h \in Cursors /\ CanRead(h, ring.tail) = CanRead(ring.head, ring.tail) + w
  BY <1>1, SoundParts, Writes
<1>5. /\ push'.pc = CASE push.phase = "silence" -> "load"
                      [] push.phase = "first" -> IF rest = <<>> THEN "check" ELSE "lock"
                      [] push.phase = "locked" -> IF rest = <<>> THEN "unlock" ELSE "drop"
                      [] push.phase = "last" -> "check"
      /\ push'.phase = IF push.phase = "silence" THEN "first" ELSE push.phase
      /\ push'.samples = rest
      /\ push'.tail = push.tail /\ push'.limit = push.limit
      /\ DOMAIN push' = {"pc", "phase", "samples", "tail", "limit"}
  BY DEF Store, SoundTypes, PushState
<1>6. ring'.head = h /\ ring'.tail = ring.tail /\ ring'.data = ring.data
      /\ ring' \in [head : Cursors, tail : Cursors, data : Memory]
  BY <1>4 DEF Store, SoundTypes
<1>7. UNCHANGED <<mutex, pull, played, decoded, heard, dropped>>
  BY DEF Store
<1> HIDE DEF w, k, rest, h
<1>8. /\ push'.pc \in {"load", "unlock", "check", "lock", "drop"}
      /\ push'.pc = "load" <=> push.phase = "silence"
      /\ push'.pc = "unlock" <=> push.phase = "locked" /\ rest = <<>>
      /\ push'.pc = "drop" <=> push.phase = "locked" /\ rest # <<>>
      /\ push'.pc = "lock" <=> push.phase = "first" /\ rest # <<>>
      /\ push'.pc = "check" <=> push.phase = "last" \/ (push.phase = "first" /\ rest = <<>>)
      /\ push.phase \in {"silence", "first", "locked", "last"}
  <2>1. push.phase \in {"silence", "first", "locked", "last"}
    BY DEF SoundTypes, PushState
  <2>2. CASE push.phase = "silence"
    <3>1. push'.pc = "load"
      BY <1>5, <2>2
    <3> QED
      BY <2>2, <3>1
  <2>3. CASE push.phase = "last"
    BY <1>5, <2>3
  <2>4. CASE push.phase = "first"
    <3>1. push'.pc = IF rest = <<>> THEN "check" ELSE "lock"
      BY <1>5, <2>4
    <3> QED
      BY <2>4, <3>1
  <2>5. CASE push.phase = "locked"
    <3>1. push'.pc = IF rest = <<>> THEN "unlock" ELSE "drop"
      BY <1>5, <2>5
    <3> QED
      BY <2>5, <3>1
  <2> QED
    BY <2>1, <2>2, <2>3, <2>4, <2>5
<1>9. push'.phase # "silence"
  BY <1>5
<1>10. push' \in PushState
  <2>1. push'.phase \in {"silence", "first", "locked", "last"}
    BY <1>5, <1>8
  <2>2. push'.tail \in Cursors /\ push'.limit \in Nat
    BY <1>5, SoundParts
  <2>3. push' = [pc |-> push'.pc, phase |-> push'.phase, samples |-> push'.samples,
                 tail |-> push'.tail, limit |-> push'.limit]
    BY DEF Store, SoundTypes, PushState
  <2> QED
    BY <1>3, <1>5, <1>8, <2>1, <2>2, <2>3 DEF PushState
<1>11. SoundTypes'
  BY <1>6, <1>7, <1>10 DEF SoundTypes
<1>12. push.phase = "last" => rest = <<>>
  <2> SUFFICES ASSUME push.phase = "last" PROVE rest = <<>>
    OBVIOUS
  <2>1. Len(push.samples) <= CanWrite(ring.head, push.tail)
    BY <1>0 DEF DataInv, RoomInv
  <2>2. Offered = Len(push.samples) /\ (w = Offered \/ w = CanWrite(ring.head, push.tail))
        /\ w <= Offered
    BY OfferedSamples DEF DataInv, w
  <2>3. CanWrite(ring.head, push.tail) \in 0..AudioCapacity
    BY SoundParts, Distances
  <2>4. w = Len(push.samples) /\ k = w
    BY <1>1, <2>1, <2>2, <2>3, SoundParts, AudioSizes DEF k
  <2>5. Len(rest) = 0
    BY <1>3, <2>4, SoundParts
  <2> QED
    BY <1>3, <2>5 DEF Sounds
<1>13. ProtocolInv'
  <2>1. MutexInv'
    BY <1>0, <1>5, <1>7, <1>8 DEF ProtocolInv, MutexInv, Reading
  <2>2. PhaseInv'
    BY <1>5, <1>7, <1>8, <1>9, <1>12 DEF ProtocolInv, PhaseInv
  <2> QED
    BY <2>1, <2>2 DEF ProtocolInv
<1>14. DataInv'
  <2>1. HoldsInv'
    <3>1. SUFFICES SilenceFirst(rest, 0)
      BY <1>5, <1>9 DEF HoldsInv
    <3>2. CASE push.phase = "silence"
      <4>1. k = Offered /\ SilenceFirst(push.samples, k)
        BY <3>2, OfferedSamples DEF DataInv, k
      <4>2. ASSUME NEW i \in 1..Len(rest) PROVE rest[i] # 0
        <5>1. k + i \in 1..Len(push.samples) /\ ~(k + i <= k) /\ i \in 1..Len(push.samples) - k
          BY <1>2, <1>3, SoundParts
        <5> QED
          BY <1>3, <4>1, <5>1 DEF SilenceFirst
      <4>3. 0 \in 0..Len(rest) /\ Len(rest) - 0 <= AudioCapacity
        BY <1>2, <1>3, <4>1, SoundParts DEF SilenceFirst
      <4>4. \A i \in 1..Len(rest) : ~(i <= 0)
        BY <1>3 DEF Sounds
      <4> QED
        BY <4>2, <4>3, <4>4 DEF SilenceFirst
    <3>3. CASE push.phase # "silence"
      <4>1. SilenceFirst(push.samples, 0)
        BY <3>3 DEF DataInv, HoldsInv
      <4>2. ASSUME NEW i \in 1..Len(rest) PROVE rest[i] # 0
        <5>1. k + i \in 1..Len(push.samples) /\ ~(k + i <= 0) /\ i \in 1..Len(push.samples) - k
          BY <1>2, <1>3, SoundParts
        <5> QED
          BY <1>3, <4>1, <5>1 DEF SilenceFirst
      <4>3. 0 \in 0..Len(rest) /\ Len(rest) - 0 <= AudioCapacity
        BY <1>2, <1>3, <4>1, SoundParts, AudioSizes DEF SilenceFirst
      <4>4. \A i \in 1..Len(rest) : ~(i <= 0)
        BY <1>3 DEF Sounds
      <4> QED
        BY <4>2, <4>3, <4>4 DEF SilenceFirst
    <3> QED
      BY <3>2, <3>3
  <2>2. StaleInv'
    <3>1. Reading => CanRead(pull.head, ring.tail) <= CanRead(h, ring.tail)
      <4>1. CanRead(pull.head, ring.tail) \in 0..AudioCapacity
        BY SoundParts, Distances
      <4>2. w \in Nat
        BY <1>1, SoundParts
      <4> QED
        BY <1>4, <4>1, <4>2, SoundParts, AudioSizes DEF DataInv, StaleInv
    <3> QED
      BY <1>6, <1>7, <1>8, <3>1 DEF StaleInv, Writing, Reading
  <2>3. RoomInv'
    <3>1. ASSUME push'.pc = "drop" PROVE CanRead(h, ring.tail) = AudioCapacity
      <4>1. push.phase = "locked" /\ rest # <<>> /\ push.tail = ring.tail
        BY <1>0, <1>8, <3>1 DEF DataInv, StaleInv
      <4>2. k = w /\ Offered = Len(push.samples)
        BY <4>1, OfferedSamples DEF DataInv, k
      <4>3. Len(rest) # 0
        BY <1>3, <4>1 DEF Sounds
      <4>4. w # Offered
        BY <1>3, <4>2, <4>3, SoundParts
      <4>5. w = CanWrite(ring.head, ring.tail)
        BY <4>1, <4>4, OfferedSamples DEF DataInv, w
      <4>6. CanWrite(ring.head, ring.tail) = AudioCapacity - CanRead(ring.head, ring.tail)
        BY SoundParts, Distances
      <4> QED
        BY <1>4, <4>5, <4>6, SoundParts, AudioSizes
    <3> QED
      BY <1>5, <1>6, <1>8, <3>1 DEF RoomInv, Writing
  <2> QED
    BY <2>1, <2>2, <2>3 DEF DataInv
<1>15. CopyInv'
  <2>1. ASSUME pull.pc = "move" PROVE Len(pull.out) <= CanRead(h, ring.tail)
    BY <1>1, <1>4, <2>1, SoundParts DEF CopyInv, OutInPlace
  <2>2. OutInPlace'
    BY <1>6, <1>7, <2>1 DEF CopyInv, OutInPlace
  <2>3. NewInPlace'
    BY <1>8 DEF NewInPlace
  <2> QED
    BY <2>2, <2>3 DEF CopyInv
<1>16. SoundLineInv'
  <2> DEFINE new == SubSeq(push.samples, 1, w)
  <2>1. Waiting' = Waiting \o new
    <3>0. \A i \in 1..w : ring.data[(ring.head + i - 1) % AllocSize] = push.samples[i]
      BY <1>0 DEF CopyInv, NewInPlace, w
    <3>1. Stored(ring.data, ring.tail, CanRead((ring.head + w) % AllocSize, ring.tail))
            = Stored(ring.data, ring.tail, CanRead(ring.head, ring.tail)) \o new
      <4>1. /\ ring.data \in Memory /\ ring.head \in Cursors /\ ring.tail \in Cursors
            /\ push.samples \in Sounds
        BY SoundParts
      <4>2. w \in 0..Len(push.samples) /\ w <= CanWrite(ring.head, ring.tail)
        BY <1>1
      <4> HIDE DEF new
      <4>3. \A data \in Memory, samples \in Sounds : \A n \in 0..Len(samples) :
               n <= CanWrite(ring.head, ring.tail)
                 /\ (\A i \in 1..n : data[(ring.head + i - 1) % AllocSize] = samples[i])
               => Stored(data, ring.tail, CanRead((ring.head + n) % AllocSize, ring.tail))
                    = Stored(data, ring.tail, CanRead(ring.head, ring.tail)) \o SubSeq(samples, 1, n)
        BY <4>1, Publishing, SMTT(20)
      <4> QED
        BY <3>0, <4>1, <4>2, <4>3 DEF new
    <3> QED
      BY <1>6, <3>1 DEF Waiting, h
  <2>2. Playing' = Playing
    BY <1>7 DEF Playing
  <2>3. /\ new \in Sounds /\ Len(new) = w
        /\ \A i \in 1..w : new[i] = push.samples[i]
    BY <1>1, SoundParts, Halves
  <2>4. Line(heard, Playing, Waiting, SubSeq(push.samples, 1, k) \o rest, dropped, decoded)
    BY <1>3 DEF SoundLineInv
  <2> HIDE DEF new
  <2>5. CASE push.phase = "silence"
    <3>1. k = Offered /\ SilenceFirst(push.samples, k) /\ w <= k
      BY <2>5, OfferedSamples DEF DataInv, k, w
    <3>2. \A i \in 1..k : SubSeq(push.samples, 1, k)[i] = 0
      <4>1. \A i \in 1..k : i \in 1..Len(push.samples) /\ i <= k
        BY <1>2, SoundParts
      <4> QED
        BY <1>3, <3>1, <4>1 DEF SilenceFirst
    <3>3. \A i \in 1..w : new[i] = 0
      <4>1. \A i \in 1..w : i \in 1..Len(push.samples) /\ i <= k
        BY <1>1, <1>2, <3>1, SoundParts
      <4> QED
        BY <2>3, <3>1, <4>1 DEF SilenceFirst
    <3>4. Real(SubSeq(push.samples, 1, k)) = {}
      BY <1>3, <3>2, RealSamples
    <3>5. Real(new) = {}
      BY <2>3, <3>3, RealSamples
    <3>6. Line(heard, Playing, Waiting \o new, rest, dropped, decoded)
      BY <1>3, <2>3, <2>4, <3>4, <3>5, SoundParts, SilentLine
    <3> QED
      BY <1>5, <1>7, <2>1, <2>2, <3>6 DEF SoundLineInv
  <2>6. CASE push.phase # "silence"
    <3>1. k = w
      BY <2>6 DEF k
    <3>2. Line(heard, Playing, Waiting, new \o rest, dropped, decoded)
      BY <2>4, <3>1 DEF new
    <3>3. Line(heard, Playing, Waiting \o new, rest, dropped, decoded)
      BY <1>3, <2>3, <3>2, SoundParts, WriteLine
    <3> QED
      BY <1>5, <1>7, <2>1, <2>2, <3>3 DEF SoundLineInv
  <2> QED
    BY <2>5, <2>6
<1> QED
  BY <1>11, <1>13, <1>14, <1>15, <1>16

LEMMA LockToWriteKeeps == ASSUME AudioInvariant, LockToWrite PROVE AudioInvariant'
<1> USE DEF AudioInvariant, LockToWrite
<1>1. /\ push' \in PushState /\ push'.pc = "load" /\ push'.phase = "locked"
      /\ push'.samples = push.samples /\ push'.tail = push.tail
  BY DEF SoundTypes, PushState
<1>2. push.phase = "first"
  BY DEF ProtocolInv, PhaseInv
<1>3. SoundTypes'
  BY <1>1 DEF SoundTypes
<1>4. ProtocolInv'
  BY <1>1 DEF ProtocolInv, MutexInv, PhaseInv, Reading
<1>5. DataInv'
  <2>1. HoldsInv'
    BY <1>1, <1>2 DEF DataInv, HoldsInv
  <2>2. StaleInv'
    BY <1>1 DEF DataInv, StaleInv, Writing, Reading
  <2>3. RoomInv'
    BY <1>1 DEF DataInv, RoomInv, Writing
  <2> QED
    BY <2>1, <2>2, <2>3 DEF DataInv
<1>6. CopyInv'
  BY <1>1 DEF CopyInv, OutInPlace, NewInPlace
<1>7. SoundLineInv'
  BY <1>1 DEF SoundLineInv, Playing, Waiting
<1> QED
  BY <1>3, <1>4, <1>5, <1>6, <1>7

LEMMA UnlockToWriteKeeps == ASSUME AudioInvariant, UnlockToWrite PROVE AudioInvariant'
<1> USE DEF AudioInvariant, UnlockToWrite
<1>1. /\ push' \in PushState /\ push'.phase = push.phase
      /\ push'.pc = IF push.samples = <<>> THEN "check" ELSE "load"
      /\ push'.samples = push.samples /\ push'.tail = push.tail
  BY DEF SoundTypes, PushState
<1>2. /\ push.phase = "last" \/ (push.phase = "locked" /\ push.samples = <<>>)
      /\ mutex = "producer" /\ ~Reading
  BY DEF ProtocolInv, PhaseInv, MutexInv
<1>3. SoundTypes'
  BY <1>1 DEF SoundTypes
<1>4. ProtocolInv'
  BY <1>1, <1>2 DEF ProtocolInv, MutexInv, PhaseInv, Reading
<1>5. DataInv'
  <2>1. HoldsInv'
    BY <1>1 DEF DataInv, HoldsInv
  <2>2. StaleInv'
    BY <1>1 DEF DataInv, StaleInv, Writing, Reading
  <2>3. RoomInv'
    BY <1>1 DEF DataInv, RoomInv, Writing
  <2> QED
    BY <2>1, <2>2, <2>3 DEF DataInv
<1>6. CopyInv'
  BY <1>1 DEF CopyInv, OutInPlace, NewInPlace
<1>7. SoundLineInv'
  BY <1>1 DEF SoundLineInv, Playing, Waiting
<1> QED
  BY <1>3, <1>4, <1>5, <1>6, <1>7

LEMMA CheckLimitKeeps == ASSUME AudioInvariant, CheckLimit PROVE AudioInvariant'
<1> USE DEF AudioInvariant, CheckLimit
<1>1. /\ push' \in PushState /\ push'.phase = "first" /\ push'.pc \in {"skip", "idle"}
      /\ push'.samples = push.samples /\ push'.tail = push.tail
  BY AudioSizes DEF SoundTypes, PushState
<1>2. push.phase # "silence" /\ push.samples = <<>>
  BY DEF ProtocolInv, PhaseInv
<1>3. SoundTypes'
  BY <1>1 DEF SoundTypes
<1>4. ProtocolInv'
  BY <1>1, <1>2 DEF ProtocolInv, MutexInv, PhaseInv, Reading
<1>5. DataInv'
  <2>1. HoldsInv'
    BY <1>1, <1>2 DEF DataInv, HoldsInv
  <2>2. StaleInv'
    BY <1>1 DEF DataInv, StaleInv, Writing, Reading
  <2>3. RoomInv'
    BY <1>1 DEF DataInv, RoomInv, Writing
  <2> QED
    BY <2>1, <2>2, <2>3 DEF DataInv
<1>6. CopyInv'
  BY <1>1 DEF CopyInv, OutInPlace, NewInPlace
<1>7. SoundLineInv'
  BY <1>1 DEF SoundLineInv, Playing, Waiting
<1> QED
  BY <1>3, <1>4, <1>5, <1>6, <1>7

(* What the writer forgets, the reader is not reading.                     *)
LEMMA Forgetting ==
    ASSUME AudioInvariant, NEW n \in 0..CanRead(ring.head, ring.tail), Forget(n), ~Reading,
           UNCHANGED <<pull, decoded, heard>>, push'.samples = push.samples
    PROVE  /\ ring' \in [head : Cursors, tail : Cursors, data : Memory] /\ dropped' \subseteq 1..decoded
           /\ CanRead(ring'.head, ring'.tail) = CanRead(ring.head, ring.tail) - n
           /\ OutInPlace' /\ SoundLineInv'
<1> USE DEF AudioInvariant
<1> DEFINE t == (ring.tail + n) % AllocSize
           c == CanRead(ring.head, ring.tail)
           gone == Stored(ring.data, ring.tail, n)
           rest == Stored(ring.data, t, c - n)
<1>1. n \in Cursors /\ t \in Cursors /\ CanRead(ring.head, t) = c - n
  BY SoundParts, Reads
<1>2. /\ ring' \in [head : Cursors, tail : Cursors, data : Memory]
      /\ ring'.head = ring.head /\ ring'.tail = t /\ ring'.data = ring.data
  BY <1>1 DEF Forget, SoundTypes
<1>3. dropped' = dropped \cup Real(gone)
  BY DEF Forget, Samples, Stored
<1>4. c \in Cursors
  BY SoundParts
<1>5. c - n \in Cursors /\ Waiting = gone \o rest
  <2>1. ring.data \in Memory /\ ring.tail \in Cursors /\ n \in 0..c
    BY SoundParts
  <2>2. Waiting = Stored(ring.data, ring.tail, c)
    BY DEF Waiting
  <2> HIDE DEF c
  <2> QED
    BY <1>4, <2>1, <2>2, StoredParts, ZenonT(60)
<1>6. gone \in Sounds /\ rest \in Sounds
  BY <1>1, <1>5, SoundParts, StoredSounds
<1>7. Waiting' = rest
  BY <1>1, <1>2 DEF Waiting
<1>8. CanRead(ring'.head, ring'.tail) = c - n
  BY <1>1, <1>2
<1> HIDE DEF t, c, gone, rest
<1>9. Real(gone) \subseteq 1..decoded
  <2>1. Real(gone \o rest) = Real(gone) \cup Real(rest)
    BY <1>6, JoinedReal
  <2> QED
    BY <1>5, <2>1 DEF SoundLineInv, Line
<1>10. SoundLineInv'
  <2>1. Line(heard, Playing, gone \o rest, push.samples, dropped, decoded)
    BY <1>5 DEF SoundLineInv
  <2>2. Line(heard, Playing, rest, push.samples, dropped \cup Real(gone), decoded)
    BY <1>6, <2>1, SoundParts, DropLine
  <2>3. Playing' = Playing
    BY DEF Playing
  <2> QED
    BY <1>3, <1>7, <2>2, <2>3 DEF SoundLineInv
<1>11. OutInPlace'
  BY DEF OutInPlace, Reading
<1>12. dropped' \subseteq 1..decoded
  BY <1>3, <1>9 DEF SoundTypes
<1> QED
  BY <1>2, <1>8, <1>10, <1>11, <1>12 DEF c

LEMMA DropOldKeeps == ASSUME AudioInvariant, DropOld PROVE AudioInvariant'
<1> USE DEF AudioInvariant
<1> DEFINE n == Least(Len(push.samples), CanRead(ring.head, ring.tail))
<1>1. push.pc = "drop" /\ Forget(n) /\ UNCHANGED <<mutex, pull, played, decoded, heard>>
  BY DEF DropOld
<1>2. /\ push' \in PushState /\ push'.pc = "unlock" /\ push'.phase = "last"
      /\ push'.samples = push.samples /\ push'.tail = push.tail
  BY DEF DropOld, SoundTypes, PushState
<1>3. push.phase = "locked" /\ mutex = "producer" /\ ~Reading
  BY <1>1 DEF ProtocolInv, PhaseInv, MutexInv
<1>4. CanRead(ring.head, ring.tail) = AudioCapacity /\ SilenceFirst(push.samples, 0)
  BY <1>1, <1>3 DEF DataInv, RoomInv, HoldsInv
<1>5. Len(push.samples) - 0 <= AudioCapacity
  BY <1>4 DEF SilenceFirst
<1>6. n = Len(push.samples) /\ n \in 0..CanRead(ring.head, ring.tail)
  BY <1>4, <1>5, SoundParts, AudioSizes DEF Least
<1> HIDE DEF n
<1>7. /\ ring' \in [head : Cursors, tail : Cursors, data : Memory] /\ dropped' \subseteq 1..decoded
      /\ CanRead(ring'.head, ring'.tail) = CanRead(ring.head, ring.tail) - n
      /\ OutInPlace' /\ SoundLineInv'
  BY <1>1, <1>2, <1>3, <1>6, Forgetting
<1>8. SoundTypes'
  BY <1>1, <1>2, <1>7 DEF SoundTypes
<1>9. ProtocolInv'
  BY <1>1, <1>2, <1>3 DEF ProtocolInv, MutexInv, PhaseInv, Reading
<1>10. DataInv'
  <2>1. HoldsInv'
    BY <1>2, <1>4 DEF HoldsInv
  <2>2. StaleInv'
    BY <1>1, <1>2, <1>3 DEF StaleInv, Writing, Reading
  <2>3. Len(push.samples) <= CanWrite(ring'.head, ring'.tail)
    <3>1. ring'.head \in Cursors /\ ring'.tail \in Cursors
      BY <1>7
    <3>2. CanWrite(ring'.head, ring'.tail) = AudioCapacity - CanRead(ring'.head, ring'.tail)
      BY <3>1, Distances
    <3> QED
      BY <1>4, <1>6, <1>7, <3>2, SoundParts, AudioSizes
  <2>4. RoomInv'
    BY <1>2, <2>3 DEF RoomInv, Writing
  <2> QED
    BY <2>1, <2>2, <2>4 DEF DataInv
<1>11. CopyInv'
  BY <1>2, <1>7 DEF CopyInv, NewInPlace
<1> QED
  BY <1>7, <1>8, <1>9, <1>10, <1>11

LEMMA SkipExcessKeeps == ASSUME AudioInvariant, SkipExcess PROVE AudioInvariant'
<1> USE DEF AudioInvariant
<1>1. push.pc = "skip" /\ mutex = "none" /\ UNCHANGED <<mutex, pull, played, decoded, heard>>
  BY DEF SkipExcess
<1>2. /\ push' \in PushState /\ push'.pc = "idle" /\ push'.phase = push.phase
      /\ push'.samples = push.samples /\ push'.tail = push.tail
  BY DEF SkipExcess, SoundTypes, PushState
<1>3. push.phase = "first" /\ ~Reading
  BY <1>1 DEF ProtocolInv, PhaseInv, MutexInv
<1>4. /\ ring' \in [head : Cursors, tail : Cursors, data : Memory] /\ dropped' \subseteq 1..decoded
      /\ OutInPlace' /\ SoundLineInv'
  <2>1. CASE Excess > 0
    <3>1. Excess \in 0..CanRead(ring.head, ring.tail)
      BY <2>1, SoundParts DEF Excess
    <3>2. Forget(Excess)
      BY <2>1 DEF SkipExcess
    <3> QED
      BY <1>1, <1>2, <1>3, <3>1, <3>2, Forgetting
  <2>2. CASE ~(Excess > 0)
    <3>1. UNCHANGED <<ring, dropped>>
      BY <2>2 DEF SkipExcess
    <3>2. OutInPlace'
      BY <1>1, <3>1 DEF CopyInv, OutInPlace
    <3>3. SoundLineInv'
      BY <1>1, <1>2, <3>1 DEF SoundLineInv, Playing, Waiting
    <3> QED
      BY <3>1, <3>2, <3>3 DEF SoundTypes
  <2> QED
    BY <2>1, <2>2
<1>5. SoundTypes'
  BY <1>1, <1>2, <1>4 DEF SoundTypes
<1>6. ProtocolInv'
  BY <1>1, <1>2, <1>3 DEF ProtocolInv, MutexInv, PhaseInv, Reading
<1>7. DataInv'
  <2>1. HoldsInv'
    BY <1>2, <1>3 DEF DataInv, HoldsInv
  <2>2. StaleInv'
    BY <1>1, <1>2, <1>3 DEF StaleInv, Writing, Reading
  <2>3. RoomInv'
    BY <1>2 DEF RoomInv, Writing
  <2> QED
    BY <2>1, <2>2, <2>3 DEF DataInv
<1>8. CopyInv'
  BY <1>2, <1>4 DEF CopyInv, NewInPlace
<1> QED
  BY <1>4, <1>5, <1>6, <1>7, <1>8

(* A frame, resampled: what the ring could never hold is lost, and silence *)
(* goes before the rest when there was a gap.                              *)
LEMMA ReceiveFrameKeeps ==
    ASSUME AudioInvariant, NEW n \in FrameLengths, NEW gap \in BOOLEAN, ReceiveFrame(n, gap)
    PROVE  AudioInvariant'
<1> USE DEF AudioInvariant
<1> DEFINE all == [i \in 1..n |-> decoded + i]
           lost == n - Least(n, AudioCapacity)
           kept == SubSeq(all, lost + 1, n)
           missing == AudioTarget - CanRead(ring.head, ring.tail) - n
           silent == gap /\ missing > 0
           zeros == [i \in 1..missing |-> 0]
<1>1. /\ push.pc = "idle" /\ decoded + n <= MaxSample /\ decoded' = decoded + n
      /\ dropped' = dropped \cup (ToSet(all) \ ToSet(kept))
      /\ UNCHANGED <<ring, mutex, pull, played, heard>>
  BY DEF ReceiveFrame
<1>2. /\ push'.pc = "load" /\ push'.phase = IF silent THEN "silence" ELSE "first"
      /\ push'.samples = IF silent THEN zeros \o kept ELSE kept
      /\ push'.tail = push.tail /\ push'.limit = push.limit
      /\ push' = [push EXCEPT !.pc = push'.pc, !.phase = push'.phase, !.samples = push'.samples]
  BY DEF ReceiveFrame, SoundTypes, PushState
<1>3. n \in Nat /\ decoded \in Nat /\ decoded + n \in 0..MaxSample
  BY <1>1, AudioSizes DEF SoundTypes
<1>4. lost \in 0..n /\ n - lost <= AudioCapacity /\ n - lost \in Nat
  BY <1>3, AudioSizes DEF Least
<1>5. /\ all \in Sounds /\ Len(all) = n /\ DOMAIN all = 1..n
      /\ \A i \in 1..n : all[i] = decoded + i
  <2>1. \A i \in 1..n : decoded + i \in 0..MaxSample
    BY <1>3, AudioSizes
  <2> QED
    BY <1>3, <2>1 DEF Sounds
<1> HIDE DEF all
<1>6. /\ kept \in Sounds /\ Len(kept) = n - lost
      /\ \A i \in 1..n - lost : kept[i] = decoded + lost + i
  <2>1. /\ kept \in Sounds /\ Len(kept) = n - lost
        /\ \A i \in 1..n - lost : kept[i] = all[lost + i]
    <3> HIDE DEF lost
    <3> QED
      BY <1>4, <1>5, Halves
  <2>2. \A i \in 1..n - lost : lost + i \in 1..n /\ decoded + (lost + i) = decoded + lost + i
    BY <1>3, <1>4
  <2> HIDE DEF kept
  <2> QED
    BY <1>5, <2>1, <2>2
<1> HIDE DEF lost, kept
<1>7. /\ DOMAIN kept = 1..n - lost
      /\ ToSet(all) = decoded + 1..decoded + n
      /\ ToSet(kept) = decoded + lost + 1..decoded + n
  <2>1. DOMAIN kept = 1..n - lost
    BY <1>6 DEF Sounds
  <2>2. \A x \in decoded + 1..decoded + n : x - decoded \in 1..n /\ decoded + (x - decoded) = x
    BY <1>3
  <2>3. \A i \in 1..n : decoded + i \in decoded + 1..decoded + n
    BY <1>3
  <2>4. ToSet(all) = decoded + 1..decoded + n
    BY <1>5, <2>2, <2>3 DEF ToSet
  <2>5. \A x \in decoded + lost + 1..decoded + n :
           x - (decoded + lost) \in 1..n - lost /\ decoded + lost + (x - (decoded + lost)) = x
    BY <1>3, <1>4
  <2>6. \A i \in 1..n - lost : decoded + lost + i \in decoded + lost + 1..decoded + n
    BY <1>3, <1>4
  <2>7. ToSet(kept) = decoded + lost + 1..decoded + n
    BY <1>6, <2>1, <2>5, <2>6 DEF ToSet
  <2> QED
    BY <2>1, <2>4, <2>7
<1>8. /\ Real(kept) = decoded + lost + 1..decoded + n
      /\ ToSet(all) \ ToSet(kept) = decoded + 1..decoded + lost
      /\ \A i \in 1..n - lost : kept[i] # 0
  <2>1. \A x \in decoded + lost + 1..decoded + n : x # 0
    BY <1>3, <1>4
  <2>2. \A x \in Int : x \in decoded + 1..decoded + n /\ x \notin decoded + lost + 1..decoded + n
                       <=> x \in decoded + 1..decoded + lost
    BY <1>3, <1>4
  <2>3. \A i \in 1..n - lost : decoded + lost + i # 0
    BY <1>3, <1>4
  <2>4. ToSet(all) \ ToSet(kept) = decoded + 1..decoded + lost
    BY <1>7, <2>2
  <2> QED
    BY <1>6, <1>7, <2>1, <2>3, <2>4 DEF Real
<1>9. Ascending(kept)
  <2>1. \A i, j \in 1..n - lost : i < j => decoded + lost + i < decoded + lost + j
    BY <1>3, <1>4
  <2> QED
    BY <1>6, <1>7, <2>1 DEF Ascending
<1>10. SilenceFirst(kept, 0)
  <2>1. \A i \in 1..n - lost : ~(i <= 0)
    BY <1>4
  <2> QED
    BY <1>4, <1>6, <1>8, <2>1 DEF SilenceFirst
<1>11. ASSUME silent
       PROVE  /\ missing \in Nat /\ SilenceFirst(zeros \o kept, missing)
              /\ zeros \o kept \in Sounds /\ Real(zeros \o kept) = Real(kept) /\ Ascending(zeros \o kept)
  <2>1. missing \in Nat
    BY <1>3, <1>11, SoundParts, AudioSizes
  <2> HIDE DEF missing
  <2>2. zeros \in Sounds /\ Len(zeros) = missing /\ \A i \in 1..missing : zeros[i] = 0
    BY <2>1, AudioSizes DEF Sounds
  <2> HIDE DEF zeros
  <2>3. /\ zeros \o kept \in Sounds /\ Len(zeros \o kept) = missing + (n - lost)
        /\ \A i \in 1..missing + (n - lost) :
              (zeros \o kept)[i] = IF i <= missing THEN zeros[i] ELSE kept[i - missing]
    <3>1. /\ zeros \o kept \in Sounds /\ Len(zeros \o kept) = Len(zeros) + Len(kept)
          /\ \A i \in 1..Len(zeros) + Len(kept) :
                (zeros \o kept)[i] = IF i <= Len(zeros) THEN zeros[i] ELSE kept[i - Len(zeros)]
      BY <1>6, <2>2, ConcatProperties DEF Sounds
    <3> QED
      BY <1>6, <2>2, <3>1
  <2>4. Real(zeros) = {}
    BY <2>2, RealSamples
  <2>5. Real(zeros \o kept) = Real(kept)
    <3>1. Real(zeros \o kept) = Real(zeros) \cup Real(kept)
      BY <1>6, <2>2, JoinedReal
    <3> QED
      BY <2>4, <3>1
  <2>6. Ascending(zeros \o kept)
    <3>1. DOMAIN zeros = 1..missing
      BY <2>2 DEF Sounds
    <3>2. Ascending(zeros)
      BY <2>2, <3>1 DEF Ascending
    <3> QED
      BY <1>6, <1>9, <2>2, <2>4, <3>2, JoinedOrder DEF Before
  <2>7. SilenceFirst(zeros \o kept, missing)
    <3>1. ASSUME NEW i \in 1..missing + (n - lost)
          PROVE  (zeros \o kept)[i] = 0 <=> i <= missing
      <4>1. CASE i <= missing
        <5>1. i \in 1..missing
          BY <2>1, <4>1
        <5> QED
          BY <2>2, <2>3, <4>1, <5>1
      <4>2. CASE ~(i <= missing)
        <5>1. i - missing \in 1..n - lost
          BY <1>4, <2>1, <4>2
        <5> QED
          BY <1>8, <2>3, <4>2, <5>1
      <4> QED
        BY <4>1, <4>2
    <3>2. missing \in 0..missing + (n - lost) /\ missing + (n - lost) - missing <= AudioCapacity
      BY <1>4, <2>1, AudioSizes
    <3>3. Len(zeros \o kept) = missing + (n - lost)
      BY <2>3
    <3>4. \A i \in 1..Len(zeros \o kept) : (zeros \o kept)[i] = 0 <=> i <= missing
      BY <3>1, <3>3
    <3>5. missing \in 0..Len(zeros \o kept) /\ Len(zeros \o kept) - missing <= AudioCapacity
      BY <1>4, <2>1, <3>3, AudioSizes
    <3> QED
      BY <3>4, <3>5 DEF SilenceFirst
  <2> QED
    BY <2>1, <2>3, <2>5, <2>6, <2>7
<1> HIDE DEF silent, zeros, missing
<1>12. push'.samples \in Sounds /\ Real(push'.samples) = Real(kept) /\ Ascending(push'.samples)
  BY <1>2, <1>6, <1>9, <1>11
<1>13. SoundTypes'
  <2>1. push' \in PushState
    BY <1>2, <1>12 DEF SoundTypes, PushState
  <2>2. \A x \in 1..decoded : x \in 1..decoded + n
    BY <1>3
  <2>3. \A x \in decoded + 1..decoded + lost : x \in 1..decoded + n
    BY <1>3, <1>4
  <2>4. dropped' = dropped \cup (decoded + 1..decoded + lost)
    BY <1>1, <1>8
  <2>5. dropped' \subseteq 1..decoded'
    BY <1>1, <2>2, <2>3, <2>4 DEF SoundTypes
  <2>6. heard' \subseteq 1..decoded'
    BY <1>1, <2>2 DEF SoundTypes
  <2> QED
    BY <1>1, <1>3, <2>1, <2>5, <2>6 DEF SoundTypes
<1>14. ProtocolInv'
  BY <1>1, <1>2 DEF ProtocolInv, MutexInv, PhaseInv, Reading
<1>15. DataInv'
  <2>1. HoldsInv'
    BY <1>2, <1>10, <1>11 DEF HoldsInv
  <2>2. StaleInv'
    BY <1>1, <1>2 DEF DataInv, StaleInv, Writing, Reading
  <2>3. RoomInv'
    BY <1>2 DEF RoomInv, Writing
  <2> QED
    BY <2>1, <2>2, <2>3 DEF DataInv
<1>16. CopyInv'
  BY <1>1, <1>2 DEF CopyInv, OutInPlace, NewInPlace
<1>17. SoundLineInv'
  <2>1. push.samples = <<>>
    BY <1>1 DEF ProtocolInv, PhaseInv
  <2>2. Line(heard, Playing, Waiting, <<>>, dropped, decoded)
    BY <2>1 DEF SoundLineInv
  <2>3. lost \in Nat /\ lost <= n /\ n \in Nat /\ dropped \subseteq 1..decoded
    BY <1>3, <1>4 DEF SoundTypes
  <2>4. Line(heard, Playing, Waiting, push'.samples, dropped \cup (decoded + 1..decoded + lost), decoded + n)
    BY <1>3, <1>8, <1>12, <2>2, <2>3, SoundParts, ReceiveLine
  <2>5. Playing' = Playing /\ Waiting' = Waiting
    BY <1>1 DEF Playing, Waiting
  <2>6. dropped' = dropped \cup (decoded + 1..decoded + lost)
    BY <1>1, <1>8
  <2> QED
    BY <1>1, <2>4, <2>5, <2>6 DEF SoundLineInv
<1> QED
  BY <1>13, <1>14, <1>15, <1>16, <1>17

(***************************************************************************)
(* The consumer                                                            *)
(***************************************************************************)

LEMMA PullKeeps ==
    ASSUME AudioInvariant, NEW n \in PullLengths, Pull(n)
    PROVE  AudioInvariant'
<1> USE DEF AudioInvariant
<1>0. /\ pull.pc = "idle" /\ mutex = "none" /\ UNCHANGED <<ring, push, played, decoded, heard, dropped>>
      /\ pull.out = <<>>
  BY DEF Pull, ProtocolInv, PhaseInv
<1>1. CASE UNCHANGED <<mutex, pull>>
  <2>1. SoundTypes' /\ ProtocolInv'
    BY <1>0, <1>1 DEF SoundTypes, ProtocolInv, MutexInv, PhaseInv, Reading
  <2>2. DataInv'
    BY <1>0, <1>1 DEF DataInv, HoldsInv, StaleInv, RoomInv, Writing, Reading
  <2>3. CopyInv'
    BY <1>0, <1>1 DEF CopyInv, OutInPlace, NewInPlace, Writable, Offered
  <2>4. SoundLineInv'
    BY <1>0, <1>1 DEF SoundLineInv, Playing, Waiting
  <2> QED
    BY <2>1, <2>2, <2>3, <2>4
<1>2. CASE mutex' = "consumer" /\ pull' = [pull EXCEPT !.pc = "read", !.want = n, !.head = ring.head]
  <2>1. /\ pull' \in PullState /\ pull'.pc = "read" /\ pull'.out = pull.out /\ pull'.head = ring.head
    BY <1>2, SoundParts, AudioSizes DEF SoundTypes, PullState
  <2>2. SoundTypes'
    BY <1>0, <1>2, <2>1 DEF SoundTypes
  <2>3. ProtocolInv'
    BY <1>0, <1>2, <2>1 DEF ProtocolInv, MutexInv, PhaseInv, Reading
  <2>4. DataInv'
    <3>1. HoldsInv'
      BY <1>0 DEF DataInv, HoldsInv
    <3>2. StaleInv'
      BY <1>0, <2>1, SoundParts DEF DataInv, StaleInv, Writing, Reading
    <3>3. RoomInv'
      BY <1>0 DEF DataInv, RoomInv, Writing
    <3> QED
      BY <3>1, <3>2, <3>3 DEF DataInv
  <2>5. CopyInv'
    BY <1>0, <2>1 DEF CopyInv, OutInPlace, NewInPlace, Writable, Offered
  <2>6. SoundLineInv'
    BY <1>0, <2>1 DEF SoundLineInv, Playing, Waiting
  <2> QED
    BY <2>2, <2>3, <2>4, <2>5, <2>6
<1> QED
  BY <1>1, <1>2 DEF Pull

LEMMA ReadCopyKeeps == ASSUME AudioInvariant, ReadCopy PROVE AudioInvariant'
<1> USE DEF AudioInvariant
<1> DEFINE n == Least(pull.want, CanRead(pull.head, ring.tail))
           out == Stored(ring.data, ring.tail, n)
<1>0. pull.pc = "read" /\ UNCHANGED <<ring, mutex, push, played, decoded, heard, dropped>> /\ Reading
  BY DEF ReadCopy, Reading
<1>1. n \in 0..CanRead(ring.head, ring.tail) /\ n \in Cursors
  <2>1. CanRead(pull.head, ring.tail) <= CanRead(ring.head, ring.tail)
    BY <1>0 DEF DataInv, StaleInv
  <2>2. CanRead(pull.head, ring.tail) \in 0..AudioCapacity
    BY SoundParts, Distances
  <2> QED
    BY <2>1, <2>2, SoundParts, AudioSizes DEF Least, Cursors
<1>2. out \in Sounds /\ Len(out) = n
  BY <1>1, SoundParts, StoredSounds
<1>3. pull' = [pull EXCEPT !.pc = "move", !.out = out]
  BY DEF ReadCopy, Samples, Stored
<1>4. /\ pull' \in PullState /\ pull'.pc = "move" /\ pull'.out = out /\ pull'.head = pull.head
  BY <1>2, <1>3 DEF SoundTypes, PullState
<1>5. SoundTypes'
  BY <1>0, <1>4 DEF SoundTypes
<1>6. ProtocolInv'
  BY <1>0, <1>4 DEF ProtocolInv, MutexInv, PhaseInv, Reading
<1>7. DataInv'
  <2>1. HoldsInv'
    BY <1>0 DEF DataInv, HoldsInv
  <2>2. StaleInv'
    BY <1>0, <1>4 DEF DataInv, StaleInv, Writing, Reading
  <2>3. RoomInv'
    BY <1>0 DEF DataInv, RoomInv, Writing
  <2> QED
    BY <2>1, <2>2, <2>3 DEF DataInv
<1>8. CopyInv'
  <2>1. Len(out) <= CanRead(ring.head, ring.tail) /\ out = Stored(ring.data, ring.tail, Len(out))
    BY <1>1, <1>2, SoundParts
  <2> HIDE DEF n, out
  <2>2. OutInPlace'
    BY <1>0, <1>4, <2>1 DEF OutInPlace
  <2>3. NewInPlace'
    BY <1>0 DEF CopyInv, NewInPlace, Writable, Offered
  <2> QED
    BY <2>2, <2>3 DEF CopyInv
<1>9. SoundLineInv'
  BY <1>0, <1>4 DEF SoundLineInv, Playing, Waiting
<1> QED
  BY <1>5, <1>6, <1>7, <1>8, <1>9

LEMMA ReadMoveKeeps == ASSUME AudioInvariant, ReadMove PROVE AudioInvariant'
<1> USE DEF AudioInvariant
<1> DEFINE n == Len(pull.out)
           c == CanRead(ring.head, ring.tail)
           t == (ring.tail + n) % AllocSize
           rest == Stored(ring.data, t, c - n)
<1>0. pull.pc = "move" /\ UNCHANGED <<push, played, decoded, heard, dropped>> /\ mutex' = "none"
      /\ Reading /\ mutex = "consumer"
  BY DEF ReadMove, Reading, ProtocolInv, MutexInv
<1>1. n \in 0..c /\ pull.out = Stored(ring.data, ring.tail, n) /\ c \in Cursors
  BY <1>0, SoundParts DEF CopyInv, OutInPlace
<1>2. n \in Cursors /\ t \in Cursors /\ CanRead(ring.head, t) = c - n
  BY <1>1, SoundParts, Reads
<1>3. c - n \in Cursors /\ Waiting = pull.out \o rest
  <2>1. ring.data \in Memory /\ ring.tail \in Cursors
    BY SoundParts
  <2>2. Waiting = Stored(ring.data, ring.tail, c)
    BY DEF Waiting
  <2>3. n \in 0..c /\ c \in Cursors
    BY <1>1
  <2> HIDE DEF c, n
  <2>4. c - n \in Cursors /\ Stored(ring.data, ring.tail, c)
             = Stored(ring.data, ring.tail, n) \o Stored(ring.data, (ring.tail + n) % AllocSize, c - n)
    BY <2>1, <2>3, StoredParts
  <2> QED
    BY <1>1, <2>2, <2>4
<1>4. rest \in Sounds
  BY <1>2, <1>3, SoundParts, StoredSounds
<1>5. /\ ring' \in [head : Cursors, tail : Cursors, data : Memory]
      /\ ring'.head = ring.head /\ ring'.tail = t /\ ring'.data = ring.data
  BY <1>2 DEF ReadMove, SoundTypes
<1>6. pull' \in PullState /\ pull'.pc = "play" /\ pull'.out = pull.out /\ pull'.head = pull.head
  BY DEF ReadMove, SoundTypes, PullState
<1>7. CanRead(ring'.head, ring'.tail) = c - n
  BY <1>2, <1>5
<1>8. Waiting' = rest
  BY <1>2, <1>5 DEF Waiting
<1>9. c \in Nat /\ n \in Nat /\ n <= c
  BY <1>1, SoundParts
<1> HIDE DEF n, c, t, rest
<1>10. SoundTypes'
  BY <1>0, <1>5, <1>6 DEF SoundTypes
<1>11. ProtocolInv'
  BY <1>0, <1>6 DEF ProtocolInv, MutexInv, PhaseInv, Reading
<1>12. DataInv'
  <2>1. HoldsInv'
    BY <1>0 DEF DataInv, HoldsInv
  <2>2. StaleInv'
    <3>1. Writing => push.phase # "locked"
      BY <1>0 DEF ProtocolInv, MutexInv, Writing
    <3>2. Writing => c - n <= CanRead(ring.head, push.tail)
      <4>1. CanRead(ring.head, push.tail) \in 0..AudioCapacity
        BY SoundParts, Distances
      <4> QED
        BY <1>9, <4>1, AudioSizes DEF DataInv, StaleInv, c
    <3> QED
      BY <1>0, <1>5, <1>6, <1>7, <3>1, <3>2 DEF StaleInv, Writing, Reading
  <2>3. RoomInv'
    <3>1. push.pc \notin {"drop", "unlock"}
      BY <1>0 DEF ProtocolInv, MutexInv
    <3>2. CanWrite(ring.head, ring.tail) <= CanWrite(ring'.head, ring'.tail)
      <4>1. ring'.head \in Cursors /\ ring'.tail \in Cursors
        BY <1>5
      <4>2. CanWrite(ring'.head, ring'.tail) = AudioCapacity - CanRead(ring'.head, ring'.tail)
        BY <4>1, Distances
      <4>3. CanWrite(ring.head, ring.tail) = AudioCapacity - c
        BY SoundParts, Distances DEF c
      <4> QED
        BY <1>7, <1>9, <4>2, <4>3, AudioSizes
    <3>3. CanWrite(ring.head, ring.tail) \in Nat /\ CanWrite(ring'.head, ring'.tail) \in Nat
      <4>1. ring'.head \in Cursors /\ ring'.tail \in Cursors
        BY <1>5
      <4>2. CanWrite(ring'.head, ring'.tail) \in 0..AudioCapacity
        BY <4>1, Distances
      <4>3. CanWrite(ring.head, ring.tail) \in 0..AudioCapacity
        BY SoundParts, Distances
      <4> QED
        BY <4>2, <4>3, AudioSizes
    <3>4. push.phase = "last" /\ push.pc \in {"unlock", "load"}
            => Len(push.samples) <= CanWrite(ring'.head, ring'.tail)
      BY <3>2, <3>3, SoundParts DEF DataInv, RoomInv
    <3> QED
      BY <1>0, <1>5, <3>1, <3>4 DEF DataInv, RoomInv, Writing
  <2> QED
    BY <2>1, <2>2, <2>3 DEF DataInv
<1>13. CopyInv'
  BY <1>0, <1>5, <1>6 DEF CopyInv, OutInPlace, NewInPlace, Writable, Offered
<1>14. SoundLineInv'
  <2>1. Playing = <<>> /\ Playing' = pull.out
    BY <1>0, <1>6 DEF Playing
  <2>2. Line(heard, <<>>, pull.out \o rest, push.samples, dropped, decoded)
    BY <1>3, <2>1 DEF SoundLineInv
  <2>3. Line(heard, pull.out, rest, push.samples, dropped, decoded)
    BY <1>4, <2>2, SoundParts, TakeLine
  <2> QED
    BY <1>0, <1>8, <2>1, <2>3 DEF SoundLineInv
<1> QED
  BY <1>10, <1>11, <1>12, <1>13, <1>14

LEMMA PlayKeeps == ASSUME AudioInvariant, Play PROVE AudioInvariant'
<1> USE DEF AudioInvariant
<1>0. /\ pull.pc = "play" /\ heard' = heard \cup Real(pull.out)
      /\ UNCHANGED <<ring, mutex, push, decoded, dropped>> /\ played' \in BOOLEAN
      /\ Playing = pull.out
  BY DEF Play, Playing
<1>1. pull' \in PullState /\ pull'.pc = "idle" /\ pull'.out = <<>>
  BY NoSamples DEF Play, SoundTypes, PullState
<1>2. SoundTypes'
  <2>1. Real(pull.out) \subseteq 1..decoded
    BY <1>0 DEF SoundLineInv, Line
  <2> QED
    BY <1>0, <1>1, <2>1 DEF SoundTypes
<1>3. ProtocolInv'
  BY <1>0, <1>1 DEF ProtocolInv, MutexInv, PhaseInv, Reading
<1>4. DataInv'
  <2>1. HoldsInv'
    BY <1>0 DEF DataInv, HoldsInv
  <2>2. StaleInv'
    BY <1>0, <1>1 DEF DataInv, StaleInv, Writing, Reading
  <2>3. RoomInv'
    BY <1>0 DEF DataInv, RoomInv, Writing
  <2> QED
    BY <2>1, <2>2, <2>3 DEF DataInv
<1>5. CopyInv'
  BY <1>0, <1>1 DEF CopyInv, OutInPlace, NewInPlace, Writable, Offered
<1>6. SoundLineInv'
  <2>1. Line(heard \cup Real(pull.out), <<>>, Waiting, push.samples, dropped, decoded)
    BY <1>0, PlayLine DEF SoundLineInv
  <2>2. Playing' = <<>> /\ Waiting' = Waiting
    BY <1>0, <1>1 DEF Playing, Waiting
  <2> QED
    BY <1>0, <2>1, <2>2 DEF SoundLineInv
<1> QED
  BY <1>2, <1>3, <1>4, <1>5, <1>6

LEMMA AudioRests == ASSUME AudioInvariant, UNCHANGED audioVars PROVE AudioInvariant'
<1> USE DEF AudioInvariant, audioVars
<1>1. SoundTypes' /\ ProtocolInv'
  BY DEF SoundTypes, ProtocolInv, MutexInv, PhaseInv, Reading
<1>2. DataInv'
  BY DEF DataInv, HoldsInv, StaleInv, RoomInv, Writing, Reading
<1>3. CopyInv'
  BY DEF CopyInv, OutInPlace, NewInPlace, Writable, Offered
<1>4. SoundLineInv'
  BY DEF SoundLineInv, Playing, Waiting
<1> QED
  BY <1>1, <1>2, <1>3, <1>4

LEMMA AudioStep ==
    ASSUME AudioInvariant, AudioNext \/ UNCHANGED audioVars
    PROVE  AudioInvariant'
  BY LoadTailKeeps, CopyKeeps, StoreKeeps, LockToWriteKeeps, DropOldKeeps, UnlockToWriteKeeps,
     CheckLimitKeeps, SkipExcessKeeps, ReceiveFrameKeeps, PullKeeps, ReadCopyKeeps, ReadMoveKeeps,
     PlayKeeps, AudioRests DEF AudioNext

(* What is on its way is what the parts of the line hold.                  *)
LEMMA TheWay ==
    ASSUME AudioInvariant
    PROVE  OnItsWay = (Playing \o Waiting) \o push.samples
<1> USE DEF AudioInvariant
<1> DEFINE n == CanRead(ring.head, ring.tail)
<1>1. Samples(ring.tail, n) = Waiting /\ Waiting \in Sounds /\ Len(Waiting) = n /\ n \in Nat
  BY SoundParts DEF Samples, Stored, Waiting
<1> HIDE DEF n
<1>2. CASE pull.pc = "move"
  <2> DEFINE m == Len(pull.out)
  <2>1. m \in 0..n /\ pull.out = Stored(ring.data, ring.tail, m)
    BY <1>2, SoundParts DEF CopyInv, OutInPlace, n
  <2>2. n \in Cursors /\ m \in Cursors
    BY <2>1, SoundParts, AudioSizes DEF n, Cursors
  <2>3. Buffered = SubSeq(Waiting, m + 1, n)
    BY <1>1, <1>2 DEF Buffered, n
  <2>4. Waiting = SubSeq(Waiting, 1, m) \o SubSeq(Waiting, m + 1, n)
        /\ SubSeq(Waiting, 1, m) \in Sounds /\ Len(SubSeq(Waiting, 1, m)) = m
        /\ \A i \in 1..m : SubSeq(Waiting, 1, m)[i] = Waiting[i]
    <3>1. m \in 0..Len(Waiting)
      BY <1>1, <2>1
    <3> HIDE DEF m
    <3>2. /\ SubSeq(Waiting, 1, m) \in Sounds /\ Len(SubSeq(Waiting, 1, m)) = m
          /\ \A i \in 1..m : SubSeq(Waiting, 1, m)[i] = Waiting[i]
          /\ Waiting = SubSeq(Waiting, 1, m) \o SubSeq(Waiting, m + 1, Len(Waiting))
      BY <1>1, <3>1, Halves
    <3> QED
      BY <1>1, <3>2
  <2>5. \A i \in 1..m : Waiting[i] = pull.out[i]
    <3>1. \A i \in 1..m : i \in 1..n
      BY <1>1, <2>1, SoundParts
    <3>2. Waiting = Stored(ring.data, ring.tail, n)
      BY DEF Waiting, n
    <3> HIDE DEF m
    <3>3. \A i \in 1..n : Waiting[i] = ring.data[(ring.tail + i - 1) % AllocSize]
      <4>0. ring.data \in Memory /\ ring.tail \in Cursors
        BY SoundParts
      <4>1. \A i \in 1..n :
               /\ Stored(ring.data, ring.tail, n)[i] = ring.data[(ring.tail + i - 1) % AllocSize]
               /\ i - 1 \in Cursors /\ ring.tail + i - 1 = ring.tail + (i - 1)
        BY <2>2, <4>0, StoredSounds, ZenonT(60)
      <4> QED
        BY <3>2, <4>1
    <3>4. \A i \in 1..m : pull.out[i] = ring.data[(ring.tail + i - 1) % AllocSize]
      <4>0. ring.data \in Memory /\ ring.tail \in Cursors
        BY SoundParts
      <4>1. \A i \in 1..m :
               /\ Stored(ring.data, ring.tail, m)[i] = ring.data[(ring.tail + i - 1) % AllocSize]
               /\ i - 1 \in Cursors /\ ring.tail + i - 1 = ring.tail + (i - 1)
        BY <2>2, <4>0, StoredSounds, ZenonT(60)
      <4> QED
        BY <2>1, <4>1
    <3> QED
      BY <3>1, <3>3, <3>4
  <2>6. SubSeq(Waiting, 1, m) = pull.out
    BY <2>4, <2>5, SoundParts, SeqEqual DEF Sounds
  <2>7. Playing = <<>> /\ Playing \o Waiting = Waiting
    BY <1>1, <1>2, ConcatEmptySeq DEF Playing, Sounds
  <2> QED
    BY <2>3, <2>4, <2>6, <2>7 DEF OnItsWay
<1>3. CASE pull.pc # "move"
  <2>1. Buffered = SubSeq(Waiting, 0 + 1, n)
    BY <1>1, <1>3 DEF Buffered, n
  <2>2. Waiting = SubSeq(Waiting, 1, 0) \o SubSeq(Waiting, 0 + 1, n)
        /\ SubSeq(Waiting, 1, 0) \in Sounds /\ Len(SubSeq(Waiting, 1, 0)) = 0
        /\ SubSeq(Waiting, 0 + 1, n) \in Sounds
    <3>1. 0 \in 0..Len(Waiting)
      BY <1>1
    <3>2. /\ SubSeq(Waiting, 1, 0) \in Sounds /\ Len(SubSeq(Waiting, 1, 0)) = 0
          /\ SubSeq(Waiting, 0 + 1, Len(Waiting)) \in Sounds
          /\ Waiting = SubSeq(Waiting, 1, 0) \o SubSeq(Waiting, 0 + 1, Len(Waiting))
      BY <1>1, <3>1, Halves
    <3> QED
      BY <1>1, <3>2
  <2>3. SubSeq(Waiting, 1, 0) = <<>>
    BY <2>2 DEF Sounds
  <2>4. Buffered = Waiting
    BY <2>1, <2>2, <2>3, ConcatEmptySeq DEF Sounds
  <2>5. Playing = pull.out
    <3>1. pull.pc \in {"idle", "read", "move", "play"}
      BY DEF SoundTypes, PullState
    <3> QED
      BY <1>3, <3>1 DEF Playing, ProtocolInv, PhaseInv
  <2> QED
    BY <2>4, <2>5 DEF OnItsWay
<1> QED
  BY <1>2, <1>3

LEMMA SoundRight == AudioInvariant => SoundIsInOrder
<1> SUFFICES ASSUME AudioInvariant PROVE SoundIsInOrder
  OBVIOUS
<1> USE DEF AudioInvariant
<1>1. OnItsWay = (Playing \o Waiting) \o push.samples
  BY TheWay
<1>2. Playing \in Sounds /\ Waiting \in Sounds /\ push.samples \in Sounds /\ Playing \o Waiting \in Sounds
  BY SoundParts, JoinedReal
<1>3. Real(Playing \o Waiting) = Real(Playing) \cup Real(Waiting) /\ Ascending(Playing \o Waiting)
  BY <1>2, JoinedReal, JoinedOrder DEF SoundLineInv, Line
<1>4. Real(OnItsWay) = Real(Playing) \cup Real(Waiting) \cup Real(push.samples)
  <2>1. Real((Playing \o Waiting) \o push.samples) = Real(Playing \o Waiting) \cup Real(push.samples)
    BY <1>2, JoinedReal
  <2> QED
    BY <1>1, <1>3, <2>1
<1>5. Ascending(OnItsWay)
  <2>1. Before(Real(Playing \o Waiting), Real(push.samples))
    BY <1>3 DEF SoundLineInv, Line, Before
  <2>2. Ascending(push.samples)
    BY DEF SoundLineInv, Line
  <2> QED
    BY <1>1, <1>2, <1>3, <2>1, <2>2, JoinedOrder
<1>6. Before(heard, Real(OnItsWay)) /\ heard \cup Real(OnItsWay) = (1..decoded) \ dropped
  BY <1>4 DEF SoundLineInv, Line, Before
<1>7. push.pc = "drop" => CanRead(ring.head, ring.tail) >= Len(push.samples)
  <2> SUFFICES ASSUME push.pc = "drop" PROVE CanRead(ring.head, ring.tail) >= Len(push.samples)
    OBVIOUS
  <2>1. push.phase = "locked"
    BY DEF ProtocolInv, PhaseInv
  <2>2. CanRead(ring.head, ring.tail) = AudioCapacity /\ SilenceFirst(push.samples, 0)
    BY <2>1 DEF DataInv, RoomInv, HoldsInv
  <2>3. Len(push.samples) - 0 <= AudioCapacity
    BY <2>2 DEF SilenceFirst
  <2> QED
    BY <2>2, <2>3, SoundParts, AudioSizes
<1>8. push.pc = "check" => push.samples = <<>>
  BY DEF ProtocolInv, PhaseInv
<1> QED
  BY <1>5, <1>6, <1>7, <1>8 DEF SoundIsInOrder, Ascending, Before

LEMMA AudioTyped == AudioInvariant => AudioTypeOK
<1> SUFFICES ASSUME AudioInvariant PROVE AudioTypeOK
  OBVIOUS
<1> USE DEF AudioInvariant, SoundTypes
<1>1. /\ push.pc \in {"idle", "load", "copy", "store", "lock", "drop", "unlock", "check", "skip"}
      /\ push.phase \in {"silence", "first", "locked", "last"}
  BY DEF PushState
<1>2. pull.pc \in {"idle", "read", "move", "play"}
  BY DEF PullState
<1>3. /\ ring.head \in 0..AudioCapacity /\ ring.tail \in 0..AudioCapacity
      /\ ring.data \in [0..AudioCapacity -> 0..MaxSample]
  BY SoundParts DEF Cursors, Memory
<1> QED
  BY <1>1, <1>2, <1>3 DEF AudioTypeOK
================================================================================
