--------------------------------- MODULE Video ---------------------------------
(***************************************************************************)
(* The decoded video, from the decoder to the sinks: the decoder pushes    *)
(* each session and each frame to its sinks (decoder.c, frame_source.c),   *)
(* directly or through a regulator that delays them (video_regulator.c);   *)
(* the screen and the V4L2 device keep at most one frame, the last one     *)
(* (frame_buffer.c, screen.c, v4l2_sink.c).                                *)
(*                                                                         *)
(* A frame is its number in the stream and the session it belongs to.      *)
(* Only the screen is put behind a regulator here: the one of V4L2 is the  *)
(* same code.  Allocation failures are left out.                           *)
(***************************************************************************)
EXTENDS Integers, Sequences, FiniteSets

CONSTANTS
    Sizes,       \* the sizes of the video: pairs <<width, height>>
    Setups       \* the options and bounds of the session: records
                 \*   [regulated, v4l2, flex : BOOLEAN,
                 \*    user : what the user does, steps : how many times,
                 \*    frames : frames and later sessions in the stream]

ASSUME VideoOK ==
    /\ Sizes \subseteq (Nat \ {0}) \X (Nat \ {0})
    /\ \A s \in Setups : {s.regulated, s.v4l2, s.flex} \subseteq BOOLEAN
                        /\ s.steps \in Nat /\ s.frames \in Nat

VARIABLES
    setup,       \* the one of this session
    decoder,     \* the thread of the decoder
    stream,      \* what it received: [count, session]
    work,        \* what each producer has still to do: sequences of <<step, item>>
    slot,        \* the frame of the screen: [frame, session, prevent]
    vr,          \* the regulator: [thread, queue, held, stopped, range]
    v4,          \* the V4L2 sink: [thread, frame, hasFrame, stopped, written]
    events       \* what was posted to the main thread

videoVars == <<setup, decoder, stream, work, slot, vr, v4, events>>

Producers == {"decoder", "regulator"}
Session == [size : Sizes, client : BOOLEAN]
Item == [n : 0..setup.frames, session : Session]   \* a frame, or a session if n = 0
IsFrame(item) == item.n > 0

VideoInit ==
    /\ setup \in Setups
    /\ decoder = "closed"
    /\ \E size \in Sizes : stream = [count |-> 0, session |-> [size |-> size, client |-> FALSE]]
    /\ work = [p \in Producers |-> <<>>]
    /\ slot = [frame |-> <<>>, session |-> stream.session, prevent |-> FALSE]
    /\ vr = [thread |-> "none", queue |-> <<>>, held |-> <<>>, stopped |-> FALSE, range |-> 0]
    /\ v4 = [thread |-> "none", frame |-> <<>>, hasFrame |-> FALSE, stopped |-> FALSE,
             written |-> 0]
    /\ events = <<>>

Post(event) == events' = Append(events, event)
Event(type) == [type |-> type]

--------------------------------------------------------------------------------
(* The decoder                                                             *)

(* sc_frame_source_sinks_open(): the screen announces the size; if the     *)
(* V4L2 device cannot be opened, what is open already is closed.           *)
OpenSinks ==
    /\ decoder = "closed"
    /\ slot' = [slot EXCEPT !.session = stream.session]
    /\ Post([type |-> "open", size |-> stream.session.size])
    /\ vr' = [vr EXCEPT !.thread = IF setup.regulated THEN "ready" ELSE "none"]
    /\ \/ /\ v4' = [v4 EXCEPT !.thread = IF setup.v4l2 THEN "ready" ELSE "none"]
          /\ decoder' = "running"
       \/ setup.v4l2 /\ decoder' = "stopRegulator" /\ UNCHANGED v4
    /\ UNCHANGED <<setup, stream, work>>

(* The sinks of the decoder: the screen or its regulator, then V4L2, that  *)
(* has no push_session().                                                  *)
Route(item) ==
    (IF setup.regulated THEN <<<<"regulator", item>>>> ELSE <<<<"screen", item>>>>)
    \o (IF setup.v4l2 /\ IsFrame(item) THEN <<<<"v4l2", item>>>> ELSE <<>>)

(* sc_decoder_push(), sc_decoder_push_session().                           *)
Decode ==
    /\ decoder = "running"
    /\ work["decoder"] = <<>>
    /\ stream.count < setup.frames
    /\ \/ LET n == stream.count + 1 IN
          /\ stream' = [stream EXCEPT !.count = n]
          /\ work' = [work EXCEPT !["decoder"] = Route([n |-> n, session |-> stream.session])]
       \/ \E session \in Session \ {stream.session} :
          /\ session.client => setup.flex
          /\ stream' = [count |-> stream.count + 1, session |-> session]
          /\ work' = [work EXCEPT !["decoder"] = Route([n |-> 0, session |-> session])]
    /\ UNCHANGED <<setup, decoder, slot, vr, v4, events>>

(* The end of the stream, or a decoding error.                             *)
StreamEnds ==
    /\ decoder = "running"
    /\ work["decoder"] = <<>>
    /\ decoder' = "stopV4l2"
    /\ UNCHANGED <<setup, stream, work, slot, vr, v4, events>>

(* sc_frame_source_sinks_close(), from the last sink to the first.         *)
CloseV4l2 ==
    /\ decoder = "stopV4l2"
    /\ v4' = [v4 EXCEPT !.stopped = TRUE,
                        !.thread = IF @ = "waiting" THEN "ready" ELSE @]
    /\ decoder' = "joinV4l2"
    /\ UNCHANGED <<setup, stream, work, slot, vr, events>>
JoinV4l2 ==
    /\ decoder = "joinV4l2"
    /\ v4.thread \in {"none", "ended"}
    /\ decoder' = "stopRegulator"
    /\ UNCHANGED <<setup, stream, work, slot, vr, v4, events>>

(* Mutation: only the condition of the dates is signalled.                 *)
CloseRegulator_OneSignal ==
    /\ decoder = "stopRegulator"
    /\ vr' = [vr EXCEPT !.stopped = TRUE]
    /\ decoder' = "joinRegulator"
    /\ UNCHANGED <<setup, stream, work, slot, v4, events>>

(* Both conditions are signalled; a wait for a date ends in VrDate.        *)
CloseRegulator ==
    /\ decoder = "stopRegulator"
    /\ vr' = [vr EXCEPT !.stopped = TRUE,
                        !.thread = IF @ = "waitQueue" THEN "ready" ELSE @]
    /\ decoder' = "joinRegulator"
    /\ UNCHANGED <<setup, stream, work, slot, v4, events>>
JoinRegulator ==
    /\ decoder = "joinRegulator"
    /\ vr.thread \in {"none", "ended"}
    /\ decoder' = "ended"
    /\ UNCHANGED <<setup, stream, work, slot, vr, v4, events>>

--------------------------------------------------------------------------------
(* The sinks, called by the thread of producer p                           *)

Next_(p, step) == work[p] # <<>> /\ Head(work[p])[1] = step
ItemOf(p) == Head(work[p])[2]
Done(p) == [work EXCEPT ![p] = Tail(@)]

(* A sink that fails ends its producer: the demuxer closes the sinks, the  *)
(* thread of the regulator stops.                                          *)
Fail(p) ==
    /\ work' = [work EXCEPT ![p] = <<>>]
    /\ IF p = "decoder" THEN decoder' = "stopV4l2" /\ UNCHANGED vr
       ELSE /\ vr' = [vr EXCEPT !.stopped = TRUE]
            /\ UNCHANGED decoder

(* sc_screen_frame_sink_push(): the event of the previous frame will       *)
(* consume this one, if it was not consumed yet.                           *)
PushToScreen(p) ==
    /\ Next_(p, "screen")
    /\ LET item == ItemOf(p) IN
       IF IsFrame(item)
       THEN /\ slot' = [slot EXCEPT !.frame = <<item>>, !.prevent = slot.session.client]
            /\ work' = IF slot.frame # <<>> THEN Done(p)
                       ELSE [work EXCEPT ![p] = <<<<"post", item>>>> \o Tail(@)]
       ELSE slot' = [slot EXCEPT !.session = item.session] /\ work' = Done(p)
    /\ UNCHANGED <<setup, decoder, stream, vr, v4, events>>

(* The event is posted once the mutex is released; posting may fail.       *)
PostNewFrame(p) ==
    /\ Next_(p, "post")
    /\ \/ Post(Event("frame")) /\ work' = Done(p) /\ UNCHANGED <<decoder, vr>>
       \/ Fail(p) /\ UNCHANGED events
    /\ UNCHANGED <<setup, stream, slot, v4>>

(* Mutation: has_frame is set and signalled when the slot was full.        *)
PushToV4l2_Swapped(p) ==
    /\ Next_(p, "v4l2")
    /\ v4' = IF v4.frame = <<>> THEN [v4 EXCEPT !.frame = <<ItemOf(p)>>]
             ELSE [v4 EXCEPT !.frame = <<ItemOf(p)>>, !.hasFrame = TRUE,
                             !.thread = IF @ = "waiting" THEN "ready" ELSE @]
    /\ work' = Done(p)
    /\ UNCHANGED <<setup, decoder, stream, slot, vr, events>>

(* sc_v4l2_sink_push().                                                    *)
PushToV4l2(p) ==
    /\ Next_(p, "v4l2")
    /\ v4' = IF v4.frame # <<>> THEN [v4 EXCEPT !.frame = <<ItemOf(p)>>]
             ELSE [v4 EXCEPT !.frame = <<ItemOf(p)>>, !.hasFrame = TRUE,
                             !.thread = IF @ = "waiting" THEN "ready" ELSE @]
    /\ work' = Done(p)
    /\ UNCHANGED <<setup, decoder, stream, slot, vr, events>>

Enqueued(item) == [vr EXCEPT !.queue = Append(@, item),
                             !.thread = IF @ = "waitQueue" THEN "ready" ELSE @]

(* Mutation: any frame that finds the queue empty is pushed at once.       *)
PushToRegulator_AnyAsap(p) ==
    /\ Next_(p, "regulator")
    /\ LET item == ItemOf(p)
           range == IF vr.range < 2 THEN vr.range + 1 ELSE 2
       IN IF vr.stopped THEN Fail(p)
          ELSE /\ IF IsFrame(item) /\ vr.queue = <<>>
                  THEN /\ vr' = [vr EXCEPT !.range = range]
                       /\ work' = [work EXCEPT ![p] = <<<<"screen", item>>>> \o Tail(@)]
                  ELSE vr' = [Enqueued(item) EXCEPT !.range = range] /\ work' = Done(p)
               /\ UNCHANGED decoder
    /\ UNCHANGED <<setup, stream, slot, v4, events>>

(* sc_video_regulator_frame_sink_push() and push_session(): the first      *)
(* frame (clock range 1) is pushed at once; the rest is queued.  The range *)
(* of the clock is kept up to 2.                                           *)
PushToRegulator(p) ==
    /\ Next_(p, "regulator")
    /\ LET item == ItemOf(p)
           range == IF vr.range < 2 THEN vr.range + 1 ELSE 2
       IN IF vr.stopped THEN Fail(p)
          ELSE /\ IF ~IsFrame(item) THEN vr' = Enqueued(item) /\ work' = Done(p)
                  ELSE IF range = 1
                  THEN /\ vr' = [vr EXCEPT !.range = range]
                       /\ work' = [work EXCEPT ![p] = <<<<"screen", item>>>> \o Tail(@)]
                  ELSE vr' = [Enqueued(item) EXCEPT !.range = range] /\ work' = Done(p)
               /\ UNCHANGED decoder
    /\ UNCHANGED <<setup, stream, slot, v4, events>>

--------------------------------------------------------------------------------
(* The threads of the regulator (run_buffering()) and of V4L2              *)

VrFlushed == [vr EXCEPT !.queue = <<>>, !.held = <<>>, !.thread = "ended"]

VrTake ==
    /\ vr.thread = "ready"
    /\ work["regulator"] = <<>>
    /\ IF vr.stopped THEN vr' = VrFlushed /\ UNCHANGED work
       ELSE IF vr.queue = <<>> THEN vr' = [vr EXCEPT !.thread = "waitQueue"] /\ UNCHANGED work
       ELSE IF IsFrame(Head(vr.queue))
       THEN /\ vr' = [vr EXCEPT !.queue = Tail(@), !.held = <<Head(vr.queue)>>,
                                !.thread = "waitDate"]
            /\ UNCHANGED work
       ELSE /\ vr' = [vr EXCEPT !.queue = Tail(@)]
            /\ work' = [work EXCEPT !["regulator"] = <<<<"screen", Head(vr.queue)>>>>]
    /\ UNCHANGED <<setup, decoder, stream, slot, v4, events>>

(* The date of the held frame comes, earlier or later: it depends on the   *)
(* clock, that each frame updates, and is bounded by max_deadline.         *)
VrDate ==
    /\ vr.thread = "waitDate"
    /\ IF vr.stopped THEN vr' = VrFlushed /\ UNCHANGED work
       ELSE /\ vr' = [vr EXCEPT !.held = <<>>, !.thread = "ready"]
            /\ work' = [work EXCEPT !["regulator"] = <<<<"screen", vr.held[1]>>>>]
    /\ UNCHANGED <<setup, decoder, stream, slot, v4, events>>

VrSpuriousWakeup ==
    /\ vr.thread = "waitQueue"
    /\ vr' = [vr EXCEPT !.thread = "ready"]
    /\ UNCHANGED <<setup, decoder, stream, work, slot, v4, events>>

(* run_v4l2_sink(): a frame that cannot be encoded ends the thread, and    *)
(* the sink goes on accepting frames.                                      *)
V4Take ==
    /\ v4.thread = "ready"
    /\ v4' = IF v4.stopped THEN [v4 EXCEPT !.thread = "ended"]
             ELSE IF ~v4.hasFrame THEN [v4 EXCEPT !.thread = "waiting"]
             ELSE [v4 EXCEPT !.hasFrame = FALSE, !.thread = "writing", !.frame = <<>>,
                             !.written = v4.frame[1].n]
    /\ UNCHANGED <<setup, decoder, stream, work, slot, vr, events>>
V4Write ==
    /\ v4.thread = "writing"
    /\ \E next \in {"ready", "ended"} : v4' = [v4 EXCEPT !.thread = next]
    /\ UNCHANGED <<setup, decoder, stream, work, slot, vr, events>>
V4SpuriousWakeup ==
    /\ v4.thread = "waiting"
    /\ v4' = [v4 EXCEPT !.thread = "ready"]
    /\ UNCHANGED <<setup, decoder, stream, work, slot, vr, events>>

VideoNext ==
    \/ OpenSinks \/ Decode \/ StreamEnds
    \/ CloseV4l2 \/ JoinV4l2 \/ CloseRegulator \/ JoinRegulator
    \/ \E p \in Producers : PushToScreen(p) \/ PostNewFrame(p)
    \/ PushToV4l2("decoder") \/ PushToRegulator("decoder")
    \/ VrTake \/ VrDate \/ VrSpuriousWakeup
    \/ V4Take \/ V4Write \/ V4SpuriousWakeup

--------------------------------------------------------------------------------
(* Properties                                                              *)

VideoTypeOK ==
    /\ setup \in Setups
    /\ decoder \in {"closed", "running", "stopV4l2", "joinV4l2", "stopRegulator",
                    "joinRegulator", "ended"}
    /\ stream \in [count : 0..setup.frames, session : Session]
    /\ slot.frame \in {<<>>} \cup {<<item>> : item \in Item}
    /\ vr.thread \in {"none", "ready", "waitQueue", "waitDate", "ended"}
    /\ v4.thread \in {"none", "ready", "waiting", "writing", "ended"}
    /\ vr.held # <<>> <=> vr.thread = "waitDate"
    /\ vr.held # <<>> => vr.range > 0    \* sc_clock_to_system_time()

(* What is to be pushed to the screen by a producer, in order.             *)
ToScreen(p) == [i \in {k \in DOMAIN work[p] : work[p][k][1] \in {"screen", "regulator"}}
                  |-> work[p][i][2]]

(* The frames are in order within each part of their way and from one part *)
(* to the next; the sessions among them have no number.                    *)
InOrder(way) ==
    \A a, b \in DOMAIN way : \A i \in DOMAIN way[a], j \in DOMAIN way[b] :
       /\ a < b \/ (a = b /\ i < j)
       /\ IsFrame(way[a][i]) /\ IsFrame(way[b][j])
       => way[a][i].n < way[b][j].n

(* A thread that waits without a deadline has nothing to do: no signal was *)
(* lost, and closing the sinks ends.                                       *)
SinksWakeUp ==
    /\ vr.thread = "waitQueue" => ~vr.stopped /\ vr.queue = <<>>
    /\ v4.thread = "waiting" => ~v4.stopped /\ ~v4.hasFrame
    /\ v4.hasFrame <=> v4.frame # <<>>

================================================================================
