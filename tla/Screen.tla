-------------------------------- MODULE Screen ---------------------------------
(***************************************************************************)
(* The screen of the client (screen.c), on the main thread: it handles the *)
(* events that the other threads posted (Video), the shortcuts of the user *)
(* (input_manager.c:536-602) and what the window manager does to the       *)
(* window; it ends with the disconnection window (disconnect.c), whose     *)
(* thread loads an icon and waits, and joins that thread and the one of    *)
(* the frame counter (fps_counter.c).                                      *)
(*                                                                         *)
(* A shortcut is a key event of the same queue: it may come between any    *)
(* two of the events that are modelled.  The size of the window is reduced *)
(* to the content for which its ratio was set last.                        *)
(***************************************************************************)
EXTENDS Video

VARIABLES
    ui,          \* where the main thread is
    scr,         \* struct sc_screen
    window,      \* the SDL window: [flags, fit], flags that are not windowed
    counter,     \* the frame counter: [thread, created, started, interrupted]
    disc,        \* the disconnection: [thread, interrupted]
    freed,       \* history: the posted data that was freed
    steps        \* history: shortcuts and changes of the window

screenVars == <<ui, scr, window, counter, disc, freed, steps>>

--------------------------------------------------------------------------------
(* Orientations: 0 to 3 quarters of a turn clockwise, after a horizontal   *)
(* flip if 4 is added                                                      *)

IsSwap(o) == o % 2 = 1
Rotation(o) == o % 4
IsMirror(o) == o >= 4

(* Mutation: the order of the two transformations is forgotten.            *)
Apply_NoCompensation(source, transform) ==
    (IF IsMirror(source) # IsMirror(transform) THEN 4 ELSE 0)
    + ((Rotation(source) + Rotation(transform)) % 4)

(* sc_orientation_apply(): a flip after a quarter of a turn is the same    *)
(* flip before the opposite quarter.                                       *)
Apply(source, transform) ==
    LET turned == IF IsSwap(source) /\ IsMirror(transform) THEN 2 ELSE 0
    IN (IF IsMirror(source) # IsMirror(transform) THEN 4 ELSE 0)
       + ((Rotation(source) + turned + Rotation(transform)) % 4)

Oriented(size, o) == IF IsSwap(o) THEN <<size[2], size[1]>> ELSE size

(* sc_screen_convert_window_to_frame_coords(), for a content of w x h.     *)
ToFrame(o, w, h, x, y) ==
    CASE o = 0 -> <<x, y>>         [] o = 1 -> <<y, w - x>>
      [] o = 2 -> <<w - x, h - y>> [] o = 3 -> <<h - y, x>>
      [] o = 4 -> <<w - x, y>>     [] o = 5 -> <<h - y, w - x>>
      [] o = 6 -> <<x, h - y>>     [] o = 7 -> <<y, x>>

--------------------------------------------------------------------------------

ScreenInit ==
    /\ VideoInit
    /\ ui = "loop"
    /\ scr = [shown |-> FALSE, paused |-> FALSE, frame |-> <<>>, resume |-> <<>>,
              size |-> <<0, 0>>, content |-> <<0, 0>>, orientation |-> 0,
              pending |-> FALSE, windowed |-> <<0, 0>>, tracked |-> <<>>,
              disconnected |-> FALSE, request |-> <<>>]
    /\ window = [flags |-> {}, fit |-> <<0, 0>>]
    /\ counter = [thread |-> "none", created |-> FALSE, started |-> FALSE,
                  interrupted |-> FALSE]
    /\ disc = [thread |-> "none", interrupted |-> FALSE]
    /\ freed = {}
    /\ steps = 0

IsWindowed == window.flags = {}

(* sc_screen_request_resize_display().                                     *)
Requested(s, size) == [s EXCEPT !.request = <<Oriented(size, s.orientation)>>]

(* Mutation: the resize of the display is requested in any mode.           *)
SetContentSize_AlwaysRequests(s, new, resize) ==
    LET done == [s EXCEPT !.content = new] IN
    IF ~resize THEN <<done, window>>
    ELSE IF IsWindowed THEN <<done, [window EXCEPT !.fit = new]>>
    ELSE <<Requested(done, window.fit), window>>

(* set_content_size(s, new, resize): <<screen, window>>.  A window that is *)
(* not windowed is resized later, from the content it was made for.        *)
SetContentSize(s, new, resize) ==
    LET done == [s EXCEPT !.content = new] IN
    IF ~resize THEN <<done, window>>
    ELSE IF IsWindowed THEN <<done, [window EXCEPT !.fit = new]>>
    ELSE IF setup.flex THEN <<Requested(done, window.fit), window>>
    ELSE IF s.pending THEN <<done, window>>
    ELSE <<[done EXCEPT !.pending = TRUE, !.windowed = s.content], window>>

(* sc_screen_apply_frame(): in flex display mode, the size of a frame is   *)
(* tracked, to recognise the resize that it causes.                        *)
ApplyFrame(s, canResize) ==
    LET size == s.frame[1].session.size
        new == Oriented(size, s.orientation)
        tracked == [s EXCEPT !.size = size, !.tracked = IF setup.flex THEN <<new>> ELSE @]
    IN IF size = s.size THEN <<s, window>> ELSE SetContentSize(tracked, new, canResize)

Become(pair) == scr' = pair[1] /\ window' = pair[2]

--------------------------------------------------------------------------------
(* sc_screen_handle_event(), in event_loop()                               *)

Receives(place, type) == ui = place /\ events # <<>> /\ Head(events).type = type
Consumed == events' = Tail(events)
SameVideoButEvents == UNCHANGED <<setup, decoder, stream, work, vr, v4>>

(* SC_EVENT_OPEN_WINDOW: the first size is known, the window is shown.     *)
OpenWindow ==
    /\ Receives("loop", "open")
    /\ Consumed
    /\ LET size == Head(events).size
           content == Oriented(size, scr.orientation)
       IN /\ scr' = [scr EXCEPT !.size = size, !.content = content, !.shown = TRUE,
                                !.tracked = IF setup.flex THEN <<content>> ELSE @]
          /\ window' = [window EXCEPT !.fit = content]
    /\ freed' = freed \cup {"open"}
    /\ UNCHANGED <<slot, ui, counter, disc, steps>> /\ SameVideoButEvents

(* Mutation: a paused screen leaves the frame in the slot.                 *)
NewFrame_Ignored ==
    /\ Receives("loop", "frame")
    /\ Consumed
    /\ IF scr.paused THEN UNCHANGED <<slot, scr, window>>
       ELSE /\ slot' = [slot EXCEPT !.frame = <<>>]
            /\ Become(ApplyFrame([scr EXCEPT !.frame = slot.frame], ~slot.prevent))
    /\ UNCHANGED <<ui, counter, disc, freed, steps>> /\ SameVideoButEvents

(* SC_EVENT_NEW_FRAME, sc_screen_update_frame(): paused, the screen keeps  *)
(* the last frame for later.                                               *)
NewFrame ==
    /\ Receives("loop", "frame")
    /\ Consumed
    /\ slot' = [slot EXCEPT !.frame = <<>>]
    /\ IF scr.paused THEN scr' = [scr EXCEPT !.resume = slot.frame] /\ UNCHANGED window
       ELSE Become(ApplyFrame([scr EXCEPT !.frame = slot.frame], ~slot.prevent))
    /\ UNCHANGED <<ui, counter, disc, freed, steps>> /\ SameVideoButEvents

(* Mutation: a window that was maximized keeps its size.                   *)
WindowRestored_LeftOnly ==
    /\ Receives("loop", "restored")
    /\ Consumed
    /\ UNCHANGED <<scr, window, slot, ui, counter, disc, freed, steps>>
    /\ SameVideoButEvents

(* SDL_EVENT_WINDOW_RESTORED, SDL_EVENT_WINDOW_LEAVE_FULLSCREEN: the       *)
(* pending resize is applied, unless the window changed again.             *)
WindowRestored ==
    /\ Receives("loop", "restored")
    /\ Consumed
    /\ IF IsWindowed /\ scr.pending
       THEN /\ scr' = [scr EXCEPT !.pending = FALSE]
            /\ window' = [window EXCEPT !.fit = scr.content]
       ELSE UNCHANGED <<scr, window>>
    /\ UNCHANGED <<slot, ui, counter, disc, freed, steps>> /\ SameVideoButEvents

(* SDL_EVENT_WINDOW_RESIZED, sc_screen_on_resize(): unless it is the size  *)
(* of a recent frame, the device is asked to resize its display.           *)
WindowResized ==
    /\ Receives("loop", "resized")
    /\ Consumed
    /\ \E recent \in BOOLEAN :          \* less than three seconds
          IF recent /\ scr.tracked = <<Head(events).size>>
          THEN scr' = [scr EXCEPT !.tracked = <<>>]
          ELSE scr' = Requested([scr EXCEPT !.tracked = IF recent THEN @ ELSE <<>>],
                                Head(events).size)
    /\ UNCHANGED <<slot, window, ui, counter, disc, freed, steps>> /\ SameVideoButEvents

(* SDL_EVENT_QUIT and SC_EVENT_DEVICE_DISCONNECTED end event_loop(); the   *)
(* end of scrcpy() begins with sc_screen_interrupt().                      *)
Interrupted(c) == IF ~c.created THEN c
                  ELSE [c EXCEPT !.interrupted = TRUE,
                                 !.thread = IF @ = "waiting" THEN "running" ELSE @]
Quit ==
    /\ Receives("loop", "quit")
    /\ Consumed
    /\ ui' = "hide"
    /\ counter' = Interrupted(counter)
    /\ UNCHANGED <<slot, scr, window, disc, freed, steps>> /\ SameVideoButEvents

(* The counter is stopped (sc_input_manager_on_device_disconnected()), and *)
(* sc_disconnect_start() starts its thread, or fails.                      *)
Disconnected ==
    /\ Receives("loop", "disconnected")
    /\ Consumed
    /\ scr' = [scr EXCEPT !.disconnected = TRUE]
    /\ IF ~scr.shown THEN ui' = "hide" /\ UNCHANGED <<disc, counter>>
       ELSE /\ \E thread \in {"none", "loading"} :
                  disc' = [disc EXCEPT !.thread = thread]
            /\ counter' = Interrupted([counter EXCEPT !.started = FALSE])
            /\ ui' = IF disc'.thread = "none" THEN "hide" ELSE "window"
    /\ UNCHANGED <<slot, window, freed, steps>> /\ SameVideoButEvents

--------------------------------------------------------------------------------
(* sc_screen_handle_disconnection(), and the thread of disconnect.c        *)

IconLoaded ==
    /\ Receives("window", "icon")
    /\ Consumed
    /\ freed' = freed \cup {"icon"}
    /\ UNCHANGED <<slot, ui, scr, window, counter, disc, steps>> /\ SameVideoButEvents

(* The user quits, or the delay ends.                                      *)
DisconnectionOver ==
    /\ Receives("window", "quit") \/ Receives("window", "timeout")
    /\ Consumed
    /\ ui' = "hide"
    /\ disc' = IF Head(events).type = "timeout" THEN disc
               ELSE [disc EXCEPT !.interrupted = TRUE]
    /\ UNCHANGED <<slot, scr, window, counter, freed, steps>> /\ SameVideoButEvents

OtherEvent ==
    /\ \E type \in {"open", "frame", "restored", "resized", "disconnected"} :
          Receives("window", type)
    /\ Consumed
    /\ UNCHANGED <<slot, screenVars>> /\ SameVideoButEvents

(* run(): the icon is posted if it could be loaded; then the thread waits  *)
(* for its deadline or for the interruption.                               *)
DiscLoad ==
    /\ disc.thread = "loading"
    /\ Post(Event("icon")) \/ UNCHANGED events
    /\ disc' = [disc EXCEPT !.thread = "waiting"]
    /\ UNCHANGED <<slot, ui, scr, window, counter, freed, steps>> /\ SameVideoButEvents
DiscEnds ==
    /\ disc.thread = "waiting"
    /\ IF disc.interrupted THEN UNCHANGED events ELSE Post(Event("timeout"))
    /\ disc' = [disc EXCEPT !.thread = "ended"]
    /\ UNCHANGED <<slot, ui, scr, window, counter, freed, steps>> /\ SameVideoButEvents

--------------------------------------------------------------------------------
(* The end: the window is hidden, the demuxer joined, then the screen      *)

Hide ==
    /\ ui = "hide"
    /\ scr' = [scr EXCEPT !.shown = FALSE]
    /\ ui' = "joinDemuxer"
    /\ UNCHANGED <<videoVars, window, counter, disc, freed, steps>>
JoinDemuxer ==
    /\ ui = "joinDemuxer"
    /\ decoder = "ended"
    /\ ui' = "join"
    /\ UNCHANGED <<videoVars, scr, window, counter, disc, freed, steps>>
JoinScreen ==
    /\ ui = "join"
    /\ counter.thread \in {"none", "ended"}
    /\ disc.thread \in {"none", "ended"}
    /\ ui' = "destroy"
    /\ UNCHANGED <<videoVars, scr, window, counter, disc, freed, steps>>

(* Mutation: only the icon is looked for among the events that are left.   *)
DestroyScreen_IconOnly ==
    /\ ui = "destroy"
    /\ freed' = freed \cup ({events[i].type : i \in DOMAIN events} \cap {"icon"})
    /\ ui' = "end"
    /\ UNCHANGED <<videoVars, scr, window, counter, disc, steps>>

(* sc_screen_destroy(): the data of the events that nobody handled.        *)
DestroyScreen ==
    /\ ui = "destroy"
    /\ freed' = freed \cup ({events[i].type : i \in DOMAIN events} \cap {"icon", "open"})
    /\ ui' = "end"
    /\ UNCHANGED <<videoVars, scr, window, counter, disc, steps>>

--------------------------------------------------------------------------------
(* The shortcuts, also handled in the disconnection window                 *)

Shortcut(kind) ==
    /\ kind \in setup.user
    /\ ui \in {"loop", "window"}
    /\ scr.shown
    /\ steps < setup.steps
    /\ steps' = steps + 1
    /\ UNCHANGED <<videoVars, ui, disc, freed>>

(* sc_screen_set_paused(): a frame received meanwhile is displayed, also   *)
(* when the screen is paused again.                                        *)
SetPaused(paused) ==
    /\ Shortcut("pause")
    /\ paused \/ scr.paused
    /\ LET resumed == [scr EXCEPT !.frame = scr.resume, !.resume = <<>>]
           shown == IF scr.paused /\ scr.resume # <<>> THEN ApplyFrame(resumed, TRUE)
                    ELSE <<scr, window>>
       IN Become(<<[shown[1] EXCEPT !.paused = paused], shown[2]>>)
    /\ UNCHANGED counter

(* sc_screen_set_orientation().                                            *)
SetOrientation(transform) ==
    /\ Shortcut("rotate")
    /\ LET o == Apply(scr.orientation, transform)
           sized == SetContentSize(scr, Oriented(scr.size, o), TRUE)
       IN o # scr.orientation /\ Become(<<[sized[1] EXCEPT !.orientation = o], sized[2]>>)
    /\ UNCHANGED counter

(* sc_screen_resize_to_fit(), sc_screen_resize_to_pixel_perfect().         *)
ResizeToFit ==
    /\ Shortcut("window")
    /\ IsWindowed
    /\ window' = [window EXCEPT !.fit = scr.content]
    /\ UNCHANGED <<scr, counter>>

(* switch_fps_counter_state(): sc_fps_counter_start() and stop().          *)
SwitchCounter ==
    /\ Shortcut("counter")
    /\ counter' =
         IF counter.started
         THEN [counter EXCEPT !.started = FALSE]
         ELSE [counter EXCEPT !.started = TRUE, !.interrupted = FALSE, !.created = TRUE,
                              !.thread = IF @ \in {"none", "waiting"} THEN "running" ELSE @]
    /\ UNCHANGED <<scr, window>>

(* run_fps_counter(); a wait for the next second ends by itself.           *)
CounterThread ==
    /\ counter.thread = "running"
    /\ \/ counter.interrupted /\ counter' = [counter EXCEPT !.thread = "ended"]
       \/ /\ ~counter.interrupted /\ ~counter.started
          /\ counter' = [counter EXCEPT !.thread = "waiting"]
    /\ UNCHANGED <<videoVars, ui, scr, window, disc, freed, steps>>

--------------------------------------------------------------------------------
(* What comes from outside                                                 *)

(* The window becomes full screen, maximized, or leaves that state: SDL    *)
(* changes its flags and posts an event.                                   *)
WindowChanges(flag) ==
    /\ "window" \in setup.user
    /\ scr.shown
    /\ steps < setup.steps
    /\ steps' = steps + 1
    /\ IF flag \in window.flags
       THEN window' = [window EXCEPT !.flags = @ \ {flag}] /\ Post(Event("restored"))
       ELSE window' = [window EXCEPT !.flags = @ \cup {flag}] /\ UNCHANGED events
    /\ UNCHANGED <<slot, ui, scr, counter, disc, freed>> /\ SameVideoButEvents

(* In flex display mode, the user gives the window the size of his choice. *)
UserResizes(size) ==
    /\ setup.flex /\ scr.shown /\ IsWindowed
    /\ window.fit # size
    /\ steps < setup.steps
    /\ steps' = steps + 1
    /\ window' = [window EXCEPT !.fit = size]
    /\ Post([type |-> "resized", size |-> size])
    /\ UNCHANGED <<slot, ui, scr, counter, disc, freed>> /\ SameVideoButEvents

(* The user closes the window, or the device disconnects.                  *)
Outside(type) ==
    /\ type \in setup.user
    /\ ui \in {"loop", "window"}
    /\ \A i \in DOMAIN events : events[i].type # type
    /\ Post(Event(type))
    /\ UNCHANGED <<slot, screenVars>> /\ SameVideoButEvents

ScreenNext ==
    \/ VideoNext /\ UNCHANGED screenVars
    \/ OpenWindow \/ NewFrame \/ WindowRestored \/ WindowResized \/ Quit \/ Disconnected
    \/ IconLoaded \/ DisconnectionOver \/ OtherEvent \/ DiscLoad \/ DiscEnds
    \/ Hide \/ JoinDemuxer \/ JoinScreen \/ DestroyScreen
    \/ \E paused \in BOOLEAN : SetPaused(paused)
    \/ \E transform \in {1, 3, 4, 6} : SetOrientation(transform)
    \/ ResizeToFit \/ SwitchCounter \/ CounterThread
    \/ \E flag \in {"fullscreen", "maximized"} : WindowChanges(flag)
    \/ \E size \in Sizes : UserResizes(size)
    \/ \E type \in {"quit", "disconnected"} : Outside(type)

--------------------------------------------------------------------------------
(* Properties                                                              *)

ScreenTypeOK ==
    /\ VideoTypeOK
    /\ ui \in {"loop", "window", "hide", "joinDemuxer", "join", "destroy", "end"}
    /\ scr.orientation \in 0..7
    /\ scr.request # <<>> => setup.flex          \* screen.c:319
    /\ counter.thread \in {"none", "running", "waiting", "ended"}
    /\ disc.thread \in {"none", "loading", "waiting", "ended"}
    /\ scr.frame # <<>> => scr.size # <<0, 0>>

FrameEvents == {i \in DOMAIN events : events[i].type = "frame"}

(* The frames reach the screen one by one in the order of the stream,      *)
(* through the regulator or at once; while the loop runs, a frame in the   *)
(* slot is announced exactly once, and a frame event finds a frame (the    *)
(* assertion of sc_frame_buffer_consume()), after the window was opened.   *)
FramesReachTheScreen ==
    /\ InOrder(<<scr.frame, scr.resume, slot.frame, ToScreen("regulator"), vr.held, vr.queue,
                 ToScreen("decoder")>>)
    /\ LET posting == {p \in Producers : Next_(p, "post")} IN
       ui = "loop" =>
          /\ Cardinality(FrameEvents) + Cardinality(posting) <= 1
          /\ FrameEvents # {} => slot.frame # <<>>
          /\ slot.frame # <<>> => \/ FrameEvents # {} \/ posting # {}
                                  \/ vr.stopped \/ decoder # "running"
          /\ \A i \in FrameEvents : scr.shown \/ \E j \in 1..i : events[j].type = "open"
    /\ SinksWakeUp

(* Whatever the window, the orientation and the size of the video went     *)
(* through, once it is windowed and its events are handled, it has the     *)
(* ratio of the content.                                                   *)
WindowFitsContent ==
    ui = "loop" /\ scr.shown /\ IsWindowed /\ ~setup.flex
    /\ (\A i \in DOMAIN events : events[i].type # "restored")
    => window.fit = scr.content /\ ~scr.pending

(* The data posted with an event is freed, by the handler or at the end.   *)
PostedDataIsFreed ==
    ui = "end" => /\ decoder = "ended" => "open" \in freed
                  /\ disc.thread \in {"none", "ended"}
                  /\ \A i \in DOMAIN events : events[i].type \in {"open", "icon"}
                                                => events[i].type \in freed

(* A shortcut turns or flips what is displayed, not the frame: the point   *)
(* displayed at (x, y) comes from where the transformation took it.        *)
RotatesTheDisplay ==
    \A source \in 0..7, transform \in {1, 3, 4, 6} :
       LET w == 2  h == 3          \* the content after the transformation
           before == IF IsSwap(transform) THEN <<h, w>> ELSE <<w, h>>
       IN \A x \in 0..w, y \in 0..h :
            LET p == ToFrame(transform, w, h, x, y)
            IN ToFrame(Apply(source, transform), w, h, x, y)
                 = ToFrame(source, before[1], before[2], p[1], p[2])

(* sc_fps_counter_join() (fps_counter.c:158): whoever joins the thread has *)
(* interrupted it.                                                         *)
CounterInterruptedAtJoin == ui = "join" /\ counter.created => counter.interrupted
================================================================================
