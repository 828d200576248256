-------------------------------- MODULE Capture --------------------------------
(***************************************************************************)
(* The video on the device: the thread that captures and encodes a display *)
(* or a camera, session after session (SurfaceEncoder.java), and everyone  *)
(* who may ask it to start again or to stop: the monitor that compares the *)
(* display with the one of the session (DisplayMonitor.java), the client,  *)
(* the camera, the main thread, through CaptureControl.java.  A new        *)
(* virtual display may also be resized by the client, after a delay        *)
(* (DisplayResizeDebouncer.java, DisplayPropertiesTracker.java).           *)
(*                                                                         *)
(* The size and rotation of a display are one value.  Filters, surfaces    *)
(* and the content of the frames are left out; the display, the camera and *)
(* the codec are external.                                                 *)
(***************************************************************************)
EXTENDS Integers, Sequences, FiniteSets

CONSTANTS
    CaptureSetups,   \* [source, downsize, constrained, fixed]: what is captured,
                     \* downsizeOnError, whether the encoder has constraints that are not
                     \* ignored, whether the size of the camera is given; with the bounds
                     \* [fails, changes, resets, resizes]: whether the encoder may fail,
                     \* how many times the display changes by itself, the client resets
                     \* the video or resizes the display
    Property,        \* display properties (DisplayProperties)
    Initial,         \* those of the display at the start
    MaxErrors,       \* MAX_CONSECUTIVE_ERRORS
    MaxLevel         \* how many sizes of MAX_SIZE_FALLBACK are smaller than the first

ASSUME CaptureOK ==
    /\ Initial \in Property
    /\ MaxErrors \in Nat \ {0} /\ MaxLevel \in Nat
    /\ \A s \in CaptureSetups :
          /\ s.source \in {"screen", "new", "camera"}
          /\ {s.downsize, s.constrained, s.fixed, s.fails} \subseteq BOOLEAN
          /\ {s.changes, s.resets, s.resizes} \subseteq Nat

VARIABLES
    source,      \* the setup
    display,     \* external: the properties of the display now
    camera,      \* external: whether the camera is connected
    monitor,     \* DisplayMonitor: [on, events, props, pc, read]; <<>> for null
    reasons,     \* CaptureControl.reset
    codec,       \* CaptureControl.runningMediaCodec: "none", "running", or "eos" signalled
    video,       \* the thread: [pc, consumed, retained, read, alive, created]
    encoder,     \* SurfaceEncoder: [first, errors, capped, level]
    session,     \* the last session written to the client: <<>>, or [props, client]
    resize,      \* debouncer and tracker: [request, taken, pending, asked]
    stopping,    \* main thread: "no", "set" (stopped is), "yes" (the reset is, too)
    raced,       \* history: the monitor compared with a session not yet known to it
    left         \* what remains of the bounds

captureVars == <<source, display, camera, monitor, reasons, codec, video, encoder, session,
                 resize, stopping, raced, left>>

CaptureInit ==
    /\ source \in CaptureSetups
    /\ display = Initial /\ camera = TRUE
    /\ monitor = [on |-> FALSE, events |-> 0, props |-> <<>>, pc |-> "idle", read |-> <<>>]
    /\ reasons = {} /\ codec = "none"
    /\ video = [pc |-> "init", consumed |-> {}, retained |-> {}, read |-> Initial,
                alive |-> TRUE, created |-> FALSE]
    /\ encoder = [first |-> FALSE, errors |-> 0, capped |-> FALSE, level |-> MaxLevel]
    /\ session = <<>>
    /\ resize = [request |-> <<>>, taken |-> <<>>, pending |-> <<>>, asked |-> {}]
    /\ stopping = "no" /\ raced = FALSE
    /\ left = [changes |-> source.changes, resets |-> source.resets,
               resizes |-> source.resizes]

outside == <<source, display, camera, stopping, left>>   \* not written by the video thread
Ended == video.pc = "ended"

--------------------------------------------------------------------------------
(* CaptureControl                                                          *)

(* reset(): the codec that runs is told that its input is over.            *)
Reset(reason) ==
    /\ reasons' = reasons \cup {reason}
    /\ codec' = IF codec = "none" THEN "none" ELSE "eos"

--------------------------------------------------------------------------------
(* The video thread: SurfaceEncoder.streamCapture()                        *)

Video(pc) == video.pc = pc
Goto(pc) == video' = [video EXCEPT !.pc = pc]
ButVideo == UNCHANGED <<outside, monitor, reasons, codec, encoder, session, resize, raced>>

(* capture.init(): it may fail, and a ScreenCapture starts its monitor.    *)
InitCapture ==
    /\ Video("init")
    /\ \/ Goto("ended") /\ UNCHANGED monitor
       \/ Goto("loop") /\ monitor' = [monitor EXCEPT !.on = source.source = "screen"]
    /\ UNCHANGED <<outside, reasons, codec, encoder, session, resize, raced>>

(* consumeReset(), and the reasons of an encoding that failed.             *)
ConsumeReset ==
    /\ Video("loop")
    /\ reasons' = {}
    /\ video' = IF "terminated" \in reasons THEN [video EXCEPT !.pc = "release"]
                ELSE [video EXCEPT !.pc = "prepare", !.consumed = reasons \cup video.retained,
                                   !.retained = {}]
    /\ UNCHANGED <<outside, monitor, codec, encoder, session, resize, raced>>

(* capture.prepare(): the display is read (it may be gone); a new display  *)
(* that does not exist yet is the one that was asked for.                  *)
Prepare ==
    /\ Video("prepare")
    /\ \/ video' = [video EXCEPT !.pc = IF source.source = "screen" THEN "set" ELSE "start",
                                 !.read = display]
       \/ ~(source.source = "new" /\ ~video.created) /\ Goto("release")
    /\ monitor' = IF source.source = "new" /\ ~video.created
                  THEN [monitor EXCEPT !.props = <<display>>] ELSE monitor
    /\ UNCHANGED <<outside, reasons, codec, encoder, session, resize, raced>>

(* Mutation: the reasons are consumed when the display has been read.      *)
SetSessionDisplayProperties_Consumes ==
    /\ Video("set") /\ Goto("start")
    /\ monitor' = [monitor EXCEPT !.props = <<video.read>>]
    /\ reasons' = {}
    /\ UNCHANGED <<outside, codec, encoder, session, resize, raced>>

(* ScreenCapture then tells its monitor.                                   *)
SetSessionDisplayProperties ==
    /\ Video("set") /\ Goto("start")
    /\ monitor' = [monitor EXCEPT !.props = <<video.read>>]
    /\ UNCHANGED <<outside, reasons, codec, encoder, session, resize, raced>>

(* Mutation: nothing counts the attempts.                                  *)
PrepareRetry_Forever(enc) == {enc}

(* prepareRetry(): the encoder as it is for the next attempt, if any.  The *)
(* constraints of the encoder are tried once, then smaller sizes.          *)
PrepareRetry(enc) ==
    LET e == IF enc.first THEN [enc EXCEPT !.errors = @ + 1] ELSE enc IN
    IF enc.first /\ e.errors < MaxErrors THEN {e}
    ELSE IF ~source.downsize \/ source.fixed THEN {}
    ELSE IF source.constrained /\ ~e.capped THEN {[e EXCEPT !.capped = TRUE]}
    ELSE IF e.errors < MaxErrors /\ e.level > 0 THEN {[e EXCEPT !.level = @ - 1]}
    ELSE {}

(* A failure is answered by another attempt, with the same reasons, or by  *)
(* the end.                                                                *)
Retry(v) ==
    \/ \E e \in PrepareRetry(encoder) :
          /\ encoder' = e
          /\ video' = [v EXCEPT !.pc = "finish", !.retained = v.consumed, !.alive = TRUE]
    \/ /\ PrepareRetry(encoder) = {}
       /\ video' = [v EXCEPT !.pc = "finish", !.alive = FALSE]
       /\ UNCHANGED encoder

(* The codec is configured, the capture and the codec start; a new display *)
(* is created, with its monitor, and stays if what follows fails: that it  *)
(* cannot be created is not retried.                                       *)
StartEncoding ==
    /\ Video("start")
    /\ \/ /\ video' = [video EXCEPT !.pc = "publish", !.created = TRUE]
          /\ UNCHANGED encoder
       \/ /\ source.fails
          /\ \E v \in {video, [video EXCEPT !.created = TRUE]} : Retry(v)
       \/ /\ source.fails /\ source.source = "new" /\ ~video.created
          /\ video' = [video EXCEPT !.pc = "finish", !.alive = FALSE]
          /\ UNCHANGED encoder
    /\ monitor' = IF source.source = "new" THEN [monitor EXCEPT !.on = video'.created]
                  ELSE monitor
    /\ UNCHANGED <<outside, reasons, codec, session, resize, raced>>

(* setRunningMediaCodec(mediaCodec)                                        *)
Publish ==
    /\ Video("publish") /\ Goto("check")
    /\ codec' = "running"
    /\ UNCHANGED <<outside, monitor, reasons, encoder, session, resize, raced>>

(* stopped.get()                                                           *)
CheckStopped ==
    /\ Video("check") /\ ButVideo
    /\ IF stopping = "no" THEN Goto("session")
       ELSE video' = [video EXCEPT !.pc = "finish", !.alive = FALSE]

(* Mutation: a resize by the client hides what the display did meanwhile.  *)
IsClientResize_Any(consumed) == "resized" \in consumed
IsClientResize(consumed) == "resized" \in consumed /\ "display" \notin consumed

(* Mutation: what was asked since the loop began is not looked at.         *)
WriteSession_Unchecked ==
    /\ Video("session") /\ Goto("encode")
    /\ session' = [props |-> video.read, client |-> IsClientResize(video.consumed)]
    /\ UNCHANGED <<outside, monitor, reasons, codec, encoder, resize, raced>>

(* Nothing was asked since: the session is announced, and encoded.         *)
WriteSession ==
    /\ Video("session")
    /\ IF reasons = {}
       THEN /\ Goto("encode")
            /\ session' = [props |-> video.read, client |-> IsClientResize(video.consumed)]
       ELSE Goto("alive") /\ UNCHANGED session
    /\ UNCHANGED <<outside, monitor, reasons, codec, encoder, resize, raced>>

(* encode(): a frame, the end of the stream, a failure of the codec; or    *)
(* the client has closed the socket.                                       *)
EncodeFrame ==
    /\ Video("encode") /\ codec = "running"
    /\ encoder' = [encoder EXCEPT !.first = TRUE, !.errors = 0]
    /\ UNCHANGED <<outside, monitor, reasons, codec, video, session, resize, raced>>
EncodeEnds == Video("encode") /\ codec = "eos" /\ Goto("alive") /\ ButVideo
EncodeFails ==
    /\ Video("encode") /\ source.fails /\ Retry(video)
    /\ UNCHANGED <<outside, monitor, reasons, codec, session, resize, raced>>
BrokenPipe ==
    /\ Video("session") \/ Video("encode")
    /\ ButVideo
    /\ video' = [video EXCEPT !.pc = "finish", !.alive = FALSE]

(* alive = !stopped.get() && !capture.isClosed()                           *)
CheckAlive ==
    /\ Video("alive") /\ ButVideo
    /\ video' = [video EXCEPT !.pc = "finish", !.alive = stopping = "no" /\ camera]

(* finally: the codec is not published any more, and everything is stopped. *)
Finish ==
    /\ Video("finish") /\ codec' = "none"
    /\ Goto(IF video.alive THEN "loop" ELSE "release")
    /\ UNCHANGED <<outside, monitor, reasons, encoder, session, resize, raced>>

(* capture.release(): the monitor and the debouncer are stopped.           *)
Release ==
    /\ Video("release") /\ Goto("ended")
    /\ monitor' = [monitor EXCEPT !.on = FALSE]
    /\ resize' = [resize EXCEPT !.request = <<>>]
    /\ UNCHANGED <<outside, reasons, codec, encoder, session, raced>>

VideoThread == InitCapture \/ ConsumeReset \/ Prepare \/ SetSessionDisplayProperties
               \/ StartEncoding \/ Publish \/ CheckStopped \/ WriteSession
               \/ EncodeEnds \/ CheckAlive \/ Finish \/ Release
Encoding == EncodeFrame \/ EncodeFails \/ BrokenPipe

--------------------------------------------------------------------------------
(* The display, and its monitor                                            *)

Exists == source.source = "screen" \/ (source.source = "new" /\ video.created /\ ~Ended)
Notified == IF monitor.on THEN [monitor EXCEPT !.events = @ + 1] ELSE monitor

(* External: the display is rotated, folded, resized by the system.        *)
DisplayChanges(p) ==
    /\ Exists /\ p # display /\ left.changes > 0
    /\ display' = p
    /\ left' = [left EXCEPT !.changes = @ - 1]
    /\ monitor' = Notified
    /\ UNCHANGED <<source, camera, reasons, codec, video, encoder, session, resize, stopping, raced>>

ButMonitor == UNCHANGED <<outside, reasons, codec, video, encoder, session, resize>>

(* checkDisplayPropertiesChanged(): the display is read (it may fail)...   *)
MonitorRead ==
    /\ monitor.pc = "idle" /\ monitor.on /\ monitor.events > 0
    /\ \E read \in {<<display>>, <<>>} :
          monitor' = [monitor EXCEPT !.pc = "exchange", !.events = @ - 1, !.read = read]
    /\ UNCHANGED raced /\ ButMonitor

(* ... exchanged with what the monitor knows, and what changed is told.    *)
(* It is nothing when the display is back to what the monitor knows, while *)
(* the thread has read the display in between: ScreenCapture has not told  *)
(* its monitor yet, NewDisplayCapture never does.                          *)
MonitorExchange ==
    LET changed == monitor.read = <<>> \/ monitor.read # monitor.props
        behind == /\ <<video.read>> # monitor.read
                  /\ IF source.source = "screen" THEN Video("set")
                     ELSE ~Video("loop") /\ ~Video("prepare")
    IN
    /\ monitor.pc = "exchange"
    /\ monitor' = [monitor EXCEPT !.props = monitor.read,
                                  !.pc = IF changed THEN "notify" ELSE "idle"]
    /\ raced' = (raced \/ (~changed /\ behind))
    /\ ButMonitor

(* DisplayPropertiesTracker.onChanged(): a change that the client asked    *)
(* for, unless it was too long ago.                                        *)
Tracked(pending, props) == {i \in DOMAIN pending : <<pending[i]>> = props}
OnChanged ==
    \E expired \in 0..Len(resize.pending) :
        LET pending == SubSeq(resize.pending, expired + 1, Len(resize.pending))
            found == Tracked(pending, monitor.read)
        IN \/ \E first \in found :
                 /\ \A i \in found : first <= i
                 /\ resize' = [resize EXCEPT !.pending =
                                 SubSeq(pending, first + 1, Len(pending))]
                 /\ Reset("resized")
           \/ /\ found = {}
              /\ resize' = [resize EXCEPT !.pending = pending, !.request = <<>>]
              /\ Reset("display")

(* The listener.                                                           *)
MonitorNotify ==
    /\ monitor.pc = "notify" /\ monitor' = [monitor EXCEPT !.pc = "idle"]
    /\ IF source.source = "new" THEN OnChanged ELSE Reset("display") /\ UNCHANGED resize
    /\ UNCHANGED <<outside, video, encoder, session, raced>>

MonitorThread == MonitorRead \/ MonitorExchange \/ MonitorNotify

--------------------------------------------------------------------------------
(* The client (its window is shown with the first session), the debouncer, *)
(* the camera and the main thread                                          *)

Unresized == UNCHANGED <<display, monitor, resize>>
Unwatched == UNCHANGED <<video, encoder, session, raced>>

ClientResets ==
    /\ session # <<>> /\ left.resets > 0
    /\ left' = [left EXCEPT !.resets = @ - 1]
    /\ Reset("reset")
    /\ Unresized /\ Unwatched /\ UNCHANGED <<source, camera, stopping>>

RequestResize(p) ==
    /\ source.source = "new" /\ session # <<>> /\ ~Ended /\ left.resizes > 0
    /\ left' = [left EXCEPT !.resizes = @ - 1]
    /\ resize' = [resize EXCEPT !.request = <<p>>, !.asked = @ \cup {p}]
    /\ Unwatched
    /\ UNCHANGED <<source, display, camera, monitor, reasons, codec, stopping>>

(* debounce(): the deadline has passed...                                  *)
TakeRequest ==
    /\ resize.request # <<>> /\ resize.taken = <<>>
    /\ resize' = [resize EXCEPT !.taken = resize.request, !.request = <<>>]
    /\ Unwatched /\ UNCHANGED <<outside, monitor, reasons, codec>>

(* ... triggerResize(): the display, if it is still there, is resized.     *)
TriggerResize ==
    /\ resize.taken # <<>>
    /\ resize' = [resize EXCEPT !.taken = <<>>,
                                !.pending = IF Exists THEN @ \o resize.taken ELSE @]
    /\ IF Exists /\ resize.taken # <<display>>
       THEN display' = resize.taken[1] /\ monitor' = Notified
       ELSE UNCHANGED <<display, monitor>>
    /\ Unwatched /\ UNCHANGED <<source, camera, stopping, left, reasons, codec>>

(* External: the camera is disconnected, or cannot be configured.          *)
CameraCloses ==
    /\ source.source = "camera" /\ camera /\ ~Video("init")
    /\ camera' = FALSE /\ Reset("terminated")
    /\ Unresized /\ Unwatched /\ UNCHANGED <<source, stopping, left>>

(* stop(): stopped is set, then the capture is reset.                      *)
SetStopped ==
    /\ stopping = "no" /\ stopping' = "set"
    /\ Unresized /\ Unwatched /\ UNCHANGED <<source, camera, left, reasons, codec>>
StopCapture ==
    /\ stopping = "set" /\ stopping' = "yes"
    /\ Reset("terminated")
    /\ Unresized /\ Unwatched /\ UNCHANGED <<source, camera, left>>

Debouncer == TakeRequest \/ TriggerResize

CaptureNext ==
    \/ VideoThread \/ Encoding \/ MonitorThread \/ Debouncer
    \/ \E p \in Property : DisplayChanges(p) \/ RequestResize(p)
    \/ ClientResets \/ CameraCloses \/ SetStopped \/ StopCapture

--------------------------------------------------------------------------------
CaptureTypeOK ==
    /\ display \in Property /\ reasons \subseteq {"terminated", "display", "reset", "resized"}
    /\ codec \in {"none", "running", "eos"}
    /\ monitor.events \in 0..(source.changes + source.resizes)
    /\ encoder.errors \in 0..MaxErrors /\ encoder.level \in 0..MaxLevel
    /\ resize.asked \subseteq Property

(* Nobody has anything left to tell the thread that encodes.               *)
Quiet == /\ Video("encode") /\ codec = "running" /\ reasons = {}
         /\ monitor.events = 0 /\ monitor.pc = "idle"

(* Once everyone has seen the last change, the client has been told of the *)
(* display as it is, and what it is told to be its own resize is a size it *)
(* asked for (doc/develop.md:172, "on device rotation (or folding), the    *)
(* encoding session is reset and restarted") -- but for a display that     *)
(* changed and changed back while the thread was preparing the session.    *)
SessionIsTruthful ==
    Quiet /\ source.source # "camera" /\ ~raced =>
        /\ session.props = display
        /\ session.client => session.props \in resize.asked

(* A reset is never forgotten, whenever it comes: the capture starts again *)
(* or ends, in a bounded number of attempts; and a stop ends it.           *)
ResetIsAnswered ==
    /\ (reasons # {}) ~> (reasons = {} \/ Ended)
    /\ Video("prepare") ~> (Video("encode") \/ Ended)
    /\ (stopping = "yes") ~> Ended
================================================================================
