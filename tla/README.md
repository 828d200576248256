# scrcpy-keymapper: a verification development

scrcpy-keymapper is a fork of scrcpy: a client in C (`src/scrcpy-master/app`)
mirrors an Android device and controls it through a server in Java
(`src/scrcpy-master/server`). The fork adds a keymapper (keys and mouse
buttons become touches), a control panel and a launcher in Python
(`src/scrcpy_gui.py`, `src/scrcpy_launcher.py`).

This directory holds TLA+ specifications of its parts, the TLC runs that check
them on small instances, and TLAPS proofs, for every instance, of every type
invariant and safety invariant that the passing runs check, and of the refinement
of the control channel. `PROJECT.json` lists the components, the
runs, the mutants that show that each property can fail, the lines of code
behind each definition, the hazards, the findings and the theorems.

To check a run: `tlc -config X.cfg M`, with the module and the configuration
that `PROJECT.json` gives. To check the proofs: `tlapm ChannelsProofs.tla`,
and the same for every other `*Proofs` module. In the modules, a definition
named `Action_Word` preceded by a comment "Mutation: ..." is not part of any
specification: it is a plausible bug, to be put in place of `Action` to see
the property fail.

## 1. Inventory

The paths below are relative to `src/scrcpy-master/app/src` (client) or to
`src/scrcpy-master/server/src/main/java/com/genymobile/scrcpy` (server).

| Component | State | Operations | Interacts with | What is hard | What makes it correct |
|---|---|---|---|---|---|
| Controller (`controller.c`) | queue, resize slot, `stopped`, thread | push, resize, stop, join | every thread pushes; writes the control socket | conditional signals, bounded queue with a reserve, blocking send | no lost wakeup, order, reserve kept for what must not be dropped, stop terminates |
| Keymapper (`keymapper.c`, hooks in `input_manager.c`) | bindings, `edit_mode`, `fps_mode`, `aim_finger_down`, `dragging`, `selected`, window | key, button and motion hooks, edit, save, load, toggles | pushes touches to the controller, whose refusals it ignores | lookup at press and again at release, flags that mirror the device by hand | fingers on the device are those of the held keys; the file round-trips |
| Keymap IPC (`km_ipc_timer_cb`, `scrcpy_gui.py`) | `keymap.cfg`, `keymap.cmd`, `last_cfg_time`, `self.mappings` | poll, read, remove; read, edit, write, send | two programs, three threads, through files | torn reads, times of one second, read then remove | commands in order, the client settles on what the file contains |
| Session (`scrcpy.c`, `events.c`, `main.c`) | which components are created and started; pending events and runnables | create one by one, event loop, stop all, join all, destroy all | every component | each creation may fail; order of stops, joins and destructions; blocked threads | it terminates; what was created is released, once, and not used afterwards |
| File pusher (`file_pusher.c`, `util/intr.c`, `adb/adb.c`) | queue, `stopped`, published process | request, stop, join | adb processes, the controller | a process killed while it ends | no request forgotten, only live processes are killed |
| Server thread (`server.c`, `adb/adb_tunnel.c`) | sockets, tunnel, process, `stopped` | select device, push server, tunnel, connect, watchdog | adb, device | stop at any step of the connection | the main thread is answered, stop terminates, sockets, tunnels and the device process are not leaked |
| Receiver, acksync (`receiver.c`, `util/acksync.c`, `device_msg.c`) | buffer, last ack | clipboard, ack, UHID output | main thread, AOA | ack after its time limit, ack dropped by the device | a paste does not overtake its clipboard |
| AOA, HID, UHID (`usb/`, `hid/`, `uhid/`) | event queue, gamepad slots, key states | open, input, close | controller, libusb, receiver | slot limits, hotplug, inputs dropped at the limit, opens that fail | a report only reaches the device opened for its gamepad; the thread ends with nothing registered |
| Input manager, SDK keyboard and mouse (`input_manager.c`, `keyboard_sdk.c`, `mouse_sdk.c`, `mouse_capture.c`) | buttons, virtual finger, repeat count, sequence | key, text, mouse, wheel, touch events | controller, screen | shortcuts that consume half of a press, refused messages | buttons and finger on the device are those thought to be down; a character arrives once |
| Demuxers, merger, decoder, sinks (`demuxer.c`, `packet_merger.c`, `decoder.c`, `trait/`) | stream session, pending config packet | open, push, close | sockets, recorder, screen | failure of one sink among several | every opened sink is closed once |
| Video regulator, frame buffer, V4L2 (`video_regulator.c`, `frame_buffer.c`, `v4l2_sink.c`) | delayed queue, pending frame | push, consume | decoder, screen | timed waits, one-slot buffer | no thread sleeps on work; each frame in the slot is announced once |
| Audio regulator, audio buffer (`audio_regulator.c`, `util/audiobuf.c`, `audio_player.c`) | ring, played, mutex | write, read, drop | decoder, audio thread | lock-free, wrap-around | each sample is played once, in order, or dropped on purpose |
| Recorder (`recorder.c`) | two packet queues, previous packets, origin and last times | open, disable, push, close, stop, join | demuxers, the muxer | two producers, headers, packets held back, stop at any step | every packet accepted is written once, decodable and in order; it ends once stopped |
| Screen (`screen.c`, `texture.c`, `fps_counter.c`, `disconnect.c`) | size, orientation, pause, slot of the frame, window, counter | session and frame events, shortcuts, window events, disconnection | decoder, input manager | events of several threads in one queue, sizes that change while maximized | frames are shown in order, the window fits the content, what was posted is freed |
| Containers, time (`util/vecdeque.h`, `util/vector.h`, `util/timeout.c`, `clock.c`) | ring, deadline | push, pop, grow; start, stop | all | wrap-around while growing; fields set after the thread starts | a queue is a sequence |
| OTG (`usb/scrcpy_otg.c`, `usb/usb.c`) | USB device | events | libusb | hotplug | as AOA |
| Options (`cli.c`, `options.c`; `Options.java`) | `struct scrcpy_options` | getopt, defaults, checks, parameters of the server | session, device | one long sequence of defaults and checks over a hundred options | an accepted command line satisfies what the session assumes and means the same on the device |
| Launcher (`scrcpy_launcher.py`) | none between clicks | build a command line, start | client | - | - |
| Device control (`control/Controller`, `PointersState`, `UhidManager`, `DeviceMessageSender`) | pointers, UHID devices, message queue | inject, open, close, send | the client's messages | local ids, at most ten pointers, full message queue | gestures begin and end once with the pointers that are down |
| Device capture (`video/`, `audio/`, `display/`, `opengl/`) | reset reasons, codec, session, what the monitor and the tracker last saw | encode, reset, resize, stop | Android, client | a reset during a start, a display that changes while it is read | a reset is never lost; the session announced is that of the display |
| Device start and clean up (`Server`, `CleanUp`, `device/`) | settings to restore | change, restore | Android | server killed at any time | settings are as before |
| Wrappers, workarounds | none | reflection | Android | not in the repository | - |

The touches of the keymapper travel: input event on the main thread ->
`sc_controller_push_msg()` -> queue -> controller thread -> control socket ->
`Controller.java` on the device -> `PointersState` -> injected events. What
comes back (clipboard, acknowledgements, UHID output) goes: device -> receiver
thread -> runnable on the main thread, or acksync. Video and audio come through
two demuxer threads to decoder, recorder and screen. The panel only shares two
files with the client.

## 2. Modules

| Module | Models | Runs or proofs |
|---|---|---|
| `ControlChannel` | what the client promises about control messages (abstract) | through `controller` |
| `Controller` | `controller.c`, its queue, thread, socket | `controller` |
| `KeymapConfig` | lines, bindings, load, save, lookups (pure operators) | through `Keymapper` |
| `Keymapper` | engine and hooks | `keymapper`, `keymapper_mouse` |
| `KeymapperProofs` | theorems about `KeymapConfig` and `Keymapper` | tlapm |
| `KeymapIPC` | panel, timer thread, main thread, two files | `keymap_ipc` |
| `ChannelsProofs` | theorems about `Controller` and `KeymapIPC` | tlapm |
| `ServerStart` | the server thread: adb, tunnel, sockets, interruption, server process | through `Startup` |
| `Startup` | the main thread from the start of `scrcpy()` to its return; extends `ServerStart` | `startup` |
| `StartupProofs` | theorems about `ServerStart` and `Startup` | tlapm |
| `FilePusher` | pusher thread, adb process, interruption | through `Session` |
| `Session` | the end of a session with all threads running; extends `FilePusher` | `session`, `session_destroy` |
| `SessionProofs` | theorems about `Session` and `FilePusher` | tlapm |
| `Recorder` | recorder thread, its two sinks, the demuxers and the merging of config packets | `recorder` |
| `RecorderProofs` | theorems about `Recorder` | tlapm |
| `Options` | the command line, its defaults and checks, the parameters of the server | `client` |
| `Video` | decoder, frame sources and sinks, regulator, slot of the frame, V4L2 | through `Screen` |
| `Screen` | the screen on the main thread, frame counter, disconnection window; extends `Video` | `client`, `client_counter` |
| `Audio` | the audio ring, without a lock, and the regulator | `client` |
| `Input` | input manager, SDK keyboard and mouse, mouse capture | `client` |
| `Hid` | HID devices over AOA and UHID, acksync, receiver, the device's answers | `client` |
| `PlaybackProofs` | invariants of `Video`, `Screen` and `Audio` | tlapm |
| `ClientProofs` | invariants of `Input`, `Hid` and `Options`, theorems about `MCClient` | tlapm |
| `Touch` | touches on the device: pointers and injected gestures | `device` |
| `Capture` | video on the device: encoder, monitor, resets, resizes | `device` |
| `CleanUp` | settings changed on the device and restored by another process | `device` |
| `DeviceProofs` | theorems about `Touch`, `Capture` and `CleanUp` | tlapm |
| `MCController`, `MCKeymapper`, `MCSession`, `MCRecorder`, `MCStartup` | small instances | |
| `MCClient`, `MCDevice` | small instances of the parts of the client's main thread, and of the server | |

`MCClient` and `MCDevice` put side by side parts that share no state (what
joins them is in the modules that extend one another, `Video` and `Screen`, or
in `Hid`, which has both ends of the control socket). A behaviour of theirs
therefore follows one part, the one in `focus`: interleaving two parts would
repeat the states of each and no property relates them.

**Controller.** Every critical section under `controller->mutex` is one
action: `PushMsg` (two branches, below and at the limit), `ResizeDisplay`,
`Stop`, and for the thread the loop test (`WaitForMsg`, `ObserveStop`), the
choice of what to send (`TakeSize`, `TakeMsg`) and, without the lock, the send
(`Send`, `SendFails`). `sc_cond_wait` may wake up spuriously. The socket is a
counter of messages that fit in its buffers: the thread blocks when the device
does not read, until the device closes the socket or the server thread
interrupts it. The histories `accepted`, `taken`, `requests` and `lastSize`
have no counterpart in the code. `ControlChannel` is what callers may rely on;
the refinement maps `queue`, `taken`, the slot, and "stopped or thread ended"
for closed. The capacity of the vecdeque is modelled because a push below the
limit calls the variant that asserts room. Allocation failure in
`sc_vecdeque_push` is a refused push: no change.

**KeymapConfig, Keymapper.** A line of the file is a record of its type, the
code of the key or button it names and a position; the conversions keep what
they lose: an unknown key name has no name to be saved under, an unknown button
is saved as "left", `AIM` and the types no hook looks at are saved with a name
that is no key. The file always exists. `Keymapper` has one action per event:
key down, repeat, up; F12, F10, F5, DELETE and, for the overlay, F11 and the
page keys; the commands; the four mouse
events of edit mode; buttons, motion and aim motion. `Push` is the call of
`sc_controller_push_msg`, which may refuse any touch; `down` is what the
accepted touches, in order, leave down on the device (the controller run and
its theorems are the reason why the order may be assumed). The mouse is one of
these fingers: its clicks and motions that no hook takes are touches of
`MousePid`, down as long as a button is reported. A file may bind the
keymapper's own shortcuts, whose names `km_name_to_keycode` knows: their first
press returns before the lookup (`Shortcuts`), a repetition of F5 or F10 to F12
does not, and no release does, so that such a key has its finger down from its
first repetition (`KeyDown`, `KeyRepeat`, `KeyUp`). Ids are relative to
`SC_POINTER_ID_GENERIC_FINGER`, that is -2: those of the lines count from 1, so
that the first is the mouse's. Left out: drawing,
opacity and visibility of the overlay, the pinch-to-zoom finger and the
shortcuts of scrcpy (both in `Input`), and input while disconnected or without
control.

**KeymapIPC.** The panel's writes are three system calls (open truncates,
close makes the content visible), `send_cmd` is open, flush, close; the timer's
callback is three (stat of the configuration, read of the command, remove); the
main thread runs tasks one by one and saves in two. Content is two version
numbers, of the positions (edited in the client) and of the keys (edited in the
panel), so that a lost or torn write is visible. `removesOpenFile`, chosen in
the initial state, tells POSIX from Windows.

**ServerStart, Startup.** The server thread follows `run_server()`: select a
device, switch it to TCP/IP, push, open a reverse or a forward tunnel, execute
the server, connect each socket, close the tunnel, then wait for the stop,
interrupt the sockets, watch for a second, kill, reap. Each blocking call is an
adb command or a socket operation that is registered in `server->intr` when it
begins (`call = "blocked"`); it returns by itself, or because it is
interrupted, by `sc_server_stop()` on the main thread or by the observer when
the process of the server ends. What the adb daemon keeps (`adbTunnels`), the
device's own connections and the adb commands that were left running are
external state. `Startup` has the main thread: it creates what the parameters
ask for in the order of `scrcpy()` (`Order`), each creation may fail and then
goes to the label `end`, whose tests are translated flag by flag; `res` counts
what is held and released.

**FilePusher, Session.** `Session` starts with everything running and follows
`scrcpy()` from the event loop to `main()`'s return, statement by statement
where the order of the stops, joins and destructions matters. The other threads
are reduced to where they can block and to what they use: the controller sends;
the receiver reads, acknowledges (acksync) or posts a runnable; the demuxer
reads and pushes a frame to the screen; the keymapper's timer posts; the server
thread waits, interrupts the sockets, watches for a second, kills, reaps, while
the observer waits for the same process without reaping it, so that the end of
the process and what the watchdog believes of it are two steps.
`FilePusher` is complete: queue, thread, adb process from start to close, and
the `sc_intr` through which it is killed. The recorder, V4L2, the time limit
and AOA are left out of `Session` (they are in `Startup`, where nothing blocks
but the server thread).

**Recorder.** The two demuxers are processes that open the sink of the recorder
(or do not, or disable it), push what the device sends, and close it; another
sink of theirs may fail at any time. The thread of the recorder opens the file,
waits for the header (`ProcessHeader`), then alternates `TakePackets`, with the
mutex, and `ProcessPackets`, without, where `stopped` is read again; then the
trailer, the close of the file and `End`. `Wait` is the wait on the condition
in either loop; whoever changes what it waits for signals. A packet is its time
and the version of the config data it contains; `needs`, the version it must be
decoded with, and `accepted` are histories. Every call of the muxer may fail,
and `outcome` keeps why the recording ended. Adding a stream to a context that
does not exist, is freed, or is used by the other thread without the mutex is
undefined: the process crashes (`crashed`, nothing happens any more) or goes
on. Times are scaled with the rounding of `av_rescale_q`. Left out: metadata,
orientation, durations.

**Options.** `opts` is `struct scrcpy_options`, with the names of its fields.
`ReadArgument` takes one argument as `getopt_long()` gives it: each option has
the parser that the code gives it, with its bounds, and `Changed` is what it
leaves. What `parse_args_with_getopt()` does after the loop is one operator per
block (`AudioBuffer`, `InputModes`, `V4l2Wrong`, ...), applied in the order of
the source, since a later block reads what an earlier one defaulted.
`ServerArgs` is what `execute_server()`
sends, and `DeviceOptions` what `Options.parse()` and its defaults make of it.
An option that takes a string kept as it is is its presence, or the extension
of the file.

**Video, Screen.** A frame is its number and its session. Each producer (the
decoder, the regulator) has a list of steps left to do, `work`, because a push
to a sink is several critical sections: put the frame in the slot, then post
the event if the slot was empty. The regulator's thread waits for the queue, or
for the date of the frame it holds. `Screen` handles one event of the queue per
step, a shortcut or a change of the window by the user being one more; the
window is its flags and the content whose ratio it has. `ToFrame` and `Apply`
are the transformations of orientations and points. At the end come the
disconnection window, its thread, and the joins of `sc_screen_join()`.

**Audio.** Each operation of the ring reads the other side's cursor, copies,
then stores its own: three steps, so that the other thread is in between.
Samples are numbers, so that a lost, repeated or overwritten one shows, and
`heard` is the set of those that were played. The
resampler is the number of samples it returns.

**Input.** One action per event: key, text, motion, button, wheel, touch,
focus, and what the capture of the mouse does with them. The shortcuts are a
table translated from the `switch` of `sc_input_manager_process_key()`: the
keys, whether shift and repetitions count, and the message. `out` is what the
event became; every message may be refused. What a shortcut does to the screen
is in `Screen`, what the keymapper does with an event in `Keymapper`.

**Hid.** The same events feed an AOA queue with its thread, or UHID messages
through the controller. The clipboard request is a control message, answered by
the device, whose answers wait in a bounded queue (`back`) that drops what does
not fit; the receiver gives an acknowledgement to acksync and the lights of the
keyboard to the main thread. The keyboard over UHID toggles what it knows of the
Caps Lock of the device (`device_mod`) when the key is pressed and again when it
is released, each with its own report, and synchronizes it with the host's before
any other key (`UhidCapsPress`, `UhidCapsRelease`, `UhidKey`); the device toggles
its lock on one of the two edges, which the setup chooses, and answers with its
lights. Opening and closing a device may fail, and its
failure to close is recorded in a history (`closeFailed`): nothing is claimed
of a device that libusb refused to unregister.

**Touch.** `pointers` is the list of `PointersState` in its order, since the
index is what an event is about and what its tool type is set by. Each message
is translated to the events that `Controller.injectTouch()` injects, and `app`
is what an application makes of them, with `legal` false after an event that
Android would refuse.

**Capture.** The video thread follows `SurfaceEncoder.streamCapture()` and the
`Capture` of a screen, a new display or a camera, each call that waits or that
another thread may see between being a step: reset consumed, display read, its
properties given to the monitor, encoder started, codec published, `stopped`
checked, session announced, encoded. The monitor, the client (through the
debouncer and the tracker), the camera and the main thread come in between.

**CleanUp.** The thread that changes the settings and starts the process, the
process that restores them when its input ends, and the server, killed at any
step. Each change and each restoration may fail alone, and is then only logged
(`child.failed`). The display is turned by the controller, which tells the clean
up (`TurnDisplay`, `SetRestoreDisplayPower`); by the tasks that turn it off
200 ms after a key that wakes the device, which look at nothing and tell nobody
(`PowerKey`, `ForceOff`); and by the device with its screen (`ScreenChanges`).
What could not be told to the process, or done by it, is a history (`lost`), as
is a task that ran too late.

## 3. Runs

| Run | Bounds | Shows |
|---|---|---|
| `controller` | 2 messages (one droppable), 2 sizes, limit 2, reserve 1, socket of 1, 5 pushes, 2 resizes | the queue fills, the reserve is used, the vecdeque grows once, the socket blocks, and stop comes at every point |
| `keymapper` | 1 ordinary key, 1 unnamed, 4 shortcuts and DELETE, 3 buttons, 2 positions, 3 files (with a bad line, an unknown button, more bindings than fit, an aim anchor, a bound F10), at most 2 bindings and 2 held inputs; the second binding added by hand has the id of the aim finger; a VIEW leaves out what decides nothing (the capture, positions, which of the keys that no file binds are held and, once `disturbed`, the keys and fingers that no property speaks of) | all sequences of events, of any length, until neither `NoStuckTouch` nor `ButtonsStateHeld` has anything to say any more |
| `keymap_ipc` | 3 seconds, 1 edit on each side, 2 commands, 1 press of F12, 2 waiting tasks | all interleavings of the system calls, on POSIX and Windows |
| `session` | 2 dropped files (one to push, then a package to install), 1 packet or message received, 1 runnable | all interleavings of the threads with the shutdown |
| `recorder` | video, audio or both; 3 video and 2 audio packets, of two times that the rounding makes equal; codecs with and without config packets, merged or not | all interleavings of two demuxers, the recorder and a stop, with failures everywhere |
| `startup` | 6 sets of parameters, 3 devices, 2 ports, 2 attempts of each loop | the server thread against the main thread and the observer, with a failure of every creation, of every adb command and of every socket, and a stop at every step |
| `client` | command lines of at most 2 of some hundred arguments; 2 sizes, 7 sets of what the user and the window do, 2 or 3 frames or sessions; a ring of 3 samples, frames of 1, 2 and 4, pulls of 1 and 2, 6 samples; 5 configurations of the inputs, 2 clipboards; 2 gamepads for 1 slot, an AOA limit of 2, a device queue of 2, 6 sets of HID devices, up to 5 inputs | every option against every other, every order of events of the screen, of steps of the ring, of inputs and refusals, of hotplugs, failures and acknowledgements |
| `device` | 2 fingers and a mouse for 2 pointers; 8 setups of the capture, 2 display properties, 2 consecutive errors, 1 smaller size; 3 sets of settings with and without power off, 3 messages, keys or changes of the screen about the power | every order of touches with losses; of display changes, resizes, resets and encoder failures; of the clean up with the death of the server |

*controller.* `TypeOK` (with the vecdeque never full when the push asserts
it), `NoLostWakeup`, `FifoOrder`, `ReserveForNonDroppable`, `LatestSizeWins`,
the refinement `ImplementsChannel`, and the liveness property `ThreadIsLive`:
`StopTerminates` (join returns although the device stopped reading) and
`Drains` (nothing accepted is stuck while the device reads). Limits of 2 and 3
are enough because the code compares lengths only with 0, the limit and the
capacity; five pushes cross each of them.

*keymapper.* `NoStuckTouch`: the fingers down on the device are those of the
held inputs that are bound in the current mode, through loads, edits and mode
changes, as long as none of these happens while input is held and no touch was
refused. A key that is a shortcut of the keymapper as well may have its finger
down while it is held, and need not. The condition is not a restriction of the inputs: a reload while a
key is held leaves a finger down for ever in this code, and the history
`disturbed` marks where the property stops to speak; the run does not follow a
behaviour beyond that point unless the other properties have something to say
of it. Two fingers are not the bindings' own: the aim's, and the mouse's once it
was used. That no finger is missing either is stated for files whose lines do
not reach the ids of the bindings added by hand (`IdsAreOwn`). `AimFlagExact`, with its own history (`aimOrphaned`): the flag is the
state of the finger unless FPS mode was toggled by a command or a binding has
the finger's id. `TypeOK` holds the negative `count`. `RoundTrip`: no binding
that can be triggered is lost or moved by a save and a load. `ButtonsStateHeld`:
the button mask never keeps a button that is not held, although edit mode may
begin and end between a press and its release and then consumes the one and not
the other. That it lets every release pass that its own drag does not own is
what this rests on. It stops to speak where FPS mode or its bindings change
while a button is held (`disturbed` holds "click"): there the code does keep the
button in the mask.

*keymap_ipc.* `PanelIsFollowed` is `CommandsInOrder` (the commands run are those
posted, in their order, none twice) and `FreshWhenDetectable`: when all is
quiet, what the client loaded is what the file contains, even after reading a
truncated file, because the close changes the time again - unless the last
write fell into a second the timer had already seen (`undetectable`: with a
time in seconds nothing better holds); `Settles`, the same as something that
must happen. The panel's overwriting of positions with an older list
(`EditMappings` without `ReadMappings`) is in the model; see the hazards.

*session.* `PusherIsSafe` is `NoForgottenRequest` and `InterruptsLiveProcess`
(a pid is never killed after it was closed); `CleanupIsOrdered` is
`OutlivesItsThreads`, `TasksRunBeforeCleanup` and `PidIsOwn` (the watchdog kills
by its pid a process that may have ended since it was looked at, and that nobody
has reaped before); `Terminates`: from any point
where the loop is left or the device is gone, `scrcpy()` returns. A second file,
message or runnable only repeats what the first one does, except for the queue
of files, where the signal depends on emptiness.

*recorder.* `CompleteRecording`: a recording reported complete contains exactly
the media packets that were accepted, in order (but the last of the video, whose
failure the code forgives). `FileIsPlayable`: times increase in each stream of
the file (`TimesIncrease`), and with merging each video packet comes after the
config data it needs, although the recorder drops all config packets but the
first (`DecodableFile`). `StopEnds`: it ends once stopped, whoever stopped it.
Three video packets are a config, a change of config and a frame, or two frames
and the last; two audio packets are the config and a frame.

*startup.* `ResourcesAreOwned`, of two parts. `StreamsHaveTheirSockets`: the demuxers and the controller only run
with the socket they were given, connected and open, and there is one for each
stream that was asked for. `NothingLeftBehind`: when `scrcpy()` returns, every socket opened was
closed once, the process of the server was reaped and every component was
released once, whichever creation failed - but for the leaks listed under the
observations below; and the adb daemon keeps a tunnel only while it is opened or
used, unless the thread was interrupted. `StopEnds`: once told to stop, it
returns, whatever adb, the network and the device do. `MainIsAnswered`: the main
thread, which waits for the answer of the server thread, gets one even if the
device dies before it connects. Two ports and two attempts show the first, the
last and the end of each loop.

*client.* `CommandLineAgrees`: an accepted command line satisfies what the rest
of the program asserts (`AcceptedIsReady`) and means the same on the device
(`SameOnDevice`); two arguments are what a pair of options needs, and
most checks of `cli.c` relate two. `EventsAreHandled`: frames reach
the screen in the order of the stream and are announced once, no thread of a sink
sleeps on work, and what was posted is freed although the loop ended.
`DisplayIsRight`: once windowed and its events handled, the window has the ratio
of the content; an orientation applied to an orientation turns the points as it
should. `SoundIsInOrder`: each sample is played once, in order, or dropped by the
regulator; a ring of three samples wraps around in every position, and a frame of
four does not fit. `InputIsFaithful`: the virtual finger is down on the device
exactly when the client thinks so, although messages are refused, no button stays
pressed that the user does not hold, and a character arrives as a key or as a
text, never both. `PasteIsCurrent`: a Ctrl+v over USB waits for the
acknowledgement of the request just accepted, and finds that clipboard or a later
one on the device, after timeouts, dropped acknowledgements and discarded inputs.
`ReportsReachTheirDevice`: a HID device only gets the reports of the gamepad it
was opened for; nothing stays registered when the thread has ended; and when the
messages have been handled and none was lost, the keyboard knows the lock of the
device if the device had the last word - which it always has between strokes where
the lock toggles on the release, while on a device that toggles on the press the
second toggle of `device_mod` may stand until the next report.

*device.* `TouchesAreFaithful`: the device remembers exactly the pointers that
the last message did not lift, and an application receives legal gestures, unless
a message was lost or refused or the buttons of the mouse were mixed with fingers
(`excused`). `SessionIsTruthful`: when nobody has anything left to tell, the
session announced is that of the display, and is said to be the client's resize
only if the client asked for that size - unless the display changed and changed
back while the session was prepared (`raced`). `ResetIsAnswered`: a reset, asked
at any time, starts the capture again or ends it, and a stop ends it.
`SettingsAreRestored`: once the server is dead, however it died, each setting is
as before unless its own restoration failed, the screen is off if that was asked
for, and no display stays dark under a screen that is on, except for what the
process could not be told of, or for a delayed task that ran after the display was
turned on (`lost`); three events about the power are what that takes: off, a key,
on.

### Fairness

`Controller`: the thread runs when it can, and the server thread gets to its
`net_interrupt()`; nobody has to push, stop or read. `Drains` assumes, in the
property, that the device reads. `KeymapIPC`: the timer fires every 100 ms, the
event loop runs tasks, and a program that opened a file closes it. `Session`:
each thread runs when it can; a process that was killed dies; the device may
never answer and adb may never end by itself, so that termination rests on the
interruptions only. Reading packets, dropping files and the watchdog's early
answer are not fair. `Recorder`: its thread runs when it can, and a demuxer that
left its loop closes its sinks; nothing has to arrive, end or fail. `Startup`:
the server thread, the observer and the main thread run when they can; adb, the
network and the device need not do anything, except that a process executed to
list something ends. `MainIsAnswered` assumes, in the property, that adb commands
end and that the device goes on until it connects or dies. `MCDevice`: the video
thread, the monitor, the main thread that stops the capture, the clean-up thread,
the control thread once it has set the power, the server that was interrupted and
the process it started go on; a codec whose input ended ends its output. Nothing
is assumed of the client, the display, the user or the debouncer.

`CHECK_DEADLOCK FALSE` is set for `session`, `recorder` and `device` (the
program, the thread or the capture ends), `keymap_ipc` (its bounds run out) and
`client` (a session ends, a command line is read once); the others never stop.

### Findings

Four runs are expected to be violated; each states what a comment or a document
says.

- `keymapper_mouse` (`HeldKeyTouches`): the first binding of the file has the
  pointer id of the mouse (`keymapper.c:344`), so that moving or clicking the
  mouse lifts the finger of its key.
- `client_counter` (`CounterInterruptedAtJoin`): the frame counter started with
  MOD+i in the disconnection window, after it was interrupted, is joined without
  being interrupted: an assertion fails, or the program hangs.
- `session_destroy` (`NoUseAfterDestroy`): acksync, the controller and the
  mutex of the runnables are destroyed before the threads that use them end.
- `device_power` (`PowerModeIsRestored`): the display is turned off by a task that
  was scheduled while it was kept off, after it was turned on again; the clean up
  knows of nothing to restore, and it stays dark under a screen that is on.

### Observations

What was met while translating, without a run of its own: the models have the
behaviour, and the properties name it as an exception.

- Keymapper: the command `TOGGLE_FPS` clears `aim_finger_down` without lifting
  the finger (`keymapper.c:573`; exception `aimOrphaned`). The window given by
  `km_set_window()` is forgotten by the later `km_init()` (`keymapper.c:428`), so
  that the panel's FPS toggle locks no mouse before F10 was pressed. A binding
  added by hand at index 100 (`keymapper.c:786`), or loaded from the 200th line,
  has the id of the aim finger (`keymapper.h:22`): each lifts the other's
  (exception `aimOrphaned`). From its 101st line on, a file gives its bindings
  ids that those added by hand may have as well (exception `IdsAreOwn`).
- Recorder: the failure "if there is no video" (`recorder.c:375`, `381`) tests the
  packet that was taken, not the queue, and reads `stopped` after the mutex was
  released: a recording stopped before its origin is known may fail although a
  video packet waits.
- Options: `--otg --video-source=camera` is accepted with every input disabled,
  since the inputs are disabled after the check that refuses it (`cli.c:3172`,
  `3245`; exception in `AcceptedIsReady`). The comment at `cli.c:2994` speaks of
  `power_on`, which stays true.
- Startup: acksync is not destroyed when no USB device is found
  (`scrcpy.c:631`), nor the AOA keyboard and mouse already set up when a later
  one fails; an adb command that was interrupted is neither waited for nor reaped
  (`orphans`).
- Clipboard: the device acknowledges a clipboard it could not set for lack of a
  clipboard manager (`Controller.java:707`).
- Touch: the tool type is set by index, so that after the removal of an earlier
  pointer another may carry that of the mouse; the mouse's buttons mixed with
  fingers give events that Android refuses (`excused`); an UP that is ignored
  because the video changed size leaves its pointer.
- Capture: a display that changes and changes back between `getDisplayInfo()` and
  `setSessionDisplayProperties()` in `ScreenCapture.prepare()`, or at any time
  for `NewDisplayCapture`, leaves a session in the wrong orientation and no reset
  (`raced`), against `doc/develop.md:172`.
- Keymapper: a reload in edit mode replaces the bindings and keeps `selected` and
  `dragging` (`keymapper.c:437`), which may then designate no binding, although
  `keymapper.h:58` calls `selected` the "index of selected binding". DELETE
  (`input_manager.c:505`) then removes the last binding instead, or takes `count`
  below zero when the new file has none (`TypeOK` allows both).
- Keymapper: a bound F5, F10, F11 or F12 presses its finger when the key repeats
  and not when it is pressed (`input_manager.c:457`, `515`), and the page keys
  never do, although `km_name_to_keycode` accepts their names.
- HID: after Caps Lock was pressed and released, `device_mod` is back where it was
  (`keyboard_uhid.c:78` for both) until the device answers; if it answered in
  between, `device_mod` is wrong until the next report of the lights or the next
  key, which then presses Caps Lock again.
- CleanUp: a change of the display power pending when the thread is interrupted,
  or made after it, is never written (`CleanUp.java:155`), so that the display
  may stay off (`lost`); so are the settings when the server is killed between
  changing one and starting the process.
- Audio: the comment "full" at `audiobuf.h:25` has head and tail the wrong way
  round; the code is right.
- Timeout: `sc_timeout_start()` writes the deadline and the callbacks after it
  created the thread that reads them (`timeout.c:53`; a hazard no property
  covers).

## 4. Proofs

Every theorem holds for all values of the constants, under the named assumption
of its module that these are numbers, sets or records of the right kind.

**`ChannelsProofs`**, of the controller, for all sets of messages and sizes, every positive limit
and socket size and every reserve (`ConstantsOK` adds that limit plus reserve is
at least 2, which the vecdeque's minimum capacity guarantees, so that growing by
half grows): `TypeCorrect`, `NoWakeupIsLost`, `OrderIsKept`, `ReserveIsKept`,
`LatestSizeIsKept`, the five invariants of the run, and
`ControllerImplementsChannel`, the refinement of `ControlChannel`.
`TypeOK` is inductive by itself; its interesting part is that the queue fits
the capacity: below the limit because the capacity never falls under limit plus
reserve, above because it grows when full. `NoLostWakeup` is inductive given
the types: the only steps into "waiting" find nothing to do, and every step
that makes something to do from that state signals - the case that a signal on
the transition from empty alone would miss, a waiting thread with a non-empty
queue, is what the invariant excludes. `ReserveForNonDroppable` needs that
`TakeMsg` shifts the queue towards the front, so that a message only moves to
smaller positions. `FifoOrder` and `LatestSizeWins` rest on lemmas about
appending to sequences. The refinement needs no more than the types: each
action is one step of the channel or leaves its variables unchanged.

Of the files of the panel, for any number of edits, commands and seconds:
`IpcTypes` and `PanelStaysFollowed`. `OrderInv` keeps the commands posted,
those in the file and the one being sent apart, each in its order. `FreshInv`
says that a time the timer has seen for a content the client has not loaded is
followed by a reload that waits in the event loop, unless the write could not
be detected.

**`SessionProofs`**, for any number of files, packets, messages and runnables:
`TypeCorrect`, `PusherStaysSafe` and `CleanupStaysOrdered`. For the pusher the
inductive invariant `PusherInv` says that its thread exists exactly when it was
initialized and that a process exists from the publication of its pid to the
end of it, which is why an interruption kills nothing that was closed. The
types need that the runnables of a round are among those counted
(`TasksAreCounted`). `CleanupInv` ties each position of the main thread among
the joins to the threads that have ended there; the order of the destructions
follows, and so does that the process of the server is reaped only when its
thread has ended (`PidIsOwn`).

**`KeymapperProofs`**, for any keys, buttons,
positions, files and limits, any number of held inputs, and whether or not the
queue refuses touches: the five invariants of the run `keymapper`. `RoundTrips`
is `SavedBindingsSurvive`, about any array that fits: its load is the array
without the placeholders, in the same order and with the index of its line as
id (`LoadedAs`, by induction over the lines, `Induction`), so that the first
match of a lookup is the same (`SameFirst`). `TypesHold` carries along that two
bindings only share an id at `BlankBase` or above (`IdsApart`), which loading,
removing, adding and dragging keep; `NoTouchIsStuck` rests on it, since a
release lifts the finger of no other input only if their ids differ
(`FingersApart`). The fingers of all held keys bound those that may be down
(`MayDown`), and those of the held keys that are no shortcuts those that must be
(`MustDown`): a press that is taken before the lookup only adds to the first.
`AimFlagIsExact` needs that the aim finger is only down in FPS
mode, and `ButtonsAreHeld` why a consumed release was not reported when it was
pressed: a drag began in edit mode (`DragInv`), and a button bound in FPS mode
was bound when it went down (`BoundInv`; editing adds no binding of a button).

**`RecorderProofs`**, for any number of packets, any times (in any order) and
any unit of the file: `RecorderTypes`, `RecordingIsComplete` and `FilePlays`. The
assumption is that `NoPts` is no time and is below every difference of times,
as `AV_NOPTS_VALUE`, the least 64-bit number, is. What is
invariant is that the packets accepted of a stream are those written, then the
video packet that waits for its successor, then the one held, then the media
packets of the queue, in that order and with none missing (`Pending`; `InOrder`
numbers the packets of the queue, of which the config packets count for
nothing), until a failure closes the file (`ProcessChain`). The thread leaves
its loop only when stopped and with empty queues, so that what was accepted is
what was written; and nothing is accepted after the stop. Times increase because
`lastPts` is the time of the last packet written and each new one is above it
(`WriteIs`). What decodes a packet comes before it because the packets carry
versions that never decrease, and each version is carried by the first media
packet that needs it (`VersionsOf`), whatever became of the config packets
themselves; the merger holds the version that no packet has carried yet
(`Current`), and the config packet that becomes the header is older than every
packet that will be written (`FirstConfig`).

**`StartupProofs`**, for any parameters, any devices, any range of ports and any
number of attempts: `StartupTypes` and `ResourcesStayOwned`. The inductive invariant ties the place of each
thread to what it holds. Of the server thread: the tunnel is enabled from its
opening to its closing (`TunnelInv`), so that without an interruption what the
adb daemon still holds is the tunnel of this port, of the kind in use, or the one
of a command that has just ended (`DaemonInv`); the listening socket is open
exactly while a reverse tunnel is (`SocketInv`); the sockets of the streams are
either in the hands of the thread, and closed if it fails, or stored in the
server, never both (`StreamInv`); and the process of the server is reaped on
every path that leaves the ones where it runs (`DeviceInv`). Of the main thread:
before the end, what is held is what comes before `step` in the order of creation
and was asked for (`CreationInv`); at the end, what is held is what the order of
release has not reached yet, or what a failing AOA set-up leaves (`ReleaseInv`).
`JoinInv` joins the two: no stream is set up before the server is connected, and
the sockets are closed when its thread has ended.

**`DeviceProofs`**, for any fingers and mouse buttons, any number of pointers, of
messages lost or refused, of display properties, changes, resizes, resets,
failures and settings: `DeviceTypes`, `TouchesStayFaithful` and
`SessionStaysTruthful`, the three invariants of the run `device`. Each part has
an inductive invariant that its own steps keep and that the others do not touch.

For the touches (`TouchInv`), the list of pointers has distinct ids and local ids
and holds nobody who is up (`PointersInv`). Every message is then followed
through the code: where the pointer is found or added (`KnownIs`; a local id is
free below the maximum, `LocalIsFree`, which is what the assertion at
`PointersState.java:57` says), what is marked as up (`ListedIs`), what the
backward loop of `cleanUp()` leaves (`CleanUpIs`, by induction over the loop).
The gesture is legal because the application believes exactly what the list says
(`FingersShown`), or sees a mouse alone with the buttons that are held
(`MouseShown`); a mouse goes from the first to the second and back with the first
button pressed and the last released.

For the capture (`CaptureInv`), the session may be out of date at any
moment; what is invariant is that whoever is out of date is going to be told:
the monitor has an event to look at, or has something to say, or the thread has
a reason to reset (`Current`, `KnownToMonitor`, `Knows`), or the race was recorded. That
a resize is announced as the client's only if it asked for it needs where every
size held by the debouncer and the tracker came from (`WereAsked`, `Origins`),
also in the reasons that a failed attempt retains. `Bounds` adds what the types
need: an encoder has the maximum of errors only once, with its constraints
applied, and an event of the monitor comes from a change or a resize that was
counted. For the clean up, a change of the display power is in one place only on
its way to the process (`OnTheirWay`).

**`PlaybackProofs` and `ClientProofs`**, for any arguments of the command line, any
configurations of the inputs, any number of clipboards, gamepads, slots, inputs and
pastes, over USB and over UHID, any setups and sizes of the video, and any capacity,
target and sizes of the sound: the eight invariants of the run `client`, `ClientTypes`,
`CommandLineStaysAgreed`, `InputStaysFaithful`, `ReportsStayWithTheirDevice`,
`PasteStaysCurrent`, `FramesAndEventsAreHandled`, `DisplayStaysRight` and
`SoundStaysInOrder`. The parts of the client share no state, so a step of it is a
step of each part or none (`ClientStep`), and each part has its own invariant.

For the command line (`OptionsInv`), the assumption `ArgumentsOK` is what the
tokenizers give: the text of a number was read as a number, a list was cut at its
separators. What is invariant in the loop is what the parsers let through (`Parsed`):
a mode that is a mode or a default to resolve, a range of ports in order, an
orientation that exists. Each stage that follows changes some fields only (`Only`)
and establishes something (`StreamsIs`, `BufferIs`, `ModesAre`, `DisplayedIs`,
`CameraIs`, `FinalIs`), and what is asserted of the accepted command line comes from
the stage that establishes it, or from the check that passed at its place, through
the stages that leave its fields alone (`Stages`, `Established`, `Checked`). A
parameter that is not sent is the same on the device because the defaults of the two
programs agree (`DeviceHas`), but for the bit rates, where zero stands for that of
the device.

For the input manager (`InputInv`), the flag of the virtual finger and the finger of
the device change together or not at all (`VirtualFingerIs`), and in relative mode,
where no event lifts it, it is never down; the buttons the manager holds are
among those of the user, because a release is noted before anything returns early
(`ButtonStep`, `MouseInv`). Of the messages, it is enough that no event but Ctrl+v
sends a clipboard with a number or a key that waits for one (`ShortcutIs`,
`KeyToDeviceStep`), for any subset of them that the controller accepts
(`AcceptedOne`, `AcceptedTwo`).

For the HID devices (`Invariant`): a slot is
used again while the events of its last gamepad are still on their way, so the
invariant is about those events, the one in hand included: an open finds its
device closed, and a report finds it open for the one who holds it, by the last
open or close before them, or by the state of the device if there is none
(`Orderly`); and the last of all leaves each device to its holder (`Final`).
Every step either sends an event that fits, handles the first one or does
neither (`Kinds`), and each of the three keeps the order (`AppendSound`,
`TailSound`, `FallSound`), also when inputs are dropped or an open fails. That
only a failed unregistration breaks it is in the hypothesis
(`~hidPast.closeFailed`), as in the property. The paste needs that the numbers
of the clipboards grow on the way to the device (`AckInv`), and those of the
acknowledgements on the way back (`BackInv`, the assertion of `sc_acksync_ack()`);
Caps Lock (`CapsInv`), that the last lights on their way are those of the device
(`LightsInv`), that without one the keyboard knows them if it was told last
(`KnownInv`), that the last report on its way has Caps Lock exactly while the key is
held (`HeldInv`), and that a lock that toggles on the release still has one to see,
or lights to send, when the keyboard had the last word and the key is up
(`StrokeInv`).

For the video and the screen (`ScreenInvariant`), a frame is in one of seven places,
from what is displayed back to what the decoder has just given: the numbers of each
place are before those of all the later ones (`WayInv`, as sets of numbers so that no
position has to be followed). A frame that the decoder pushes to the screen itself
passes an empty regulator, because that only happens without a regulator or for
the first frame, and nothing is delayed before the clock has a range
(`StraightInv`, `RangeInv`). That a full slot is announced by exactly one event has
two owners (`AnnounceInv`): the event in the queue, or the producer that has filled
the slot and has still to post; a producer that fails to post stops, which the last
disjunct keeps. The first event is the one of the window, which is posted before any
thread can push. The threads of the regulator and of V4L2 only wait when there is
nothing to do (`WakeInv`), under the types and the order of the work of the producers
(`VideoTypes`, `WorkInv`). The data of the events is freed because a decoder that
ended posts nothing more, which needs that only a running one has work (`RunInv`), and
the thread of the disconnection window has ended before the screen is destroyed
(`FreedInv`). The window fits its content unless a resize is pending, and a
pending one on a window that is windowed again has its event in the queue (`FitInv`).
The shortcuts turn the display for a content of any size (`RotatesAnywhere`), which is
linear arithmetic for each of the four.

For the sound (`AudioInvariant`), the assumption `AudioOK` is what the code
computes: a target of any size, zero included, a capacity beyond it, and limits in no
relation with either (those of a long target are beyond the capacity). Each side may read the cursor of the other at any
time, so what is invariant speaks of what each has read: a cursor that was read
earlier is behind the real one, by no more than what has been produced or consumed
since, so that the room a side computed is never more than there is (`StaleInv`, `RoomInv`).
Where a cursor is moved by the other side (the regulator dropping old samples), the
mutex is held by whoever may be reading (`MutexInv`), and the part of the ring that is
being copied is not the part that is written (`CopyInv`). The samples on their way
are what the callback has copied, what the ring holds between the cursors, and what
the decoder has still to store (`SoundLineInv`); an advance of a cursor moves a sample
from one to the next, which needs that a part of the ring is the same whether it is
read at once or in two pieces around the end (`StoredParts`), by a lemma on the
cursors modulo the size of the ring (`Moving`, linear arithmetic since two cursors
add up to less than twice the size).

Only model-checked: liveness (`ThreadIsLive`, `Settles`, `Terminates`, `StopEnds`,
`MainIsAnswered`, `ResetIsAnswered`, `SettingsAreRestored`), which is out of the
prover's reach with its fairness, and the four runs that end in a violation. Every
invariant of a passing run is a theorem.

## 5. Not modelled

- The launcher and the widgets of the panel, logs, help: no state between calls,
  or pure output.
- Drawing: the overlay of the keymapper, textures, rendering, the icon.
- OTG mode, Android services and their wrappers: the behaviour is in libraries
  and services that are not in the repository.
- `timeout.c`: see the observations. Every outcome of the race in
  `sc_timeout_start()` is undefined already, and the rest is one timed wait.
- The layout of the ring of `vecdeque.h` (its capacity is in `Controller`):
  sequential code that its unit tests cover.
- On the device, the injection of keys, text and scrolls, which keep no state
  but the time of the last key; the audio encoder; the parsing of `adb`'s output;
  the bytes of messages and of HID reports.
- Failures of small allocations, other than where they are a refusal.
- `DPAD`, `SCROLL` and `MACRO` bindings are parsed, drawn and saved, but no hook
  uses them; they are the type "OTHER". The INS key and the "debounce of 200 ms"
  that the documentation mentions are not in the code.

## 6. Plan

Done, in the order in which it was planned: the controller and its abstract
channel; the keymapper and its file; the panel; the end of the session with the
pusher; the recorder; the server thread and the startup; the options; video and
screen; audio; input; HID with the acknowledgement of the clipboard; on the
device touches, capture and clean up; the proofs of section 4.

Left, in the order of what it would add:

1. A model of the ring of `vecdeque.h` refining a sequence, and of `timeout.c`
   with the race excluded.
2. OTG mode, with the part of libusb that `usb.c` relies on as external state.
3. The audio encoder of the device, which has two threads and a bounded queue.
