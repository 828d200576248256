-------------------------------- MODULE Session -------------------------------
(***************************************************************************)
(* The end of a session (app/src/scrcpy.c): how the main thread leaves its *)
(* event loop, stops the components, joins their threads and destroys      *)
(* them, while these threads, the server thread that interrupts the        *)
(* sockets, the device and the timer of the keymapper go on.               *)
(*                                                                         *)
(* The session starts when everything is running, with a window and with   *)
(* clipboard acknowledgements (acksync).  The controller thread is reduced *)
(* to sending or not (Controller.tla has its queue); the demuxer stands    *)
(* for the video and the audio ones; the recorder, the V4L2 sink, the time *)
(* limit and AOA are left out.                                             *)
(***************************************************************************)
EXTENDS FilePusher

CONSTANTS
    MaxReceived,  \* bound: packets and messages received from the device
    MaxPosted,    \* bound: tasks posted to the main thread
    FileKind      \* bound: what to do with each file that is dropped, in order

ASSUME SessionConstantsOK ==
    /\ MaxReceived \in Nat /\ MaxPosted \in Nat
    /\ FileKind \in [1..MaxRequests -> Action]

VARIABLES
    main,         \* what the main thread does next
    exit,         \* the pending events that end the loop
    tasks,        \* how many runnables wait for the main thread
    accepting,    \* ~stopped in events.c: new runnables are accepted
    imDisconnected, \* im->disconnected
    destroyed,    \* the objects destroyed so far
    controller,   \* the controller thread: "idle", "sending" or "ended"
    controllerStopped, \* controller->stopped
    receiver,     \* "reading", "acking", "posting" or "ended"
    demuxer,      \* "reading", "pushing" or "ended"
    timer,        \* the keymapper timer thread: "idle" or "posting"
    server,       \* the server thread: "connected", "watch", "kill", "join" or
                  \*   "ended"
    serverStopped,\* server->stopped
    sockets,      \* "open" or "interrupted"
    device,       \* the adb process that runs the server on the device:
                  \*   "running", "killed", "exited" or "closed" (reaped: its pid
                  \*   may be that of another process)
    observer,     \* the thread that waits for this process: "waiting" or "ended"
    received,     \* history: packets and messages received
    posted        \* history: tasks posted

mainVars   == <<main, imDisconnected, destroyed>>
taskVars   == <<tasks, accepting, posted>>
serverVars == <<server, serverStopped, sockets, observer>>
threadVars == <<controller, controllerStopped, receiver, demuxer, timer>>
sessionVars == <<mainVars, exit, taskVars, threadVars, serverVars, device,
                 received>>
vars == <<pusherVars, sessionVars>>

Init ==
    /\ PusherInit
    /\ main = "loop"
    /\ exit = {}
    /\ tasks = 0
    /\ accepting = TRUE
    /\ imDisconnected = FALSE
    /\ destroyed = {}
    /\ controller = "idle"
    /\ controllerStopped = FALSE
    /\ receiver = "reading"
    /\ demuxer = "reading"
    /\ timer = "idle"
    /\ server = "connected"
    /\ serverStopped = FALSE
    /\ sockets = "open"
    /\ device = "running"
    /\ observer = "waiting"
    /\ received = 0
    /\ posted = 0

(* Nothing more will come from the device, after what was already sent.    *)
StreamOver == sockets = "interrupted" \/ device \in {"exited", "closed"}

-------------------------------------------------------------------------------
(* The main thread: event_loop(), then the end of scrcpy()                 *)

Goto(next) == main' = next

(* sc_push_event(); once the loop is left, nobody reads these events.  The *)
(* order of the events that are pending is not kept.                       *)
PushEvent(event) == exit' = IF main = "loop" THEN exit \cup {event} ELSE exit

(* A file dropped on the window is ignored once the device is disconnected *)
(* (sc_input_manager_process_file()).                                      *)
DropFile ==
    /\ main \in {"loop", "disconnected"}
    /\ ~imDisconnected
    /\ Request(FileKind[requested + 1])
    /\ UNCHANGED sessionVars

UserQuits ==
    /\ main = "loop"
    /\ PushEvent("quit")
    /\ UNCHANGED <<pusherVars, mainVars, taskVars, threadVars, serverVars,
                   device, received>>

RunTask ==
    /\ main = "loop"
    /\ tasks > 0
    /\ tasks' = tasks - 1
    /\ UNCHANGED <<pusherVars, mainVars, exit, accepting, posted, threadVars,
                   serverVars, device, received>>

(* Mutation: the pending runnables run, but new ones are still accepted.   *)
LeaveLoop_Accepting ==
    /\ main = "loop"
    /\ \E event \in exit : imDisconnected' = (event = "disconnected")
    /\ exit' = {}
    /\ Goto("pumpTasks")
    /\ UNCHANGED <<pusherVars, destroyed, taskVars, threadVars, serverVars,
                   device, received>>

(* sc_main_thread_stop() begins when the loop returns.  A disconnection is *)
(* first handled by the screen and by the input manager.                   *)
LeaveLoop ==
    /\ main = "loop"
    /\ \E event \in exit : imDisconnected' = (event = "disconnected")
    /\ exit' = {}
    /\ accepting' = FALSE
    /\ Goto("pumpTasks")
    /\ UNCHANGED <<pusherVars, destroyed, tasks, posted, threadVars, serverVars,
                   device, received>>

PumpTasks ==
    /\ main = "pumpTasks"
    /\ tasks' = 0
    /\ Goto("stopController")
    /\ UNCHANGED <<pusherVars, imDisconnected, destroyed, exit, accepting,
                   posted, threadVars, serverVars, device, received>>

StopController ==
    /\ main = "stopController"
    /\ controllerStopped' = TRUE
    /\ Goto("stopPusher")
    /\ UNCHANGED <<pusherVars, imDisconnected, destroyed, exit, taskVars,
                   controller, receiver, demuxer, timer, serverVars, device,
                   received>>

StopFilePusher ==
    /\ main = "stopPusher"
    /\ StopPusher
    /\ Goto("stopServer")
    /\ UNCHANGED <<imDisconnected, destroyed, exit, taskVars, threadVars,
                   serverVars, device, received>>

(* Mutation: the server is only stopped when the device went away.         *)
StopServer_Disconnected ==
    /\ main = "stopServer"
    /\ serverStopped' = imDisconnected
    /\ Goto(IF imDisconnected THEN "disconnected" ELSE "joinDemuxer")
    /\ UNCHANGED <<pusherVars, imDisconnected, destroyed, exit, taskVars,
                   threadVars, server, sockets, observer, device, received>>

StopServer ==
    /\ main = "stopServer"
    /\ serverStopped' = TRUE
    /\ Goto(IF imDisconnected THEN "disconnected" ELSE "joinDemuxer")
    /\ UNCHANGED <<pusherVars, imDisconnected, destroyed, exit, taskVars,
                   threadVars, server, sockets, observer, device, received>>

(* sc_screen_handle_disconnection() returns after two seconds, or earlier  *)
(* if the user quits; meanwhile it handles the events of the window.       *)
CloseDisconnected ==
    /\ main = "disconnected"
    /\ Goto("joinDemuxer")
    /\ UNCHANGED <<pusherVars, imDisconnected, destroyed, exit, taskVars,
                   threadVars, serverVars, device, received>>

(* A join waits for the end of threads, a destruction for nothing.         *)
Proceed(here, condition, next, object) ==
    /\ main = here
    /\ condition
    /\ Goto(next)
    /\ destroyed' = destroyed \cup object
    /\ UNCHANGED <<pusherVars, imDisconnected, exit, taskVars, threadVars,
                   serverVars, device, received>>

(* Mutation: the demuxer is not joined.                                    *)
JoinDemuxer_NoWait == Proceed("joinDemuxer", TRUE, "destroyAcksync", {})

JoinDemuxer == Proceed("joinDemuxer", demuxer = "ended", "destroyAcksync", {})
DestroyAcksync ==
    Proceed("destroyAcksync", TRUE, "destroyScreen", {"acksync"})
DestroyScreen == Proceed("destroyScreen", TRUE, "joinController", {"screen"})
JoinController ==
    Proceed("joinController", controller = "ended" /\ receiver = "ended",
            "destroyController", {})
DestroyController ==
    Proceed("destroyController", TRUE, "joinPusher", {"controller"})
JoinPusher ==
    Proceed("joinPusher", initialized => fp = "ended", "joinServer", {"pusher"})
JoinServer ==
    Proceed("joinServer", server = "ended", "destroyTasks", {"server"})

(* sc_main_thread_destroy(), then the process returns from main().         *)
DestroyTasks == Proceed("destroyTasks", TRUE, "return", {"tasks"})
Return == Proceed("return", TRUE, "done", {})

Shutdown ==
    \/ PumpTasks \/ StopController \/ StopFilePusher \/ StopServer
    \/ CloseDisconnected \/ JoinDemuxer \/ DestroyAcksync \/ DestroyScreen
    \/ JoinController \/ DestroyController \/ JoinPusher \/ JoinServer
    \/ DestroyTasks \/ Return

Main == DropFile \/ UserQuits \/ RunTask \/ LeaveLoop \/ Shutdown

-------------------------------------------------------------------------------
(* The other threads run until the process returns                         *)

Pusher ==
    /\ main # "done"
    /\ PusherThread \/ SpuriousWakeup \/ AdbExits \/ AdbDies
    /\ UNCHANGED sessionVars

(* run_controller(): look at `stopped` before every message.               *)
ControllerSends ==
    /\ controller = "idle"
    /\ ~controllerStopped
    /\ controller' = "sending"
    /\ UNCHANGED <<pusherVars, mainVars, exit, taskVars, controllerStopped,
                   receiver, demuxer, timer, serverVars, device, received>>

ControllerSent ==
    /\ controller = "sending"
    /\ controller' = "idle"
    /\ UNCHANGED <<pusherVars, mainVars, exit, taskVars, controllerStopped,
                   receiver, demuxer, timer, serverVars, device, received>>

ControllerEnds ==
    /\ \/ controller = "idle" /\ controllerStopped
       \/ controller = "sending" /\ StreamOver
    /\ controller' = "ended"
    /\ PushEvent("disconnected")
    /\ UNCHANGED <<pusherVars, mainVars, taskVars, controllerStopped, receiver,
                   demuxer, timer, serverVars, device, received>>

(* run_receiver() and run_demuxer(): what was sent before an interruption  *)
(* may still be received after it.                                         *)
ReceiverReads ==
    /\ receiver = "reading"
    /\ received < MaxReceived
    /\ received' = received + 1
    /\ \/ receiver' = "acking" /\ UNCHANGED posted
       \/ receiver' = "posting" /\ posted < MaxPosted /\ posted' = posted + 1
    /\ UNCHANGED <<pusherVars, mainVars, exit, tasks, accepting, controller,
                   controllerStopped, demuxer, timer, serverVars, device>>

ReceiverAcks ==
    /\ receiver = "acking"
    /\ receiver' = "reading"
    /\ UNCHANGED <<pusherVars, mainVars, exit, taskVars, controller,
                   controllerStopped, demuxer, timer, serverVars, device,
                   received>>

(* Mutation: the runnable is queued twice.                                 *)
PostTask_Twice ==
    /\ tasks' = IF accepting THEN tasks + 2 ELSE tasks
    /\ UNCHANGED <<accepting, posted>>

(* sc_run_on_main_thread()                                                 *)
PostTask ==
    /\ tasks' = IF accepting THEN tasks + 1 ELSE tasks
    /\ UNCHANGED <<accepting, posted>>

ReceiverPosts ==
    /\ receiver = "posting"
    /\ receiver' = "reading"
    /\ PostTask
    /\ UNCHANGED <<pusherVars, mainVars, exit, controller, controllerStopped,
                   demuxer, timer, serverVars, device, received>>

ReceiverEnds ==
    /\ receiver = "reading"
    /\ StreamOver
    /\ receiver' = "ended"
    /\ PushEvent("disconnected")
    /\ UNCHANGED <<pusherVars, mainVars, taskVars, controller,
                   controllerStopped, demuxer, timer, serverVars, device,
                   received>>

DemuxerReads ==
    /\ demuxer = "reading"
    /\ received < MaxReceived
    /\ received' = received + 1
    /\ demuxer' = "pushing"
    /\ UNCHANGED <<pusherVars, mainVars, exit, taskVars, controller,
                   controllerStopped, receiver, timer, serverVars, device>>

DemuxerPushes ==
    /\ demuxer = "pushing"
    /\ demuxer' = "reading"
    /\ UNCHANGED <<pusherVars, mainVars, exit, taskVars, controller,
                   controllerStopped, receiver, timer, serverVars, device,
                   received>>

(* At the end of the stream, or in the middle of a packet.                 *)
DemuxerEnds ==
    /\ demuxer = "reading"
    /\ StreamOver
    /\ demuxer' = "ended"
    /\ PushEvent("disconnected") \/ PushEvent("error")
    /\ UNCHANGED <<pusherVars, mainVars, taskVars, controller,
                   controllerStopped, receiver, timer, serverVars, device,
                   received>>

(* A thread may also end on an error of its own: a message that cannot be  *)
(* serialized or parsed, a packet that a sink refuses.                     *)
ThreadFails ==
    /\ \/ /\ controller = "sending"
          /\ controller' = "ended"
          /\ UNCHANGED <<receiver, demuxer>>
       \/ /\ receiver = "reading"
          /\ receiver' = "ended"
          /\ UNCHANGED <<controller, demuxer>>
       \/ /\ demuxer = "pushing"
          /\ demuxer' = "ended"
          /\ UNCHANGED <<controller, receiver>>
    /\ PushEvent("error")
    /\ UNCHANGED <<pusherVars, mainVars, taskVars, controllerStopped, timer,
                   serverVars, device, received>>

(* km_ipc_timer_cb(): the timer is never removed.                          *)
TimerFires ==
    /\ main # "done"
    /\ timer = "idle"
    /\ posted < MaxPosted
    /\ timer' = "posting"
    /\ posted' = posted + 1
    /\ UNCHANGED <<pusherVars, mainVars, exit, tasks, accepting, controller,
                   controllerStopped, receiver, demuxer, serverVars, device,
                   received>>

TimerPosts ==
    /\ main # "done"
    /\ timer = "posting"
    /\ timer' = "idle"
    /\ PostTask
    /\ UNCHANGED <<pusherVars, mainVars, exit, controller, controllerStopped,
                   receiver, demuxer, serverVars, device, received>>

(* run_server(), once connected.                                           *)
ServerStep(here, condition, next) ==
    /\ server = here
    /\ condition
    /\ server' = next
    /\ UNCHANGED <<pusherVars, mainVars, exit, taskVars, threadVars,
                   serverStopped, observer, received>>

InterruptSockets ==
    /\ ServerStep("connected", serverStopped, "watch")
    /\ sockets' = "interrupted"
    /\ UNCHANGED device

DeviceTerminated ==
    /\ ServerStep("watch", observer = "ended", "join")
    /\ UNCHANGED <<sockets, device>>

(* One second later, kill it unless its end was observed: it may have      *)
(* ended since.                                                            *)
WatchdogFires ==
    /\ ServerStep("watch", observer = "waiting", "kill")
    /\ UNCHANGED <<sockets, device>>

KillDevice ==
    /\ ServerStep("kill", TRUE, "join")
    /\ device' = IF device = "running" THEN "killed" ELSE device
    /\ UNCHANGED sockets

JoinObserver ==
    /\ ServerStep("join", observer = "ended", "ended")
    /\ device' = "closed"
    /\ UNCHANGED sockets

Server ==
    \/ InterruptSockets \/ DeviceTerminated \/ WatchdogFires \/ KillDevice
    \/ JoinObserver

(* Mutation: the observer reaps the process it waits for.                  *)
ObserverSees_Reaps ==
    /\ observer = "waiting"
    /\ device = "exited"
    /\ observer' = "ended"
    /\ device' = "closed"
    /\ UNCHANGED <<pusherVars, mainVars, exit, taskVars, threadVars, server,
                   serverStopped, sockets, received>>

(* run_observer(): it waits for the process, that it leaves to be reaped.  *)
ObserverSees ==
    /\ observer = "waiting"
    /\ device = "exited"
    /\ observer' = "ended"
    /\ UNCHANGED <<pusherVars, mainVars, exit, taskVars, threadVars, server,
                   serverStopped, sockets, device, received>>

(* The device goes away by itself, or is killed.                           *)
DeviceExits ==
    /\ device = "running"
    /\ device' = "exited"
    /\ UNCHANGED <<pusherVars, mainVars, exit, taskVars, threadVars, serverVars,
                   received>>

DeviceDies ==
    /\ device = "killed"
    /\ device' = "exited"
    /\ UNCHANGED <<pusherVars, mainVars, exit, taskVars, threadVars, serverVars,
                   received>>

Next ==
    \/ Main \/ Pusher
    \/ ControllerSends \/ ControllerSent \/ ControllerEnds
    \/ ReceiverReads \/ ReceiverAcks \/ ReceiverPosts \/ ReceiverEnds
    \/ DemuxerReads \/ DemuxerPushes \/ DemuxerEnds
    \/ ThreadFails
    \/ TimerFires \/ TimerPosts
    \/ Server \/ ObserverSees \/ DeviceExits \/ DeviceDies

Spec == Init /\ [][Next]_vars

(* Every thread that can run does; a killed process dies; the device may   *)
(* stay silent and adb may run for ever.                                   *)
Fairness ==
    /\ WF_vars(LeaveLoop \/ Shutdown)
    /\ WF_vars(main # "done" /\ PusherThread /\ UNCHANGED sessionVars)
    /\ WF_vars(AdbDies /\ UNCHANGED sessionVars)
    /\ WF_vars(ControllerEnds)
    /\ WF_vars(ReceiverAcks \/ ReceiverPosts \/ ReceiverEnds)
    /\ WF_vars(DemuxerPushes \/ DemuxerEnds)
    /\ WF_vars(Server)
    /\ WF_vars(ObserverSees)
    /\ WF_vars(DeviceDies)

FairSpec == Spec /\ Fairness

-------------------------------------------------------------------------------
(* Properties                                                              *)

TypeOK ==
    /\ PusherTypeOK
    /\ main \in {"loop", "pumpTasks", "stopController", "stopPusher",
                 "stopServer", "disconnected", "joinDemuxer", "destroyAcksync",
                 "destroyScreen", "joinController", "destroyController",
                 "joinPusher", "joinServer", "destroyTasks", "return", "done"}
    /\ exit \subseteq {"quit", "disconnected", "error"}
    /\ tasks \in 0..MaxPosted /\ posted \in 0..MaxPosted
    /\ accepting \in BOOLEAN /\ imDisconnected \in BOOLEAN
    /\ destroyed \subseteq {"acksync", "screen", "controller", "pusher",
                            "server", "tasks"}
    /\ controller \in {"idle", "sending", "ended"}
    /\ controllerStopped \in BOOLEAN
    /\ receiver \in {"reading", "acking", "posting", "ended"}
    /\ demuxer \in {"reading", "pushing", "ended"}
    /\ timer \in {"idle", "posting"}
    /\ server \in {"connected", "watch", "kill", "join", "ended"}
    /\ serverStopped \in BOOLEAN
    /\ sockets \in {"open", "interrupted"}
    /\ device \in {"running", "killed", "exited", "closed"}
    /\ observer \in {"waiting", "ended"}
    /\ received \in 0..MaxReceived

(* Every component outlives its own threads, and the screen outlives the   *)
(* demuxer that gives it frames.                                           *)
OutlivesItsThreads ==
    /\ "screen" \in destroyed => demuxer = "ended"
    /\ "controller" \in destroyed => controller = "ended" /\ receiver = "ended"
    /\ "pusher" \in destroyed => fp \in {"none", "ended"}
    /\ "server" \in destroyed => server = "ended" /\ device = "closed"

(* Runnables that the main thread accepted have run before anything they   *)
(* could access is cleaned up.                                             *)
TasksRunBeforeCleanup == destroyed # {} => tasks = 0

(* server.c:1152: the server is killed by its pid, although it may have    *)
(* ended since it was looked at; nobody may have reaped it before.        *)
PidIsOwn == server \in {"watch", "kill"} => device # "closed"

(* The clean up of scrcpy() comes after what may use what it destroys: the *)
(* component's own threads, the demuxer for the screen, and the runnables; *)
(* and the process of the server, after what may kill it.                  *)
CleanupIsOrdered == OutlivesItsThreads /\ TasksRunBeforeCleanup /\ PidIsOwn

(* Once the loop is left, or the device has gone, the program terminates:  *)
(* no join waits for ever, wherever the threads are blocked.               *)
Terminates == (main # "loop" \/ device = "exited") ~> main = "done"

(* An object is not used after it was destroyed, by any thread.            *)
UsedBy(object) ==
    CASE object = "acksync"    -> receiver = "acking"
      [] object = "screen"     -> demuxer = "pushing"
      [] object = "controller" -> fp = "scan"
      [] object = "tasks"      -> timer = "posting" \/ receiver = "posting"
      [] OTHER                 -> FALSE

(* scrcpy.c: "Destroy the screen only after the video demuxer is guaranteed*)
(* to be finished", as every other object.                                 *)
NoUseAfterDestroy == \A object \in destroyed : ~UsedBy(object)
===============================================================================
