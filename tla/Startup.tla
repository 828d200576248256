-------------------------------- MODULE Startup --------------------------------
(***************************************************************************)
(* The main thread of the client from the start of scrcpy() to its return  *)
(* (app/src/scrcpy.c): it starts the server thread, waits for its answer,  *)
(* creates the components one after the other -- each of which may fail -- *)
(* runs the event loop, and releases at the label "end" what was created.  *)
(* The server thread is that of ServerStart; the other threads are reduced *)
(* to what makes their join return (Session has them running).             *)
(***************************************************************************)
EXTENDS ServerStart

VARIABLES
    main,         \* what the main thread does next
    step,         \* the next component to create
    res,          \* every component: "none", "held", "released" or
                  \*   "releasedTwice"
    failedAt      \* history: the component that could not be created

vars == <<startVars, main, step, res, failedAt>>

Resources == {"server", "serverThread", "filePusher", "recorder",
              "recorderThread", "controller", "acksync", "usb", "usbDevice",
              "usbConnection", "aoa", "keyboardAoa", "mouseAoa", "aoaThread",
              "hidDevice", "controllerThread", "screen", "v4l2",
              "videoDemuxer", "audioDemuxer", "timeout", "timeoutThread"}

Init ==
    /\ StartInit
    /\ main = "start" /\ step = 1 /\ failedAt = "none"
    /\ res = [r \in Resources |-> IF r = "server" THEN "held" ELSE "none"]

--------------------------------------------------------------------------------
(* The creation                                                            *)

(* The components in the order of scrcpy().  usbDevice is the selection of *)
(* the USB device, destroyed at once; hidDevice a UHID keyboard or mouse.  *)
OutputParts == <<"filePusher", "recorder", "recorderThread">>
AoaParts == <<"acksync", "usb", "usbDevice", "usbConnection", "aoa",
              "keyboardAoa", "mouseAoa", "aoaThread">>
ControlParts == <<"controller">> \o AoaParts \o <<"hidDevice", "controllerThread">>
SinkParts == <<"screen", "v4l2">>
RunningParts == <<"videoDemuxer", "audioDemuxer", "timeout", "timeoutThread">>
Order == OutputParts \o ControlParts \o SinkParts \o RunningParts

NeedsAoa == params.control /\ (params.keyboard = "aoa" \/ params.mouse = "aoa")
Needed(r) ==
    CASE r = "filePusher" -> params.window /\ params.control
      [] r \in {"recorder", "recorderThread"} -> params.record
      [] r \in {"controller", "controllerThread"} -> params.control
      [] r \in {"acksync", "usb", "usbDevice", "usbConnection", "aoa",
                "aoaThread"} -> NeedsAoa
      [] r = "keyboardAoa" -> NeedsAoa /\ params.keyboard = "aoa"
      [] r = "mouseAoa" -> NeedsAoa /\ params.mouse = "aoa"
      [] r = "hidDevice" -> params.control /\ "uhid" \in {params.keyboard, params.mouse}
      [] r = "screen" -> params.window
      [] r = "v4l2" -> params.v4l2
      [] r = "videoDemuxer" -> params.video
      [] r = "audioDemuxer" -> params.audio
      [] r \in {"timeout", "timeoutThread"} -> params.timeLimit

ReleasedFrom(state, set) ==
    [r \in Resources |-> IF r \notin set THEN state[r]
                         ELSE IF state[r] = "held" THEN "released"
                         ELSE "releasedTwice"]

(* What scrcpy() releases on the spot when r cannot be created.  The label *)
(* "end" does the rest.                                                    *)
CleanedUpAt(r) ==
    CASE r = "usb" -> {"acksync"}
      [] r = "usbDevice" -> {"usb"}
      [] r = "usbConnection" -> {"usb", "acksync"}
      [] r = "aoa" -> {"usbConnection", "usb", "acksync"}
      [] r \in {"keyboardAoa", "mouseAoa", "aoaThread"} ->
            {"acksync", "usbConnection", "usb", "aoa"}
      [] OTHER -> {}

MainUnmoved == UNCHANGED <<startVars, step, res, failedAt>>

(* sc_server_start(), or its failure.                                      *)
StartServerThread ==
    /\ main = "start"
    /\ \/ main' = "await" /\ res' = [res EXCEPT !["serverThread"] = "held"]
       \/ main' = "stop" /\ UNCHANGED res
    /\ UNCHANGED <<startVars, step, failedAt>>

(* await_for_server(), on an event of the server thread or on a quit; the  *)
(* SDL subsystems may also fail to start before.                           *)
AwaitForServer ==
    /\ main = "await"
    /\ \/ /\ verdict = "connected"
          /\ main' = IF params.list THEN "stop" ELSE "setup"
       \/ verdict = "failed" /\ main' = "stop"
       \/ main' = "stop"   \* SDL_EVENT_QUIT, or SDL_Init() failed
    /\ MainUnmoved

CreateNext ==
    /\ main = "setup"
    /\ step <= Len(Order)
    /\ LET r == Order[step] IN
       \/ /\ Needed(r)
          /\ res' = [res EXCEPT ![r] = IF r \in {"usbDevice", "hidDevice"}
                                       THEN "released" ELSE "held"]
          /\ step' = step + 1
          /\ UNCHANGED <<main, failedAt>>
       \/ ~Needed(r) /\ step' = step + 1 /\ UNCHANGED <<res, main, failedAt>>
       \/ /\ Needed(r)
          /\ failedAt' = r
          /\ res' = ReleasedFrom(res, CleanedUpAt(r))
          /\ main' = "stop"
          /\ UNCHANGED step
    /\ UNCHANGED startVars

(* The event loop: a quit, a time limit, an error or a disconnection.      *)
EnterLoop == main = "setup" /\ step > Len(Order) /\ main' = "loop" /\ MainUnmoved
LeaveLoop == main = "loop" /\ main' = "stop" /\ MainUnmoved

--------------------------------------------------------------------------------
(* The label "end"                                                         *)

(* Every started component is told to stop, the server last.               *)
StopComponents ==
    /\ main = "stop"
    /\ main' = "release"
    /\ step' = 1
    /\ IF res["serverThread"] = "held" THEN ServerStop ELSE UNCHANGED startVars
    /\ UNCHANGED <<res, failedAt>>

(* Mutation: acksync is released when it was initialised, not when the AOA *)
(* set-up was complete.                                                    *)
ReleaseOrder_Acksync ==
    << {"timeoutThread"}, {"timeout"}, {"videoDemuxer"}, {"audioDemuxer"},
       {"v4l2"},
       IF res["aoaThread"] = "held"
       THEN {"aoaThread", "aoa", "usbConnection", "usb", "keyboardAoa", "mouseAoa"}
       ELSE {},
       IF res["acksync"] # "none" THEN {"acksync"} ELSE {},
       {"screen"}, {"controllerThread"}, {"controller"}, {"recorderThread"},
       {"recorder"}, {"filePusher"}, {"serverThread"}, {"server"} >>

(* Mutation: the server, which closes the sockets, is destroyed before the *)
(* threads that read and write them are joined.                            *)
ReleaseOrder_ServerFirst ==
    << {"timeoutThread"}, {"timeout"}, {"server"}, {"videoDemuxer"},
       {"audioDemuxer"}, {"v4l2"},
       IF res["aoaThread"] # "none"
       THEN {"aoaThread", "aoa", "usbConnection", "usb", "keyboardAoa", "mouseAoa"}
       ELSE {},
       IF res["aoaThread"] # "none" THEN {"acksync"} ELSE {},
       {"screen"}, {"controllerThread"}, {"controller"}, {"recorderThread"},
       {"recorder"}, {"filePusher"}, {"serverThread"} >>

(* In the order of the code.  The AOA resources go together, when the AOA  *)
(* set-up was complete (aoa_hid_initialized, acksync # NULL).              *)
ReleaseOrder ==
    LET aoaComplete == res["aoaThread"] # "none" IN
    << {"timeoutThread"}, {"timeout"}, {"videoDemuxer"}, {"audioDemuxer"},
       {"v4l2"},
       IF aoaComplete
       THEN {"aoaThread", "aoa", "usbConnection", "usb", "keyboardAoa", "mouseAoa"}
       ELSE {},
       IF aoaComplete THEN {"acksync"} ELSE {},
       {"screen"}, {"controllerThread"}, {"controller"}, {"recorderThread"},
       {"recorder"}, {"filePusher"}, {"serverThread"}, {"server"} >>

(* The sockets are shut down, or their peer is gone.                       *)
StreamsOver == device \in {"zombie", "reaped"}
               \/ pc \in {"watchdog", "finalJoin", "kill-server", "ended"}

(* The threads that block on a socket end when it is shut down; the others *)
(* were told to stop.                                                      *)
Joinable(r) ==
    CASE r \in {"videoDemuxer", "audioDemuxer", "controllerThread"} -> StreamsOver
      [] r = "serverThread" -> pc = "ended"
      [] OTHER -> TRUE

(* The flags xxx_initialized and xxx_started say what there is to release; *)
(* sc_server_destroy() comes last, always.                                 *)
ReleaseNext ==
    /\ main = "release"
    /\ step <= Len(ReleaseOrder)
    /\ LET present == {r \in ReleaseOrder[step] :
                         res[r] # "none" \/ r \in {"acksync", "server"}}
       IN /\ \A r \in present : Joinable(r)
          /\ res' = ReleasedFrom(res, present)
          /\ IF "server" \in present THEN ServerDestroy ELSE UNCHANGED startVars
    /\ step' = step + 1
    /\ main' = IF step = Len(ReleaseOrder) THEN "exited" ELSE main
    /\ UNCHANGED failedAt

MainThread == StartServerThread \/ AwaitForServer \/ CreateNext \/ EnterLoop
              \/ LeaveLoop \/ StopComponents \/ ReleaseNext
MainUnchanged == UNCHANGED <<main, step, res, failedAt>>

ServerSteps == res["serverThread"] = "held" /\ ServerThread /\ MainUnchanged
ObserverSteps == ObserverThread /\ MainUnchanged
AdbSteps == (AdbProcessEnds \/ OrphanEnds) /\ MainUnchanged
DeviceEnding == DeviceEnds /\ MainUnchanged
DeviceLiving == DeviceSteps /\ MainUnchanged
Returned0 == main = "exited" /\ UNCHANGED vars   \* scrcpy() has returned

Next == MainThread \/ ServerSteps \/ ObserverSteps \/ AdbSteps \/ DeviceEnding
        \/ DeviceLiving \/ Returned0

(* The threads run; nothing is said of adb, of the network or of the       *)
(* device, but that a process executed to list something terminates.       *)
Fairness ==
    /\ WF_vars(ServerSteps) /\ WF_vars(ObserverSteps)
    /\ WF_vars(CreateNext) /\ WF_vars(StopComponents) /\ WF_vars(ReleaseNext)
    /\ WF_vars(verdict # "none" /\ AwaitForServer)
    /\ WF_vars(pc = "waitList" /\ DeviceEnding)

Spec == Init /\ [][Next]_vars /\ Fairness

--------------------------------------------------------------------------------
(* Properties                                                              *)

(* The program counters, sockets and resources have their types; a call is *)
(* blocked only where the thread may block.                                *)
TypeOK ==
    /\ params \in Params
    /\ pc \in AdbCommands \cup SocketCalls \cup
              {"pollSleep", "execute", "executeList", "waitList", "nextPort",
               "connectRetry", "connectSleep", "connectFailed", "terminate",
               "join", "connected", "watchdog", "finalJoin", "failed", "ended"}
    /\ call \in {"none", "blocked", "ok", "failed"}
    /\ call = "blocked" => ~interrupted /\ pc \in AdbCommands \cup SocketCalls
    /\ port \in 1..LastPort /\ attempts \in 0..(Attempts + 1)
    /\ tunnel \in [enabled : BOOLEAN, forward : BOOLEAN]
    /\ adbTunnels \subseteq {"reverse", "forward"} \X (1..LastPort)
    /\ orphans \subseteq AdbCommands \X (1..LastPort)
    /\ device \in {"none", "starting", "up", "zombie", "reaped"}
    /\ connections \in 0..3
    /\ observer \in {"none", "waiting", "terminated", "ended"}
    /\ interrupted \in BOOLEAN /\ stopped \in BOOLEAN
    /\ fds \in [Sockets -> {"none", "open", "closed", "closedTwice"}]
    /\ stored \subseteq Sockets
    /\ verdict \in {"none", "connected", "failed"}
    /\ main \in {"start", "await", "setup", "loop", "stop", "release", "exited"}
    /\ step \in 1..(Len(Order) + 1)
    /\ res \in [Resources -> {"none", "held", "released", "releasedTwice"}]

(* The adb daemon holds a tunnel only while the thread opens it, or uses   *)
(* it to connect; only an interruption may leave one behind                *)
(* (sc_adb_tunnel_open(), sc_server_connect_to()).                         *)
TunnelsAreRemoved ==
    adbTunnels # {} /\ ~interrupted =>
        \/ tunnel.enabled
        \/ pc \in {"reverse", "listen", "reverse --remove"}
        \/ pc \in {"forward", "forward --remove"} /\ call = "ok"

(* When scrcpy() returns, every socket that was opened has been closed,    *)
(* once; the server process is reaped; every component that was created    *)
(* has been released, once -- but for what a failing AOA set-up leaves:    *)
(* acksync when no USB device is found, the HID devices already set up --  *)
(* and tunnels are removed on the way.                                     *)
NothingLeftBehind ==
    /\ TunnelsAreRemoved
    /\ \A s \in Sockets : fds[s] # "closedTwice"
    /\ \A r \in Resources : res[r] # "releasedTwice"
    /\ main = "exited" =>
        /\ \A s \in Sockets : fds[s] # "open"
        /\ device \in {"none", "reaped"}
        /\ \A r \in Resources : res[r] = "held" =>
              \/ r = "acksync" /\ failedAt = "usbDevice"
              \/ r = "keyboardAoa" /\ failedAt \in {"mouseAoa", "aoaThread"}
              \/ r = "mouseAoa" /\ failedAt = "aoaThread"

(* The demuxers and the controller get a socket each -- for every stream   *)
(* that was asked for, as sc_server_connect_to() asserts -- and it remains *)
(* open until their thread is joined: sc_server_destroy() comes last.      *)
UserOf == [video |-> "videoDemuxer", audio |-> "audioDemuxer",
           control |-> "controllerThread"]
StreamsHaveTheirSockets ==
    /\ main \in {"setup", "loop"} => Wanted \subseteq stored
    /\ \A r \in Roles : res[UserOf[r]] = "held" => r \in stored /\ fds[r] = "open"

(* What scrcpy() creates lives as long as it is used, and no longer (the   *)
(* order of the label "end" of scrcpy.c).                                  *)
ResourcesAreOwned == NothingLeftBehind /\ StreamsHaveTheirSockets

(* Once told to stop, scrcpy() returns, whatever adb, the network and the  *)
(* device do: no call of the server thread outlives the interruption.      *)
StopEnds == (main = "stop") ~> (main = "exited")

(* The main thread gets an answer from the server thread, even if the      *)
(* server dies before it connects, or never listens, provided that adb     *)
(* commands end and that the device goes on until it connects or dies.     *)
MainIsAnswered ==
    WF_vars(AdbSteps) /\ WF_vars(DeviceLiving)
        => ((main = "await") ~> (main # "await"))
================================================================================
