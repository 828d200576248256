------------------------------ MODULE ServerStart ------------------------------
(***************************************************************************)
(* The server thread of the client (app/src/server.c): start the adb       *)
(* daemon, select a device, switch it to TCP/IP, push the server, open an  *)
(* adb tunnel, execute the server, connect the sockets, close the tunnel,  *)
(* wait for sc_server_stop(), then stop the server or kill it.             *)
(*                                                                         *)
(* Every blocking call of the thread is an adb process or a socket that is *)
(* registered in server->intr for the time of the call, so that            *)
(* sc_intr_interrupt() may kill it or shut it down.  The call is           *)
(* interrupted by sc_server_stop() (main thread) and when the server       *)
(* process terminates (observer thread).                                   *)
(***************************************************************************)
EXTENDS Naturals, Sequences, FiniteSets

CONSTANTS
    Params,       \* the server parameters considered (struct sc_server_params)
    Devices,      \* what "adb devices" may list: [type |-> ..., ready |-> ...]
    LastPort,     \* the port range is 1 .. LastPort
    Attempts      \* bound: connection attempts (100), polls of adbd (40)

ASSUME ServerConstantsOK ==
    /\ LastPort \in Nat \ {0} /\ Attempts \in Nat \ {0}
    /\ \A p \in Params : p.video \/ p.audio \/ p.control

VARIABLES
    params,       \* server->params
    pc,           \* what the server thread does next
    call,         \* its blocking call: "none", "blocked" (registered in intr),
                  \*   "ok" or "failed" once it returned
    after,        \* where the closing of the tunnel returns to
    port,         \* the port being tried (uint16_t port), then tunnel->local_port
    attempts,     \* remaining attempts of the loop being run
    tunnel,       \* [enabled, forward]: struct sc_adb_tunnel
    adbTunnels,   \* external: the tunnels the adb daemon holds
    orphans,      \* adb commands that run but that nobody waits for
    device,       \* external: the process started by execute_server(): "none",
                  \*   "starting", "up", "zombie" or "reaped"
    connections,  \* external: sockets the device has opened through the tunnel
    observer,     \* the thread of the process observer
    interrupted,  \* server->intr.interrupted
    stopped,      \* server->stopped
    fds,          \* every socket: "none", "open", "closed" or "closedTwice"
    stored,       \* the sockets kept in *server (x_socket # SC_SOCKET_NONE)
    verdict       \* the callback called: "none", "connected" or "failed"

threadVars == <<pc, call, after, port, attempts>>
tunnelVars == <<tunnel, adbTunnels, orphans>>
deviceVars == <<device, connections, observer>>
intrVars   == <<interrupted, stopped>>
socketVars == <<fds, stored>>
startVars  == <<params, threadVars, tunnelVars, deviceVars, intrVars,
                socketVars, verdict>>

Roles == {"video", "audio", "control"}
Sockets == {"server"} \cup Roles
NoCommand == <<"none", 0>>

(* The sockets to connect, the ones already there, and the next one, in    *)
(* the order video, audio, control.                                        *)
Wanted == {r \in Roles : params[r]}
Connected == {r \in Roles : fds[r] = "open"}
NextRole == LET missing == Wanted \ Connected
            IN IF "video" \in missing THEN "video"
               ELSE IF "audio" \in missing THEN "audio" ELSE "control"

(* sc_server_init().                                                       *)
StartInit ==
    /\ params \in Params
    /\ pc = "start-server" /\ call = "none" /\ after = "none"
    /\ port = 1 /\ attempts = 0
    /\ tunnel = [enabled |-> FALSE, forward |-> FALSE]
    /\ adbTunnels = {} /\ orphans = {}
    /\ device = "none" /\ connections = 0 /\ observer = "none"
    /\ interrupted = FALSE /\ stopped = FALSE
    /\ fds = [s \in Sockets |-> "none"] /\ stored = {}
    /\ verdict = "none"

--------------------------------------------------------------------------------
(* Blocking calls: adb processes and sockets under intr                    *)

AdbCommands == {"start-server", "devices", "ip route", "getprop", "tcpip",
                "poll", "disconnect", "connect", "push", "reverse", "forward",
                "reverse --remove", "forward --remove", "kill-server"}
Removals == {"reverse --remove", "forward --remove"}
SocketCalls == {"listen", "accept", "connectFirst", "readByte", "connectNext",
                "readInfo"}

(* What a command leaves in the adb daemon when it succeeds.  The reverse  *)
(* tunnel is identified by the device socket name, the forward one by the  *)
(* local port.                                                             *)
Effect(command, p) ==
    CASE command = "reverse" -> (adbTunnels \ {<<"reverse", q>> : q \in 1..LastPort})
                                    \cup {<<"reverse", p>>}
      [] command = "reverse --remove" ->
            adbTunnels \ {<<"reverse", q>> : q \in 1..LastPort}
      [] command = "forward" -> adbTunnels \cup {<<"forward", p>>}
      [] command = "forward --remove" -> adbTunnels \ {<<"forward", p>>}
      [] OTHER -> adbTunnels

(* sc_process_execute_p(): the process runs, or could not be started.  The *)
(* commands that remove a tunnel are assumed to start, and to succeed      *)
(* unless they are interrupted.                                            *)
ExecuteResults == IF pc \in Removals THEN {"blocked"} ELSE {"blocked", "failed"}

(* The thread starts a process, or calls a function of net_intr.c.  When   *)
(* it is already interrupted, sc_intr_set_process() fails: the command is  *)
(* neither waited for nor reaped, it just runs.                            *)
Enter ==
    /\ pc \in AdbCommands \cup SocketCalls
    /\ call = "none"
    /\ \/ /\ interrupted
          /\ call' = "failed"
          /\ orphans' = IF pc \in AdbCommands THEN orphans \cup {<<pc, port>>}
                                              ELSE orphans
       \/ /\ ~interrupted
          /\ call' \in ExecuteResults
          /\ UNCHANGED orphans
    /\ UNCHANGED <<params, pc, after, port, attempts, tunnel, adbTunnels,
                   deviceVars, intrVars, socketVars, verdict>>

(* External: the adb process terminates.                                   *)
AdbProcessEnds ==
    /\ pc \in AdbCommands
    /\ call = "blocked"
    /\ \/ call' = "ok" /\ adbTunnels' = Effect(pc, port)
       \/ /\ pc \notin Removals
          /\ call' = "failed" /\ UNCHANGED adbTunnels
    /\ UNCHANGED <<params, pc, after, port, attempts, tunnel, orphans,
                   deviceVars, intrVars, socketVars, verdict>>

(* External: a command that was not waited for does its work, or fails.    *)
OrphanEnds ==
    /\ \E c \in orphans :
        /\ orphans' = orphans \ {c}
        /\ adbTunnels' \in {adbTunnels, Effect(c[1], c[2])}
    /\ UNCHANGED <<params, threadVars, tunnel, deviceVars, intrVars,
                   socketVars, verdict>>

(* External: the kernel and adb complete a socket call.  Through adb, a    *)
(* connection may succeed before the server listens: then no byte comes.   *)
SocketCallEnds ==
    /\ call = "blocked"
    /\ UNCHANGED <<params, pc, after, port, attempts, tunnelVars, deviceVars,
                   intrVars, socketVars, verdict>>
    /\ \/ pc = "listen" /\ call' \in {"ok", "failed"}
       \/ pc = "accept" /\ connections > Cardinality(Connected) /\ call' = "ok"
       \/ pc \in {"connectFirst", "connectNext"} /\ call' \in {"ok", "failed"}
       \/ pc = "readByte" /\ call' = IF device = "up" THEN "ok" ELSE "failed"
       \/ pc = "readInfo" /\ device = "up" /\ call' = "ok"
       \/ pc = "readInfo" /\ device \in {"zombie", "reaped"} /\ call' = "failed"

(* sc_intr_interrupt(): kill the process or shut down the socket that is   *)
(* registered.  The adb daemon may have done what the process asked.       *)
Interrupt ==
    /\ interrupted' = TRUE
    /\ call' = IF call = "blocked" THEN "failed" ELSE call
    /\ IF call = "blocked" /\ pc \in AdbCommands
       THEN adbTunnels' \in {adbTunnels, Effect(pc, port)}
       ELSE UNCHANGED adbTunnels

Returned(p) == pc = p /\ call \in {"ok", "failed"} /\ call' = "none"
Ok == call = "ok"
Goto(p) == pc' = p
Unmoved == UNCHANGED <<params, deviceVars, intrVars, orphans, adbTunnels, verdict>>

(* A step that only tests the result of the call.                          *)
Then(p, onOk, onFailed) ==
    /\ Returned(p)
    /\ Goto(IF Ok THEN onOk ELSE onFailed)
    /\ Unmoved
    /\ UNCHANGED <<after, port, attempts, tunnel, socketVars>>

--------------------------------------------------------------------------------
(* run_server(), until the server is pushed                                *)

Failed == "failed"
AfterPush == IF params.list THEN "executeList"
             ELSE IF params.forceForward THEN "forward" ELSE "reverse"

StartAdbServer ==
    Then("start-server",
         IF ~params.tcpipDst THEN "devices"
         ELSE IF params.plus THEN "disconnect" ELSE "connect", Failed)

(* sc_adb_accept_device().                                                 *)
Accepts(d) ==
    CASE params.selector = "all" -> TRUE
      [] params.selector = "serial" -> d.requested
      [] params.selector = "usb" -> d.type = "usb"
      [] params.selector = "tcpip" -> d.type # "usb"

(* A device already connected via TCP/IP is kept as it is.                 *)
AfterSelection(d) == IF params.tcpip /\ d.type # "tcpip" THEN "ip route" ELSE "push"

(* sc_adb_select_device(): exactly one accepted device, in state "device". *)
SelectDevice ==
    /\ Returned("devices")
    /\ \E listed \in SUBSET Devices :
        LET selected == {d \in listed : Accepts(d)}
        IN IF Ok /\ Cardinality(selected) = 1 /\ \A d \in selected : d.ready
           THEN \E d \in selected : Goto(AfterSelection(d))
           ELSE Goto(Failed)
    /\ Unmoved
    /\ UNCHANGED <<after, port, attempts, tunnel, socketVars>>

(* sc_server_switch_to_tcpip(): the port of adbd may already be set.       *)
GetIp == Then("ip route", "getprop", Failed)
GetAdbTcpPort ==
    /\ Returned("getprop")
    /\ \E known \in (IF Ok THEN BOOLEAN ELSE {FALSE}) :
        Goto(IF known THEN "connect" ELSE "tcpip")
    /\ Unmoved
    /\ UNCHANGED <<after, port, attempts, tunnel, socketVars>>
SwitchToTcpip ==
    /\ Returned("tcpip")
    /\ Goto(IF Ok THEN "poll" ELSE Failed)
    /\ attempts' = Attempts + 1   \* one poll before the loop
    /\ Unmoved
    /\ UNCHANGED <<after, port, tunnel, socketVars>>

(* wait_tcpip_mode_enabled(): a failing getprop is just a wrong port.      *)
PollTcpipMode ==
    /\ Returned("poll")
    /\ \E enabled \in (IF Ok THEN BOOLEAN ELSE {FALSE}) :
        /\ attempts' = IF enabled THEN 0 ELSE attempts - 1
        /\ Goto(IF enabled THEN "connect"
                ELSE IF attempts = 1 THEN Failed ELSE "pollSleep")
    /\ Unmoved
    /\ UNCHANGED <<after, port, tunnel, socketVars>>

(* sc_server_sleep(): until the deadline, or until stopped.                *)
Sleep(p, onTimeout, onStop) ==
    /\ pc = p
    /\ Goto(IF stopped THEN onStop ELSE onTimeout)
    /\ Unmoved
    /\ UNCHANGED <<call, after, port, attempts, tunnel, socketVars>>
PollSleep == Sleep("pollSleep", "poll", Failed)

(* sc_server_connect_to_tcpip().  The result of disconnect is ignored.     *)
Disconnect == Then("disconnect", "connect", "connect")
ConnectTcpip == Then("connect", "push", Failed)
PushServer == Then("push", AfterPush, Failed)

--------------------------------------------------------------------------------
(* sc_adb_tunnel_open() and sc_adb_tunnel_close()                          *)

(* Mutation: the reverse tunnel is left when its port cannot be used.      *)
OpenReverse_Left ==
    \/ Then("reverse", "listen", "forward")
    \/ /\ Returned("listen")
       /\ IF Ok
          THEN /\ fds' = [fds EXCEPT !["server"] = "open"]
               /\ tunnel' = [tunnel EXCEPT !.enabled = TRUE]
               /\ Goto("execute")
               /\ UNCHANGED port
          ELSE /\ Goto(IF interrupted \/ port = LastPort THEN "forward"
                                                         ELSE "reverse")
               /\ port' = IF interrupted \/ port = LastPort THEN 1 ELSE port + 1
               /\ UNCHANGED <<tunnel, fds>>
       /\ Unmoved
       /\ UNCHANGED <<after, attempts, stored>>

(* enable_tunnel_reverse_any_port(): the command itself fails on any port; *)
(* when the port cannot be listened on, the reverse tunnel is removed and  *)
(* the next one is tried.  The fallback is "adb forward".                  *)
OpenReverse ==
    \/ Then("reverse", "listen", "forward") 
    \/ /\ Returned("listen")
       /\ IF Ok
          THEN /\ fds' = [fds EXCEPT !["server"] = "open"]
               /\ tunnel' = [tunnel EXCEPT !.enabled = TRUE]
               /\ Goto("execute")
               /\ UNCHANGED <<after, port>>
          ELSE /\ Goto(IF interrupted THEN "forward" ELSE "reverse --remove")
               /\ after' = "nextPort"
               /\ port' = IF interrupted THEN 1 ELSE port
               /\ UNCHANGED <<tunnel, fds>>
       /\ Unmoved
       /\ UNCHANGED <<attempts, stored>>
    \/ /\ after = "nextPort"
       /\ Returned("reverse --remove")
       /\ Goto(IF port < LastPort THEN "reverse" ELSE "forward")
       /\ port' = IF port < LastPort THEN port + 1 ELSE 1
       /\ Unmoved
       /\ UNCHANGED <<after, attempts, tunnel, socketVars>>

(* Mutation: the last port of the range is not tested.                     *)
OpenForward_Unbounded ==
    /\ Returned("forward")
    /\ tunnel' = [enabled |-> Ok, forward |-> TRUE]
    /\ IF Ok THEN Goto("execute") /\ UNCHANGED port
       ELSE IF interrupted THEN Goto(Failed) /\ UNCHANGED port
       ELSE Goto("forward") /\ port' = port + 1
    /\ Unmoved
    /\ UNCHANGED <<after, attempts, socketVars>>

(* enable_tunnel_forward_any_port().                                       *)
OpenForward ==
    /\ Returned("forward")
    /\ tunnel' = [enabled |-> Ok, forward |-> TRUE]
    /\ IF Ok THEN Goto("execute") /\ UNCHANGED port
       ELSE IF interrupted \/ port = LastPort THEN Goto(Failed) /\ UNCHANGED port
       ELSE Goto("forward") /\ port' = port + 1
    /\ Unmoved
    /\ UNCHANGED <<after, attempts, socketVars>>

(* net_close().                                                            *)
Close(set) == fds' = [s \in Sockets |->
                        IF s \notin set THEN fds[s]
                        ELSE IF fds[s] = "open" THEN "closed" ELSE "closedTwice"]

CloseTunnel(next) ==
    /\ Goto(IF tunnel.forward THEN "forward --remove" ELSE "reverse --remove")
    /\ after' = next

(* sc_adb_tunnel_close(): disabled even if the command failed.             *)
TunnelClosed ==
    /\ after # "nextPort"
    /\ Returned(IF tunnel.forward THEN "forward --remove" ELSE "reverse --remove")
    /\ Close(IF tunnel.forward THEN {} ELSE {"server"})
    /\ tunnel' = [tunnel EXCEPT !.enabled = FALSE]
    /\ Goto(after)
    /\ Unmoved
    /\ UNCHANGED <<after, port, attempts, stored>>

--------------------------------------------------------------------------------
(* execute_server(), sc_server_connect_to()                                *)

(* The server may not start (a parameter with a special character, no adb  *)
(* binary); then its process is observed.  If the observer cannot be       *)
(* created, the process is killed and waited for.                          *)
ExecuteServer ==
    /\ pc = "execute"
    /\ \/ CloseTunnel(Failed) /\ UNCHANGED <<device, observer>>
       \/ params.valid /\ CloseTunnel(Failed) /\ device' = "reaped" /\ UNCHANGED observer
       \/ /\ params.valid
          /\ device' = "starting"
          /\ observer' = "waiting"
          /\ Goto(IF tunnel.forward THEN "connectFirst" ELSE "accept")
          /\ UNCHANGED after
    /\ attempts' = Attempts
    /\ UNCHANGED <<params, call, port, tunnelVars, connections, intrVars,
                   socketVars, verdict>>

(* --list-*: the process is executed and waited for, out of intr.          *)
ExecuteList ==
    \/ /\ pc = "executeList"
       /\ \/ Goto(Failed) /\ UNCHANGED device
          \/ params.valid /\ Goto("waitList") /\ device' = "starting"
       /\ UNCHANGED <<params, call, after, port, attempts, tunnelVars,
                      connections, observer, intrVars, socketVars, verdict>>
    \/ /\ pc = "waitList" /\ device = "zombie"
       /\ device' = "reaped"
       /\ verdict' = "connected"
       /\ Goto("ended")
       /\ UNCHANGED <<params, call, after, port, attempts, tunnelVars,
                      connections, observer, intrVars, socketVars>>

(* The socket is there: on to the next one, then close the tunnel.         *)
GotSocket(r, again) ==
    /\ fds' = [fds EXCEPT ![r] = "open"]
    /\ IF Wanted \subseteq Connected \cup {r} THEN CloseTunnel("readInfo")
       ELSE Goto(again) /\ UNCHANGED after

(* net_accept_intr() on the reverse tunnel, in the order video, audio,     *)
(* control.                                                                *)
AcceptSocket ==
    /\ Returned("accept")
    /\ IF Ok THEN GotSocket(NextRole, "accept")
             ELSE Goto("connectFailed") /\ UNCHANGED <<fds, after>>
    /\ Unmoved
    /\ UNCHANGED <<port, attempts, tunnel, stored>>

(* connect_to_server(): one byte proves that the server listens.           *)
ConnectFirst ==
    \/ Then("connectFirst", "readByte", "connectRetry")
    \/ /\ Returned("readByte")
       /\ IF Ok THEN GotSocket(NextRole, "connectNext")
                ELSE Goto("connectRetry") /\ UNCHANGED <<fds, after>>
       /\ Unmoved
       /\ UNCHANGED <<port, attempts, tunnel, stored>>
    \/ /\ pc = "connectRetry"
       /\ Goto(IF interrupted THEN "connectFailed" ELSE "connectSleep")
       /\ Unmoved
       /\ UNCHANGED <<call, after, port, attempts, tunnel, socketVars>>
    \/ /\ pc = "connectSleep"
       /\ attempts' = IF stopped THEN attempts ELSE attempts - 1
       /\ Goto(IF stopped \/ attempts = 1 THEN "connectFailed" ELSE "connectFirst")
       /\ Unmoved
       /\ UNCHANGED <<call, after, port, tunnel, socketVars>>

ConnectNext ==
    /\ Returned("connectNext")
    /\ IF Ok THEN GotSocket(NextRole, "connectNext")
       ELSE /\ fds' = [fds EXCEPT ![NextRole] = "open"]   \* closed on failure
            /\ Goto("connectFailed") /\ UNCHANGED after
    /\ Unmoved
    /\ UNCHANGED <<port, attempts, tunnel, stored>>

(* Mutation: the sockets are kept in the server before the information is  *)
(* read.                                                                   *)
ReadInfo_StoredBefore ==
    /\ Returned("readInfo")
    /\ stored' = Connected
    /\ IF Ok THEN Goto("connected") ELSE Goto("connectFailed")
    /\ verdict' = IF Ok THEN "connected" ELSE verdict
    /\ UNCHANGED <<params, after, port, attempts, tunnelVars, deviceVars,
                   intrVars, fds>>

(* device_read_info(), then the sockets are kept in the server.            *)
ReadInfo ==
    /\ Returned("readInfo")
    /\ IF Ok THEN stored' = Connected /\ verdict' = "connected" /\ Goto("connected")
             ELSE Goto("connectFailed") /\ UNCHANGED <<stored, verdict>>
    /\ UNCHANGED <<params, after, port, attempts, tunnelVars, deviceVars,
                   intrVars, fds>>

(* The label fail of sc_server_connect_to(): close the sockets, and the    *)
(* tunnel if it is still there; then run_server() kills the process.       *)
ConnectFailed ==
    /\ pc = "connectFailed"
    /\ Close(Connected)
    /\ IF tunnel.enabled THEN CloseTunnel("terminate")
                         ELSE Goto("terminate") /\ UNCHANGED after
    /\ Unmoved
    /\ UNCHANGED <<call, port, attempts, tunnel, stored>>

--------------------------------------------------------------------------------
(* The server process, its observer, and the end of the thread             *)

(* External: the device runs the server, connects or listens, may die at   *)
(* any time, and terminates once its sockets are shut down.                *)
DeviceStarts ==
    /\ device = "starting" /\ pc # "waitList"
    /\ device' = "up"
    /\ UNCHANGED <<params, threadVars, tunnelVars, connections, observer,
                   intrVars, socketVars, verdict>>
DeviceConnects ==
    /\ device = "up" /\ ~tunnel.forward
    /\ connections < Cardinality(Wanted)
    /\ \E t \in adbTunnels : t[1] = "reverse"
    /\ connections' = connections + 1
    /\ UNCHANGED <<params, threadVars, tunnelVars, device, observer, intrVars,
                   socketVars, verdict>>
DeviceEnds ==
    /\ device \in {"starting", "up"}
    /\ device' = "zombie"
    /\ UNCHANGED <<params, threadVars, tunnelVars, connections, observer,
                   intrVars, socketVars, verdict>>

(* run_observer(), then sc_server_on_terminated().                         *)
ObserveTermination ==
    /\ observer = "waiting" /\ device \in {"zombie", "reaped"}
    /\ observer' = "terminated"
    /\ UNCHANGED <<params, threadVars, tunnelVars, device, connections,
                   intrVars, socketVars, verdict>>

(* Mutation: the pending call is not woken up when the server dies.        *)
OnTerminated_Silent ==
    /\ observer = "terminated"
    /\ observer' = "ended"
    /\ UNCHANGED <<params, threadVars, tunnelVars, device, connections,
                   intrVars, socketVars, verdict>>

OnTerminated ==
    /\ observer = "terminated"
    /\ observer' = "ended"
    /\ Interrupt
    /\ UNCHANGED <<params, pc, after, port, attempts, tunnel, orphans, device,
                   connections, stopped, socketVars, verdict>>

(* sc_process_terminate(), sc_process_wait(), join of the observer.        *)
TerminateServer ==
    /\ \/ pc = "terminate" /\ Goto("join") /\ device' = "reaped"
       \/ pc = "join" /\ observer = "ended" /\ Goto(Failed) /\ UNCHANGED device
    /\ UNCHANGED <<params, call, after, port, attempts, tunnelVars, connections,
                   observer, intrVars, socketVars, verdict>>

(* Wait for the stop, shut the sockets down, give the server one second,   *)
(* kill it if it is not dead, join the observer, reap the process.         *)
WaitStop ==
    /\ UNCHANGED <<params, call, after, port, attempts, tunnelVars, connections,
                   observer, intrVars, socketVars, verdict>>
    /\ \/ pc = "connected" /\ stopped /\ Goto("watchdog") /\ UNCHANGED device
       \/ /\ pc = "watchdog"
          /\ Goto("finalJoin")
          /\ IF observer = "waiting"   \* the delay of one second elapsed
             THEN device' = "zombie" ELSE UNCHANGED device
       \/ /\ pc = "finalJoin" /\ observer = "ended"
          /\ device' = "reaped"
          /\ Goto(IF params.killAdb THEN "kill-server" ELSE "ended")

(* The label error_connection_failed, and sc_server_kill_adb_if_requested. *)
ReportFailure ==
    /\ pc = Failed
    /\ IF params.killAdb THEN Goto("kill-server") /\ UNCHANGED verdict
                         ELSE Goto("ended") /\ verdict' = "failed"
    /\ UNCHANGED <<params, call, after, port, attempts, tunnelVars, deviceVars,
                   intrVars, socketVars>>
KillAdb ==
    /\ Returned("kill-server")
    /\ Goto("ended")
    /\ verdict' = IF verdict = "none" THEN "failed" ELSE verdict
    /\ UNCHANGED <<params, after, port, attempts, tunnelVars, deviceVars,
                   intrVars, socketVars>>

--------------------------------------------------------------------------------
(* Called by the main thread                                               *)

(* Mutation: the waits on the condition are woken up, not the calls.       *)
ServerStop_NoInterrupt ==
    /\ stopped' = TRUE
    /\ UNCHANGED <<params, threadVars, tunnelVars, deviceVars, interrupted,
                   socketVars, verdict>>

(* sc_server_stop().                                                       *)
ServerStop ==
    /\ stopped' = TRUE
    /\ Interrupt
    /\ UNCHANGED <<params, pc, after, port, attempts, tunnel, orphans,
                   deviceVars, socketVars, verdict>>

(* sc_server_destroy(), after the thread is joined.                        *)
ServerDestroy ==
    /\ Close(stored)
    /\ UNCHANGED <<params, threadVars, tunnelVars, deviceVars, intrVars,
                   stored, verdict>>

ServerThread ==
    \/ Enter \/ StartAdbServer \/ SelectDevice \/ GetIp \/ GetAdbTcpPort
    \/ SwitchToTcpip \/ PollTcpipMode \/ PollSleep \/ Disconnect \/ ConnectTcpip
    \/ PushServer \/ OpenReverse \/ OpenForward \/ TunnelClosed \/ ExecuteServer
    \/ ExecuteList \/ AcceptSocket \/ ConnectFirst \/ ConnectNext \/ ReadInfo
    \/ ConnectFailed \/ TerminateServer \/ WaitStop \/ ReportFailure \/ KillAdb
ObserverThread == ObserveTermination \/ OnTerminated
DeviceSteps == DeviceStarts \/ DeviceConnects \/ SocketCallEnds
Environment == AdbProcessEnds \/ OrphanEnds \/ DeviceEnds \/ DeviceSteps
================================================================================
