----------------------------- MODULE StartupProofs -----------------------------
(***************************************************************************)
(* Proofs about the start of a session and its end (Startup), for any set  *)
(* of parameters, any devices, any port range and number of attempts: the  *)
(* types, that nothing is left behind and nothing released twice, and that *)
(* the threads have their sockets as long as they run.                     *)
(***************************************************************************)
EXTENDS Startup, FiniteSetTheorems, TLAPS

(* The thread is blocked only in a call, and counts its attempts.          *)
Calls == AdbCommands \cup SocketCalls
Pcs == Calls \cup
       {"pollSleep", "execute", "executeList", "waitList", "nextPort",
        "connectRetry", "connectSleep", "connectFailed", "terminate",
        "join", "connected", "watchdog", "finalJoin", "failed", "ended"}
Counted == {"poll", "pollSleep", "connectFirst", "readByte", "connectRetry",
            "connectSleep"}

ThreadInv ==
    /\ params \in Params
    /\ pc \in Pcs
    /\ call \in {"none", "blocked", "ok", "failed"}
    /\ after \in {"none", "nextPort", "readInfo", "failed", "terminate"}
    /\ interrupted \in BOOLEAN /\ stopped \in BOOLEAN
    /\ port \in 1..LastPort /\ attempts \in 0..(Attempts + 1)
    /\ pc \notin Calls => call = "none"
    /\ call = "blocked" => ~interrupted
    /\ call = "failed" /\ pc \in Removals => interrupted
    /\ pc \in Removals => after # "none"
    /\ pc \in Counted => attempts >= 1

(* tunnel->enabled is true from the opening of the tunnel to its closing.  *)
Opening == {"reverse", "listen", "forward"}
Selecting == {"start-server", "devices", "ip route", "getprop", "tcpip",
              "poll", "pollSleep", "disconnect", "connect", "push"}
Connecting == {"execute", "accept", "connectFirst", "readByte",
               "connectRetry", "connectSleep", "connectNext"}

TunnelInv ==
    /\ tunnel \in [enabled : BOOLEAN, forward : BOOLEAN]
    /\ pc \in Selecting \cup {"reverse", "listen"} => ~tunnel.forward
    /\ pc \in Removals => /\ tunnel.enabled <=> after # "nextPort"
                          /\ tunnel.forward <=> pc = "forward --remove"
    /\ pc \in Connecting => tunnel.enabled
    /\ tunnel.enabled => pc \in Connecting \cup Removals \cup {"connectFailed"}

(* What the adb daemon holds, as long as nothing was interrupted.          *)
Reversed == {"reverse"} \X (1..LastPort)
DaemonTypes ==
    /\ adbTunnels \subseteq {"reverse", "forward"} \X (1..LastPort)
    /\ orphans \subseteq AdbCommands \X (1..LastPort)
DaemonInv ==
    ~interrupted =>
      /\ orphans = {}
      /\ \/ adbTunnels = {}
         \/ /\ adbTunnels \subseteq Reversed
            /\ \/ tunnel.enabled /\ ~tunnel.forward
               \/ pc \in {"listen", "reverse --remove"}
               \/ pc = "reverse" /\ call = "ok"
            /\ ~(pc \in Removals /\ call = "ok")
         \/ /\ adbTunnels \subseteq {<<"forward", port>>}
            /\ (tunnel.enabled /\ tunnel.forward) \/ (pc = "forward" /\ call = "ok")
            /\ ~(pc \in Removals /\ call = "ok")

(* Which sockets are open, where the server thread stands.                 *)
Answered == {"connected", "watchdog", "finalJoin", "kill-server", "ended"}
SocketInv ==
    /\ fds \in [Sockets -> {"none", "open", "closed"}]
    /\ stored \subseteq Roles
    /\ fds["server"] = "open" <=> tunnel.enabled /\ ~tunnel.forward

Gathered == pc = "readInfo" \/ (pc \in Removals /\ after = "readInfo")
StreamInv ==
    /\ verdict \in {"none", "connected", "failed"}
    /\ main # "exited" => stored \subseteq Connected
    /\ \/ stored = Connected
       \/ main = "exited"
       \/ Gathered
       \/ pc \in {"accept", "connectNext", "connectFailed"}
    /\ Gathered => Wanted \subseteq Connected
    /\ verdict # "connected" => stored = {}
    /\ verdict = "connected" => pc \in Answered
    /\ verdict = "connected" /\ ~params.list => Wanted \subseteq stored
    /\ pc \in {"connected", "watchdog", "finalJoin"} => verdict = "connected"
    /\ pc \in {"executeList", "waitList"} => params.list

(* The process of the server is reaped before the thread ends.             *)
Executing == {"waitList", "accept", "connectFirst", "readByte", "connectRetry",
              "connectSleep", "connectNext", "readInfo", "connectFailed",
              "terminate", "connected", "watchdog", "finalJoin"}
DeviceInv ==
    /\ device \in {"none", "starting", "up", "zombie", "reaped"}
    /\ observer \in {"none", "waiting", "terminated", "ended"}
    /\ connections \in 0..3
    /\ \/ device \in {"none", "reaped"}
       \/ pc \in Executing
       \/ pc \in Removals /\ after \in {"readInfo", "terminate"}

(* The place of every component in the order of creation, then of release. *)
Place == [filePusher |-> 1, recorder |-> 2, recorderThread |-> 3,
          controller |-> 4, acksync |-> 5, usb |-> 6, usbDevice |-> 7,
          usbConnection |-> 8, aoa |-> 9, keyboardAoa |-> 10,
          mouseAoa |-> 11, aoaThread |-> 12, hidDevice |-> 13,
          controllerThread |-> 14, screen |-> 15, v4l2 |-> 16,
          videoDemuxer |-> 17, audioDemuxer |-> 18, timeout |-> 19,
          timeoutThread |-> 20]
Parts == DOMAIN Place
ReleasePlace ==
         [timeoutThread |-> 1, timeout |-> 2, videoDemuxer |-> 3,
          audioDemuxer |-> 4, v4l2 |-> 5, usb |-> 6, usbConnection |-> 6,
          aoa |-> 6, keyboardAoa |-> 6, mouseAoa |-> 6, aoaThread |-> 6,
          acksync |-> 7, screen |-> 8, controllerThread |-> 9,
          controller |-> 10, recorderThread |-> 11, recorder |-> 12,
          filePusher |-> 13, serverThread |-> 14, server |-> 15]

(* What is created and destroyed at once, and the AOA set-up: complete, or *)
(* released on the spot but for what NothingLeftBehind excuses.            *)
Transient == {"usbDevice", "hidDevice"}
AoaBase == {"acksync", "usb", "usbConnection", "aoa", "aoaThread"}
AoaHid == {"keyboardAoa", "mouseAoa"}
Simple == Resources \ (Transient \cup AoaBase \cup AoaHid)

Made(r) == IF ~Needed(r) THEN "none"
           ELSE IF r \in Transient THEN "released" ELSE "held"
AtEnd == main \in {"stop", "release", "exited"}
Passed(r) == main = "exited" \/ (main = "release" /\ step > ReleasePlace[r])
Kept(r) == IF Passed(r) THEN "released" ELSE "held"
Excused(r) == \/ r = "acksync" /\ failedAt = "usbDevice"
              \/ r = "keyboardAoa" /\ failedAt \in {"mouseAoa", "aoaThread"}
              \/ r = "mouseAoa" /\ failedAt = "aoaThread"

CreationInv ==
    /\ res \in [Resources -> {"none", "held", "released"}]
    /\ main \in {"start", "await", "setup", "loop", "stop", "release", "exited"}
    /\ step \in 1..21
    /\ main = "release" => step <= 15
    /\ main \in {"start", "await"} => step = 1
    /\ main = "loop" => step = 21
    /\ ~AtEnd => /\ res["server"] = "held"
                 /\ res["serverThread"] = IF main = "start" THEN "none" ELSE "held"
                 /\ \A r \in Parts : res[r] = IF Place[r] < step THEN Made(r) ELSE "none"

ReleaseInv ==
    AtEnd =>
      /\ res["server"] = Kept("server")
      /\ \A r \in Simple : res[r] \in {"none", Kept(r)}
      /\ \A r \in Transient : res[r] # "held"
      /\ res["aoaThread"] # "none" => /\ \A r \in AoaBase : res[r] = Kept(r)
                                      /\ \A r \in AoaHid : res[r] \in {"none", Kept(r)}
      /\ res["aoaThread"] = "none" =>
            \A r \in AoaBase \cup AoaHid : res[r] = "held" => Excused(r)

(* The main thread frees what the server thread uses once it has joined it.*)
JoinInv ==
    /\ main \in {"setup", "loop"} => verdict = "connected" /\ ~params.list
    /\ res["serverThread"] = "none" => pc = "start-server" /\ call = "none"
    /\ res["serverThread"] = "released" => pc = "ended"
    /\ main = "exited" => \A s \in Sockets : fds[s] # "open"
    /\ \A r \in Roles : res[UserOf[r]] = "held" => r \in stored

IInv == ThreadInv /\ TunnelInv /\ DaemonTypes /\ DaemonInv /\ SocketInv
        /\ StreamInv /\ DeviceInv /\ CreationInv /\ ReleaseInv /\ JoinInv

-------------------------------------------------------------------------------
(* What a step does to the state of the server thread: a step of a thread, *)
(* of adb or of the device, or one of the two calls of the main thread.    *)
ServerMoves == \/ ServerThread \/ ObserverThread \/ Environment
               \/ ServerStop \/ ServerDestroy \/ UNCHANGED startVars

LEMMA NextMoves ==
    ASSUME [Next]_vars
    PROVE  ServerMoves
<1>1. CASE MainThread
  BY <1>1 DEF MainThread, StartServerThread, AwaitForServer, CreateNext, EnterLoop,
              LeaveLoop, StopComponents, ReleaseNext, MainUnmoved, ServerMoves
<1>2. CASE ServerSteps \/ ObserverSteps \/ AdbSteps \/ DeviceEnding \/ DeviceLiving
  BY <1>2 DEF ServerSteps, ObserverSteps, AdbSteps, DeviceEnding, DeviceLiving,
              Environment, ServerMoves
<1>3. CASE Returned0 \/ UNCHANGED vars
  BY <1>3 DEF Returned0, vars, ServerMoves
<1> QED BY <1>1, <1>2, <1>3 DEF Next

(* The constants, as the model assumes them.                               *)
LEMMA Constants == LastPort \in Nat \ {0} /\ Attempts \in Nat \ {0}
BY ServerConstantsOK

(* The control of the server thread.                                       *)
LEMMA ThreadKept ==
    ASSUME ThreadInv, UNCHANGED <<params, threadVars, interrupted, stopped>>
    PROVE  ThreadInv'
BY DEF ThreadInv, threadVars

(* An interrupted call has failed.                                         *)
LEMMA Interrupted ==
    ASSUME ThreadInv, Interrupt, UNCHANGED <<params, pc, after, port, attempts>>,
           stopped' \in BOOLEAN
    PROVE  ThreadInv'
<1>1. interrupted' = TRUE /\ call' # "blocked" /\ (call = "none" => call' = "none")
      /\ call' \in {"none", "ok", "failed"}
  BY DEF Interrupt, ThreadInv
<1> QED BY <1>1 DEF ThreadInv

(* Ports and attempts stay in their range.                                 *)
LEMMA PortRange ==
    ASSUME ThreadInv
    PROVE  /\ port \in 1..LastPort /\ 1 \in 1..LastPort
           /\ port # LastPort => port < LastPort
           /\ port < LastPort => port + 1 \in 1..LastPort
BY Constants DEF ThreadInv

LEMMA AttemptsRange ==
    ASSUME ThreadInv, pc \in Counted
    PROVE  /\ attempts \in 0..(Attempts + 1) /\ attempts - 1 \in 0..(Attempts + 1)
           /\ attempts # 1 => attempts - 1 >= 1
BY Constants DEF ThreadInv

LEMMA ThreadStep ==
    ASSUME ThreadInv, ServerMoves
    PROVE  ThreadInv'
<1>1. CASE OrphanEnds \/ DeviceEnds \/ DeviceStarts \/ DeviceConnects
           \/ ObserveTermination \/ ServerDestroy \/ UNCHANGED startVars
  BY <1>1, ThreadKept DEF OrphanEnds, DeviceEnds, DeviceStarts, DeviceConnects,
     ObserveTermination, ServerDestroy, startVars, threadVars, intrVars
<1> USE Constants DEF ThreadInv, Pcs, Calls, AdbCommands, SocketCalls, Removals,
    Counted,
        Returned, Ok, Goto, Unmoved, Failed, intrVars
<1>2. CASE Enter
  <2>1. /\ pc \in Calls /\ UNCHANGED <<params, pc, after, port, attempts, interrupted, stopped>>
        /\ \/ interrupted /\ call' = "failed"
           \/ ~interrupted /\ call' \in ExecuteResults
    BY <1>2 DEF Enter
  <2> HIDE Constants DEF Calls, Pcs, AdbCommands, SocketCalls
  <2> QED BY <2>1 DEF ExecuteResults
<1>3. CASE StartAdbServer
  BY <1>3 DEF StartAdbServer, Then
<1>4. CASE SelectDevice
  BY <1>4 DEF SelectDevice, AfterSelection
<1>5. CASE GetIp
  BY <1>5 DEF GetIp, Then
<1>6. CASE GetAdbTcpPort
  BY <1>6 DEF GetAdbTcpPort
<1>7. CASE SwitchToTcpip
  BY <1>7 DEF SwitchToTcpip
<1>8. CASE PollTcpipMode
  BY <1>8 DEF PollTcpipMode
<1>9. CASE PollSleep
  BY <1>9 DEF PollSleep, Sleep
<1>10. CASE Disconnect
  BY <1>10 DEF Disconnect, Then
<1>11. CASE ConnectTcpip
  BY <1>11 DEF ConnectTcpip, Then
<1>12. CASE PushServer
  BY <1>12 DEF PushServer, Then, AfterPush
<1>13. CASE OpenReverse
  <2>1. CASE Then("reverse", "listen", "forward")
    BY <2>1 DEF Then
  <2>2. CASE OpenReverse /\ pc = "listen"
    <3>1. port' \in {1, port}
      BY <2>2 DEF OpenReverse, Then
    <3>2. port' \in 1..LastPort
      BY <3>1, PortRange
    <3> HIDE Constants
    <3> QED BY <2>2, <3>2 DEF OpenReverse, Then
  <2>3. CASE OpenReverse /\ pc = "reverse --remove"
    <3>1. port' = IF port < LastPort THEN port + 1 ELSE 1
      BY <2>3 DEF OpenReverse, Then
    <3>2. port' \in 1..LastPort
      BY <3>1, PortRange
    <3> HIDE Constants
    <3> QED BY <2>3, <3>2 DEF OpenReverse, Then
  <2> QED BY <1>13, <2>1, <2>2, <2>3 DEF OpenReverse, Returned
<1>14. CASE OpenForward
  <2>1. port' = port \/ (port # LastPort /\ port' = port + 1)
    BY <1>14 DEF OpenForward
  <2>2. port' \in 1..LastPort
    BY <2>1, PortRange
  <2> HIDE Constants
  <2> QED BY <1>14, <2>2 DEF OpenForward
<1>15. CASE TunnelClosed
  BY <1>15 DEF TunnelClosed, Close
<1>16. CASE ExecuteServer
  <2>1. attempts' \in 0..(Attempts + 1) /\ attempts' >= 1
    BY <1>16 DEF ExecuteServer
  <2>2. UNCHANGED <<params, call, port, interrupted, stopped>>
    BY <1>16 DEF ExecuteServer
  <2>3. \/ pc' \in Removals /\ after' = Failed
        \/ pc' \in {"connectFirst", "accept"} /\ after' = after
    BY <1>16 DEF ExecuteServer, CloseTunnel
  <2>4. pc = "execute"
    BY <1>16 DEF ExecuteServer
  <2> HIDE Constants
  <2> QED BY <2>1, <2>2, <2>3, <2>4
<1>17. CASE ExecuteList
  BY <1>17 DEF ExecuteList
<1>18. CASE AcceptSocket
  BY <1>18 DEF AcceptSocket, GotSocket, CloseTunnel
<1>19. CASE ConnectFirst
  <2>1. CASE Then("connectFirst", "readByte", "connectRetry")
    BY <2>1 DEF Then
  <2>2. CASE ConnectFirst /\ pc = "readByte"
    BY <2>2 DEF ConnectFirst, Then, GotSocket, CloseTunnel
  <2>3. CASE ConnectFirst /\ pc = "connectRetry"
    BY <2>3 DEF ConnectFirst, Then, GotSocket, CloseTunnel
  <2>4. CASE ConnectFirst /\ pc = "connectSleep"
    <3>1. \/ attempts' = attempts /\ pc' = "connectFailed"
          \/ attempts' = attempts - 1
             /\ pc' = IF attempts = 1 THEN "connectFailed" ELSE "connectFirst"
      BY <2>4 DEF ConnectFirst, Then
    <3>2. attempts' \in 0..(Attempts + 1) /\ (pc' # "connectFailed" => attempts' >= 1)
      BY <2>4, <3>1, AttemptsRange
    <3>3. UNCHANGED <<params, call, port, after, interrupted, stopped>>
      BY <2>4 DEF ConnectFirst, Then
    <3> HIDE Constants
    <3> QED BY <2>4, <3>1, <3>2, <3>3
  <2> QED BY <1>19, <2>1, <2>2, <2>3, <2>4 DEF ConnectFirst, Returned
<1>20. CASE ConnectNext
  BY <1>20 DEF ConnectNext, GotSocket, CloseTunnel
<1>21. CASE ReadInfo
  BY <1>21 DEF ReadInfo
<1>22. CASE ConnectFailed
  BY <1>22 DEF ConnectFailed, CloseTunnel, Close
<1>23. CASE TerminateServer
  BY <1>23 DEF TerminateServer
<1>24. CASE WaitStop
  BY <1>24 DEF WaitStop
<1>25. CASE ReportFailure
  BY <1>25 DEF ReportFailure
<1>26. CASE KillAdb
  BY <1>26 DEF KillAdb
<1>27. CASE AdbProcessEnds
  BY <1>27 DEF AdbProcessEnds
<1>28. CASE SocketCallEnds
  BY <1>28 DEF SocketCallEnds
<1>29. CASE OnTerminated
  BY <1>29, Interrupted DEF OnTerminated
<1>30. CASE ServerStop
  BY <1>30, Interrupted DEF ServerStop
<1> HIDE Constants DEF ThreadInv, Pcs, Calls, AdbCommands, SocketCalls,
    Removals, Counted
<1> QED BY <1>1, <1>2, <1>3, <1>4, <1>5, <1>6, <1>7, <1>8, <1>9, <1>10, <1>11,
    <1>12, <1>13, <1>14, <1>15, <1>16, <1>17, <1>18, <1>19, <1>20, <1>21, <1>22,
    <1>23, <1>24, <1>25, <1>26, <1>27, <1>28, <1>29, <1>30
    DEF ServerMoves, ServerThread, ObserverThread, Environment, DeviceSteps

(* The tunnel and its closing.                                             *)
LEMMA TunnelKept ==
    ASSUME TunnelInv, UNCHANGED <<pc, after, tunnel>>
    PROVE  TunnelInv'
BY DEF TunnelInv

LEMMA TunnelStep ==
    ASSUME ThreadInv, TunnelInv, ServerMoves
    PROVE  TunnelInv'
<1>1. CASE Enter \/ AdbProcessEnds \/ OrphanEnds \/ DeviceEnds \/ DeviceStarts
           \/ DeviceConnects \/ SocketCallEnds \/ ObserveTermination \/ OnTerminated
           \/ ServerStop \/ ServerDestroy \/ UNCHANGED startVars
  BY <1>1, TunnelKept DEF Enter, AdbProcessEnds, OrphanEnds, DeviceEnds,
      DeviceStarts,
     DeviceConnects, SocketCallEnds, ObserveTermination, OnTerminated, ServerStop,
     ServerDestroy, startVars, threadVars, tunnelVars
<1>a. after \in {"none", "nextPort", "readInfo", "failed", "terminate"}
  BY DEF ThreadInv
<1>b. pc \in Removals => after # "none"
  BY DEF ThreadInv
<1> USE <1>a, <1>b DEF TunnelInv, Removals, Selecting, Connecting, Returned, Ok,
    Goto, Unmoved, Failed,
        tunnelVars
<1>2. CASE StartAdbServer
  BY <1>2 DEF StartAdbServer, Then
<1>3. CASE SelectDevice
  BY <1>3 DEF SelectDevice, AfterSelection
<1>4. CASE GetIp
  BY <1>4 DEF GetIp, Then
<1>5. CASE GetAdbTcpPort
  BY <1>5 DEF GetAdbTcpPort
<1>6. CASE SwitchToTcpip
  BY <1>6 DEF SwitchToTcpip
<1>7. CASE PollTcpipMode
  BY <1>7 DEF PollTcpipMode
<1>8. CASE PollSleep
  BY <1>8 DEF PollSleep, Sleep
<1>9. CASE Disconnect
  BY <1>9 DEF Disconnect, Then
<1>10. CASE ConnectTcpip
  BY <1>10 DEF ConnectTcpip, Then
<1>11. CASE PushServer
  <2>1. pc = "push" /\ pc' \in {"executeList", "forward", "reverse", "failed"}
        /\ UNCHANGED <<after, tunnel>>
    BY <1>11 DEF PushServer, Then, AfterPush
  <2> QED BY <2>1
<1>12. CASE OpenReverse
  BY <1>12 DEF OpenReverse, Then
<1>13. CASE OpenForward
  BY <1>13 DEF OpenForward
<1>14. CASE TunnelClosed
  BY <1>14 DEF TunnelClosed, Close
<1>15. CASE ExecuteServer
  BY <1>15 DEF ExecuteServer, CloseTunnel
<1>16. CASE ExecuteList
  BY <1>16 DEF ExecuteList
<1>17. CASE AcceptSocket
  BY <1>17 DEF AcceptSocket, GotSocket, CloseTunnel
<1>18. CASE ConnectFirst
  BY <1>18 DEF ConnectFirst, Then, GotSocket, CloseTunnel
<1>19. CASE ConnectNext
  BY <1>19 DEF ConnectNext, GotSocket, CloseTunnel
<1>20. CASE ReadInfo
  BY <1>20 DEF ReadInfo
<1>21. CASE ConnectFailed
  BY <1>21 DEF ConnectFailed, CloseTunnel, Close
<1>22. CASE TerminateServer
  BY <1>22 DEF TerminateServer
<1>23. CASE WaitStop
  BY <1>23 DEF WaitStop
<1>24. CASE ReportFailure
  BY <1>24 DEF ReportFailure
<1>25. CASE KillAdb
  BY <1>25 DEF KillAdb
<1> HIDE <1>a, <1>b DEF TunnelInv, Removals, Selecting, Connecting
<1> QED BY <1>1, <1>2, <1>3, <1>4, <1>5, <1>6, <1>7, <1>8, <1>9, <1>10, <1>11,
    <1>12, <1>13, <1>14, <1>15, <1>16, <1>17, <1>18, <1>19, <1>20, <1>21, <1>22,
    <1>23, <1>24, <1>25
    DEF ServerMoves, ServerThread, ObserverThread, Environment, DeviceSteps

(* The tunnels that the adb daemon holds.                                  *)
LEMMA EffectType ==
    ASSUME NEW command, NEW p \in 1..LastPort,
           adbTunnels \subseteq {"reverse", "forward"} \X (1..LastPort)
    PROVE  Effect(command, p) \subseteq {"reverse", "forward"} \X (1..LastPort)
<1>1. CASE command = "reverse"
  BY <1>1 DEF Effect
<1>2. CASE command = "forward"
  BY <1>2 DEF Effect
<1>3. CASE command \in {"reverse --remove", "forward --remove"}
  BY <1>3 DEF Effect
<1>4. CASE command \notin {"reverse", "forward", "reverse --remove", "forward --remove"}
  <2>1. Effect(command, p) = adbTunnels
    BY <1>4 DEF Effect
  <2> QED BY <2>1
<1> QED BY <1>1, <1>2, <1>3, <1>4

(* The steps of the thread leave the daemon alone: its adb processes do.   *)
LEMMA TunnelsKept ==
    ASSUME ServerMoves
    PROVE  \/ UNCHANGED <<adbTunnels, orphans>>
           \/ Enter \/ AdbProcessEnds \/ OrphanEnds \/ OnTerminated \/ ServerStop
<1> USE DEF Unmoved, tunnelVars, startVars
<1>1. CASE StartAdbServer
  BY <1>1 DEF StartAdbServer, Then
<1>2. CASE SelectDevice
  BY <1>2 DEF SelectDevice, AfterSelection
<1>3. CASE GetIp
  BY <1>3 DEF GetIp, Then
<1>4. CASE GetAdbTcpPort
  BY <1>4 DEF GetAdbTcpPort
<1>5. CASE SwitchToTcpip
  BY <1>5 DEF SwitchToTcpip
<1>6. CASE PollTcpipMode
  BY <1>6 DEF PollTcpipMode
<1>7. CASE PollSleep
  BY <1>7 DEF PollSleep, Sleep
<1>8. CASE Disconnect
  BY <1>8 DEF Disconnect, Then
<1>9. CASE ConnectTcpip
  BY <1>9 DEF ConnectTcpip, Then
<1>10. CASE PushServer
  BY <1>10 DEF PushServer, Then, AfterPush
<1>11. CASE OpenReverse
  BY <1>11 DEF OpenReverse, Then
<1>12. CASE OpenForward
  BY <1>12 DEF OpenForward
<1>13. CASE TunnelClosed
  BY <1>13 DEF TunnelClosed, Close
<1>14. CASE ExecuteServer
  BY <1>14 DEF ExecuteServer, CloseTunnel
<1>15. CASE ExecuteList
  BY <1>15 DEF ExecuteList
<1>16. CASE AcceptSocket
  BY <1>16 DEF AcceptSocket, GotSocket, CloseTunnel
<1>17. CASE ConnectFirst
  BY <1>17 DEF ConnectFirst, Then, GotSocket, CloseTunnel
<1>18. CASE ConnectNext
  BY <1>18 DEF ConnectNext, GotSocket, CloseTunnel
<1>19. CASE ReadInfo
  BY <1>19 DEF ReadInfo
<1>20. CASE ConnectFailed
  BY <1>20 DEF ConnectFailed, CloseTunnel, Close
<1>21. CASE TerminateServer
  BY <1>21 DEF TerminateServer
<1>22. CASE WaitStop
  BY <1>22 DEF WaitStop
<1>23. CASE ReportFailure
  BY <1>23 DEF ReportFailure
<1>24. CASE KillAdb
  BY <1>24 DEF KillAdb
<1>25. CASE DeviceEnds
  BY <1>25 DEF DeviceEnds
<1>26. CASE DeviceStarts
  BY <1>26 DEF DeviceStarts
<1>27. CASE DeviceConnects
  BY <1>27 DEF DeviceConnects
<1>28. CASE SocketCallEnds
  BY <1>28 DEF SocketCallEnds
<1>29. CASE ObserveTermination
  BY <1>29 DEF ObserveTermination
<1>30. CASE ServerDestroy
  BY <1>30 DEF ServerDestroy, Close
<1>31. CASE UNCHANGED startVars
  BY <1>31
<1> QED BY <1>1, <1>2, <1>3, <1>4, <1>5, <1>6, <1>7, <1>8, <1>9, <1>10, <1>11,
    <1>12, <1>13, <1>14, <1>15, <1>16, <1>17, <1>18, <1>19, <1>20, <1>21, <1>22,
    <1>23, <1>24, <1>25, <1>26, <1>27, <1>28, <1>29, <1>30, <1>31
    DEF ServerMoves, ServerThread, ObserverThread, Environment, DeviceSteps

LEMMA DaemonTypesStep ==
    ASSUME ThreadInv, DaemonTypes, ServerMoves
    PROVE  DaemonTypes'
<1> DEFINE Held == {"reverse", "forward"} \X (1..LastPort)
<1>1. port \in 1..LastPort /\ adbTunnels \subseteq Held
  BY DEF ThreadInv, DaemonTypes
<1>2. CASE Enter
  <2>1. adbTunnels' = adbTunnels
    BY <1>2 DEF Enter
  <2>2. orphans' = orphans \/ (pc \in AdbCommands /\ orphans' = orphans \cup {<<pc, port>>})
    BY <1>2 DEF Enter
  <2> QED BY <1>1, <2>1, <2>2 DEF DaemonTypes
<1>3. CASE AdbProcessEnds
  <2>1. orphans' = orphans /\ adbTunnels' \in {adbTunnels, Effect(pc, port)}
    BY <1>3 DEF AdbProcessEnds
  <2> QED BY <1>1, <2>1, EffectType DEF DaemonTypes
<1>4. CASE OrphanEnds
  <2>1. PICK c \in orphans : /\ orphans' = orphans \ {c}
                             /\ adbTunnels' \in {adbTunnels, Effect(c[1], c[2])}
    BY <1>4 DEF OrphanEnds
  <2>2. c[2] \in 1..LastPort
    BY DEF DaemonTypes
  <2>3. Effect(c[1], c[2]) \subseteq Held
    BY <1>1, <2>2, EffectType
  <2> QED BY <1>1, <2>1, <2>3 DEF DaemonTypes
<1>5. CASE OnTerminated \/ ServerStop
  <2>1. orphans' = orphans /\ adbTunnels' \in {adbTunnels, Effect(pc, port)}
    BY <1>5 DEF OnTerminated, ServerStop, Interrupt
  <2> QED BY <1>1, <2>1, EffectType DEF DaemonTypes
<1>6. CASE UNCHANGED <<adbTunnels, orphans>>
  BY <1>6 DEF DaemonTypes
<1>7. \/ UNCHANGED <<adbTunnels, orphans>> \/ Enter \/ AdbProcessEnds \/ OrphanEnds
      \/ OnTerminated \/ ServerStop
  BY TunnelsKept
<1> QED BY <1>2, <1>3, <1>4, <1>5, <1>6, <1>7

(* A successful command that removes or opens the tunnel of the model.     *)
LEMMA EffectTrue ==
    /\ adbTunnels = {} => Effect("reverse", port) \subseteq Reversed \/ port \notin 1..LastPort
    /\ adbTunnels = {} => Effect("forward", port) \subseteq {<<"forward", port>>}
    /\ adbTunnels \subseteq Reversed => Effect("reverse --remove", port) = {}
    /\ adbTunnels \subseteq {<<"forward", port>>} => Effect("forward --remove", port) = {}
    /\ pc \notin Opening \cup Removals => Effect(pc, port) = adbTunnels
<1>1. adbTunnels = {} => Effect("reverse", port) \subseteq Reversed \/ port \notin 1..LastPort
  BY DEF Effect, Reversed
<1>2. adbTunnels = {} => Effect("forward", port) \subseteq {<<"forward", port>>}
  BY DEF Effect
<1>3. adbTunnels \subseteq Reversed => Effect("reverse --remove", port) = {}
  BY DEF Effect, Reversed
<1>4. adbTunnels \subseteq {<<"forward", port>>} => Effect("forward --remove", port) = {}
  BY DEF Effect
<1>5. pc \notin Opening \cup Removals => Effect(pc, port) = adbTunnels
  BY DEF Effect, Opening, Removals
<1> QED BY <1>1, <1>2, <1>3, <1>4, <1>5

(* The way of the thread through the tunnel, when it is not interrupted.   *)
LEMMA TunnelPath ==
    ASSUME ThreadInv, TunnelInv, ServerThread, ~Enter, ~interrupted
    PROVE  /\ call' = "none"
           /\ pc \in Removals => call = "ok"
           /\ tunnel.enabled => (tunnel' = tunnel /\ port' = port) \/ pc \in Removals
           /\ pc = "listen" => \/ tunnel'.enabled /\ ~tunnel'.forward
                              \/ pc' = "reverse --remove"
           /\ pc = "reverse" /\ call = "ok" => pc' = "listen"
           /\ pc = "forward" /\ call = "ok" =>
                tunnel'.enabled /\ tunnel'.forward /\ port' = port
<1>a. pc \notin Calls => call = "none"
  BY DEF ThreadInv
<1>b. call = "failed" /\ pc \in Removals => interrupted
  BY DEF ThreadInv
<1>c. tunnel \in [enabled : BOOLEAN, forward : BOOLEAN]
  BY DEF TunnelInv
<1>d. pc \in {"reverse", "listen"} => ~tunnel.forward
  BY DEF TunnelInv
<1>e. tunnel.enabled => pc \in Connecting \cup Removals \cup {"connectFailed"}
  BY DEF TunnelInv
<1> USE <1>a, <1>b, <1>c, <1>d, <1>e DEF Removals, Connecting, Calls,
    AdbCommands, SocketCalls,
        Returned, Ok, Goto, Unmoved, Failed, tunnelVars
<1>1. CASE StartAdbServer
  BY <1>1 DEF StartAdbServer, Then
<1>2. CASE SelectDevice
  BY <1>2 DEF SelectDevice, AfterSelection
<1>3. CASE GetIp
  BY <1>3 DEF GetIp, Then
<1>4. CASE GetAdbTcpPort
  BY <1>4 DEF GetAdbTcpPort
<1>5. CASE SwitchToTcpip
  BY <1>5 DEF SwitchToTcpip
<1>6. CASE PollTcpipMode
  BY <1>6 DEF PollTcpipMode
<1>7. CASE PollSleep
  BY <1>7 DEF PollSleep, Sleep
<1>8. CASE Disconnect
  BY <1>8 DEF Disconnect, Then
<1>9. CASE ConnectTcpip
  BY <1>9 DEF ConnectTcpip, Then
<1>10. CASE PushServer
  BY <1>10 DEF PushServer, Then, AfterPush
<1>11. CASE OpenReverse
  BY <1>11 DEF OpenReverse, Then
<1>12. CASE OpenForward
  BY <1>12 DEF OpenForward
<1>13. CASE TunnelClosed
  BY <1>13 DEF TunnelClosed, Close
<1>14. CASE ExecuteServer
  BY <1>14 DEF ExecuteServer, CloseTunnel
<1>15. CASE ExecuteList
  BY <1>15 DEF ExecuteList
<1>16. CASE AcceptSocket
  BY <1>16 DEF AcceptSocket, GotSocket, CloseTunnel
<1>17. CASE ConnectFirst
  BY <1>17 DEF ConnectFirst, Then, GotSocket, CloseTunnel
<1>18. CASE ConnectNext
  BY <1>18 DEF ConnectNext, GotSocket, CloseTunnel
<1>19. CASE ReadInfo
  BY <1>19 DEF ReadInfo
<1>20. CASE ConnectFailed
  BY <1>20 DEF ConnectFailed, CloseTunnel, Close
<1>21. CASE TerminateServer
  BY <1>21 DEF TerminateServer
<1>22. CASE WaitStop
  BY <1>22 DEF WaitStop
<1>23. CASE ReportFailure
  BY <1>23 DEF ReportFailure
<1>24. CASE KillAdb
  BY <1>24 DEF KillAdb
<1> HIDE <1>a, <1>b, <1>c, <1>d, <1>e DEF Removals, Connecting, Calls,
    AdbCommands, SocketCalls
<1> QED BY <1>1, <1>2, <1>3, <1>4, <1>5, <1>6, <1>7, <1>8, <1>9, <1>10, <1>11,
    <1>12, <1>13, <1>14, <1>15, <1>16, <1>17, <1>18, <1>19, <1>20, <1>21, <1>22,
    <1>23, <1>24
    DEF ServerThread

(* Only an interruption interrupts.                                        *)
LEMMA InterruptedKept ==
    ASSUME ServerMoves
    PROVE  interrupted' = interrupted \/ OnTerminated \/ ServerStop
<1> USE DEF Unmoved, intrVars, startVars
<1>1. CASE Enter
  BY <1>1 DEF Enter, ExecuteResults
<1>2. CASE StartAdbServer
  BY <1>2 DEF StartAdbServer, Then
<1>3. CASE SelectDevice
  BY <1>3 DEF SelectDevice, AfterSelection
<1>4. CASE GetIp
  BY <1>4 DEF GetIp, Then
<1>5. CASE GetAdbTcpPort
  BY <1>5 DEF GetAdbTcpPort
<1>6. CASE SwitchToTcpip
  BY <1>6 DEF SwitchToTcpip
<1>7. CASE PollTcpipMode
  BY <1>7 DEF PollTcpipMode
<1>8. CASE PollSleep
  BY <1>8 DEF PollSleep, Sleep
<1>9. CASE Disconnect
  BY <1>9 DEF Disconnect, Then
<1>10. CASE ConnectTcpip
  BY <1>10 DEF ConnectTcpip, Then
<1>11. CASE PushServer
  BY <1>11 DEF PushServer, Then, AfterPush
<1>12. CASE OpenReverse
  BY <1>12 DEF OpenReverse, Then
<1>13. CASE OpenForward
  BY <1>13 DEF OpenForward
<1>14. CASE TunnelClosed
  BY <1>14 DEF TunnelClosed, Close
<1>15. CASE ExecuteServer
  BY <1>15 DEF ExecuteServer, CloseTunnel
<1>16. CASE ExecuteList
  BY <1>16 DEF ExecuteList
<1>17. CASE AcceptSocket
  BY <1>17 DEF AcceptSocket, GotSocket, CloseTunnel
<1>18. CASE ConnectFirst
  BY <1>18 DEF ConnectFirst, Then, GotSocket, CloseTunnel
<1>19. CASE ConnectNext
  BY <1>19 DEF ConnectNext, GotSocket, CloseTunnel
<1>20. CASE ReadInfo
  BY <1>20 DEF ReadInfo
<1>21. CASE ConnectFailed
  BY <1>21 DEF ConnectFailed, CloseTunnel, Close
<1>22. CASE TerminateServer
  BY <1>22 DEF TerminateServer
<1>23. CASE WaitStop
  BY <1>23 DEF WaitStop
<1>24. CASE ReportFailure
  BY <1>24 DEF ReportFailure
<1>25. CASE KillAdb
  BY <1>25 DEF KillAdb
<1>26. CASE AdbProcessEnds
  BY <1>26 DEF AdbProcessEnds
<1>27. CASE OrphanEnds
  BY <1>27 DEF OrphanEnds
<1>28. CASE DeviceEnds
  BY <1>28 DEF DeviceEnds
<1>29. CASE DeviceStarts
  BY <1>29 DEF DeviceStarts
<1>30. CASE DeviceConnects
  BY <1>30 DEF DeviceConnects
<1>31. CASE SocketCallEnds
  BY <1>31 DEF SocketCallEnds
<1>32. CASE ObserveTermination
  BY <1>32 DEF ObserveTermination
<1>33. CASE ServerDestroy
  BY <1>33 DEF ServerDestroy, Close
<1>34. CASE UNCHANGED startVars
  BY <1>34
<1> QED BY <1>1, <1>2, <1>3, <1>4, <1>5, <1>6, <1>7, <1>8, <1>9, <1>10, <1>11,
    <1>12, <1>13, <1>14, <1>15, <1>16, <1>17, <1>18, <1>19, <1>20, <1>21, <1>22,
    <1>23, <1>24, <1>25, <1>26, <1>27, <1>28, <1>29, <1>30, <1>31, <1>32, <1>33,
    <1>34
    DEF ServerMoves, ServerThread, ObserverThread, Environment, DeviceSteps

LEMMA DaemonStep ==
    ASSUME ThreadInv, TunnelInv, DaemonInv, ServerMoves
    PROVE  DaemonInv'
<1> SUFFICES ASSUME ~interrupted' PROVE DaemonInv'
  BY DEF DaemonInv
<1>0. interrupted \in BOOLEAN /\ port \in 1..LastPort
  BY DEF ThreadInv
<1>1. CASE OnTerminated \/ ServerStop
  BY <1>1 DEF OnTerminated, ServerStop, Interrupt
<1>2. CASE ~interrupted
  <2> DEFINE Backward == /\ adbTunnels \subseteq Reversed
                         /\ \/ tunnel.enabled /\ ~tunnel.forward
                            \/ pc \in {"listen", "reverse --remove"}
                            \/ pc = "reverse" /\ call = "ok"
                         /\ ~(pc \in Removals /\ call = "ok")
             Forward == /\ adbTunnels \subseteq {<<"forward", port>>}
                        /\ (tunnel.enabled /\ tunnel.forward) \/ (pc = "forward" /\ call = "ok")
                        /\ ~(pc \in Removals /\ call = "ok")
  <2>1. orphans = {} /\ (adbTunnels = {} \/ Backward \/ Forward)
    BY <1>2 DEF DaemonInv
  <2>2. SUFFICES orphans' = {} /\ ((adbTunnels = {})' \/ Backward' \/ Forward')
    BY DEF DaemonInv
  <2>3. CASE Enter
    <3>1. UNCHANGED <<adbTunnels, tunnel, port, pc>> /\ call = "none" /\ call' # "ok"
      BY <2>3, <1>2 DEF Enter, ExecuteResults
    <3>2. orphans' = {}
      BY <2>1, <2>3, <1>2 DEF Enter
    <3> QED BY <2>1, <3>1, <3>2
  <2>4. CASE AdbProcessEnds
    <3>1. UNCHANGED <<tunnel, port, pc, orphans>> /\ call = "blocked"
      BY <2>4 DEF AdbProcessEnds
    <3>2. CASE adbTunnels' = adbTunnels /\ call' = "failed"
      BY <2>1, <3>1, <3>2
    <3>3. CASE adbTunnels' = Effect(pc, port) /\ call' = "ok"
      <4>1. CASE pc = "reverse"
        <5>1. adbTunnels = {} \/ tunnel.enabled
          BY <2>1, <3>1, <4>1
        <5>2. ~tunnel.enabled
          BY <4>1 DEF TunnelInv, Connecting, Removals
        <5>3. Effect("reverse", port) \subseteq Reversed
          BY <1>0, <5>1, <5>2, EffectTrue
        <5> QED BY <2>1, <3>1, <3>3, <4>1, <5>3 DEF Removals
      <4>2. CASE pc = "forward"
        <5>1. adbTunnels = {} \/ tunnel.enabled
          BY <2>1, <3>1, <4>2
        <5>2. ~tunnel.enabled
          BY <4>2 DEF TunnelInv, Connecting, Removals
        <5>3. Effect("forward", port) \subseteq {<<"forward", port>>}
          BY <5>1, <5>2, EffectTrue
        <5> QED BY <2>1, <3>1, <3>3, <4>2, <5>3 DEF Removals
      <4>3. CASE pc = "reverse --remove"
        <5>1. ~(tunnel.enabled /\ tunnel.forward)
          BY <4>3 DEF TunnelInv, Removals
        <5>2. adbTunnels \subseteq Reversed
          BY <2>1, <4>3, <5>1
        <5> QED BY <2>1, <3>1, <3>3, <4>3, <5>2, EffectTrue
      <4>4. CASE pc = "forward --remove"
        <5>1. tunnel.forward
          BY <4>4 DEF TunnelInv, Removals
        <5>2. adbTunnels \subseteq {<<"forward", port>>}
          BY <2>1, <4>4, <5>1
        <5> QED BY <2>1, <3>1, <3>3, <4>4, <5>2, EffectTrue
      <4>5. CASE pc \notin Opening \cup Removals \/ pc = "listen"
        <5>1. adbTunnels' = adbTunnels
          BY <3>3, <4>5, EffectTrue DEF Effect
        <5>2. pc \notin Removals
          BY <4>5 DEF Removals
        <5> QED BY <2>1, <3>1, <5>1, <5>2, <4>5
      <4> QED BY <4>1, <4>2, <4>3, <4>4, <4>5 DEF Opening, Removals
    <3> QED BY <2>4, <3>2, <3>3 DEF AdbProcessEnds
  <2>5. CASE OrphanEnds
    BY <2>1, <2>5 DEF OrphanEnds
  <2>6. CASE ServerThread /\ ~Enter /\ UNCHANGED <<adbTunnels, orphans>>
    <3>1. /\ call' = "none"
          /\ pc \in Removals => call = "ok"
          /\ tunnel.enabled => (tunnel' = tunnel /\ port' = port) \/ pc \in Removals
          /\ pc = "listen" => \/ tunnel'.enabled /\ ~tunnel'.forward
                             \/ pc' = "reverse --remove"
          /\ pc = "reverse" /\ call = "ok" => pc' = "listen"
          /\ pc = "forward" /\ call = "ok" =>
               tunnel'.enabled /\ tunnel'.forward /\ port' = port
      BY <1>2, <2>6, TunnelPath
    <3>2. CASE adbTunnels = {}
      BY <2>1, <2>6, <3>2
    <3>3. CASE Backward
      <4>1. pc \notin Removals /\ adbTunnels' \subseteq Reversed
        BY <2>6, <3>1, <3>3
      <4>2. \/ tunnel'.enabled /\ ~tunnel'.forward
            \/ pc' \in {"listen", "reverse --remove"}
        BY <3>1, <3>3, <4>1 DEF Removals
      <4> QED BY <2>1, <2>6, <3>1, <4>1, <4>2
    <3>4. CASE Forward
      <4>1. pc \notin Removals /\ adbTunnels' \subseteq {<<"forward", port'>>}
        BY <2>6, <3>1, <3>4
      <4>2. tunnel'.enabled /\ tunnel'.forward
        BY <3>1, <3>4, <4>1
      <4> QED BY <2>1, <2>6, <3>1, <4>1, <4>2
    <3> QED BY <2>1, <3>2, <3>3, <3>4
  <2>7. CASE \/ DeviceStarts \/ DeviceConnects \/ DeviceEnds \/ SocketCallEnds
             \/ ObserveTermination \/ ServerDestroy \/ UNCHANGED startVars
    <3>1. UNCHANGED <<adbTunnels, orphans, tunnel, pc, port>>
      BY <2>7 DEF DeviceStarts, DeviceConnects, DeviceEnds, SocketCallEnds,
          ServerDestroy,
         ObserveTermination, startVars, tunnelVars, threadVars
    <3>2. UNCHANGED call \/ (SocketCallEnds /\ pc \in SocketCalls)
      BY <2>7 DEF DeviceStarts, DeviceConnects, DeviceEnds, SocketCallEnds,
          SocketCalls,
         ObserveTermination, ServerDestroy, startVars, threadVars
    <3>3. CASE UNCHANGED call
      BY <2>1, <3>1, <3>3
    <3>4. CASE pc \in SocketCalls
      BY <2>1, <3>1, <3>4 DEF SocketCalls, Removals
    <3> QED BY <3>2, <3>3, <3>4
  <2>8. \/ UNCHANGED <<adbTunnels, orphans>>
        \/ Enter \/ AdbProcessEnds \/ OrphanEnds \/ OnTerminated \/ ServerStop
    BY TunnelsKept
  <2>9. \/ ServerThread \/ AdbProcessEnds \/ OrphanEnds \/ OnTerminated \/ ServerStop
        \/ DeviceStarts \/ DeviceConnects \/ DeviceEnds \/ SocketCallEnds
        \/ ObserveTermination \/ ServerDestroy \/ UNCHANGED startVars
    BY DEF ServerMoves, ObserverThread, Environment, DeviceSteps
  <2>10. ~(OnTerminated \/ ServerStop)
    BY DEF OnTerminated, ServerStop, Interrupt
  <2> HIDE DEF Backward, Forward
  <2> QED BY <2>3, <2>4, <2>5, <2>6, <2>7, <2>8, <2>9, <2>10
<1>3. CASE interrupted /\ ~OnTerminated /\ ~ServerStop
  <2>1. interrupted' = interrupted
    BY <1>3, InterruptedKept
  <2> QED BY <1>3, <2>1
<1> QED BY <1>0, <1>1, <1>2, <1>3

-------------------------------------------------------------------------------
(* The process of the server.                                              *)
LEMMA FewSockets == \A S \in SUBSET Roles : Cardinality(S) \in 0..3
<1>1. IsFiniteSet(Roles) /\ Cardinality(Roles) = 3
  <2>1. IsFiniteSet({"video"}) /\ Cardinality({"video"}) = 1
    BY FS_Singleton
  <2>2. IsFiniteSet({"video"} \cup {"audio"}) /\ Cardinality({"video"} \cup {"audio"}) = 2
    BY <2>1, FS_AddElement
  <2>3. /\ IsFiniteSet(({"video"} \cup {"audio"}) \cup {"control"})
        /\ Cardinality(({"video"} \cup {"audio"}) \cup {"control"}) = 3
    BY <2>2, FS_AddElement
  <2>4. ({"video"} \cup {"audio"}) \cup {"control"} = Roles
    BY DEF Roles
  <2> QED BY <2>3, <2>4
<1>2. ASSUME NEW S \in SUBSET Roles PROVE Cardinality(S) \in 0..3
  <2>1. IsFiniteSet(S) /\ Cardinality(S) <= 3
    BY <1>1, FS_Subset
  <2>2. Cardinality(S) \in Nat
    BY <2>1, FS_CardinalityType
  <2> QED BY <2>1, <2>2
<1> QED BY <1>2

LEMMA DeviceKept ==
    ASSUME DeviceInv, UNCHANGED <<pc, after, deviceVars>>
    PROVE  DeviceInv'
BY DEF DeviceInv, deviceVars

LEMMA DeviceStep ==
    ASSUME ThreadInv, DeviceInv, ServerMoves
    PROVE  DeviceInv'
<1>1. CASE Enter \/ AdbProcessEnds \/ OrphanEnds \/ SocketCallEnds \/ ServerStop
           \/ ServerDestroy \/ UNCHANGED startVars
  BY <1>1, DeviceKept DEF Enter, AdbProcessEnds, OrphanEnds, SocketCallEnds,
      ServerStop,
     ServerDestroy, startVars, threadVars, deviceVars
<1>2. CASE OnTerminated
  BY <1>2 DEF OnTerminated, DeviceInv
<1>3. CASE DeviceConnects
  <2>1. connections < Cardinality(Wanted) /\ connections' = connections + 1
        /\ UNCHANGED <<pc, after, device, observer>>
    BY <1>3 DEF DeviceConnects, threadVars
  <2>2. Cardinality(Wanted) \in 0..3
    BY FewSockets DEF Wanted
  <2>3. connections' \in 0..3
    BY <2>1, <2>2 DEF DeviceInv
  <2> QED BY <2>1, <2>3 DEF DeviceInv
<1>a. after \in {"none", "nextPort", "readInfo", "failed", "terminate"}
  BY DEF ThreadInv
<1> USE <1>a DEF DeviceInv, Executing, Removals, Returned, Ok, Goto, Unmoved,
    Failed,
        deviceVars, threadVars
<1>4. CASE StartAdbServer
  BY <1>4 DEF StartAdbServer, Then
<1>5. CASE SelectDevice
  BY <1>5 DEF SelectDevice, AfterSelection
<1>6. CASE GetIp
  BY <1>6 DEF GetIp, Then
<1>7. CASE GetAdbTcpPort
  BY <1>7 DEF GetAdbTcpPort
<1>8. CASE SwitchToTcpip
  BY <1>8 DEF SwitchToTcpip
<1>9. CASE PollTcpipMode
  BY <1>9 DEF PollTcpipMode
<1>10. CASE PollSleep
  BY <1>10 DEF PollSleep, Sleep
<1>11. CASE Disconnect
  BY <1>11 DEF Disconnect, Then
<1>12. CASE ConnectTcpip
  BY <1>12 DEF ConnectTcpip, Then
<1>13. CASE PushServer
  BY <1>13 DEF PushServer, Then, AfterPush
<1>14. CASE OpenReverse
  BY <1>14 DEF OpenReverse, Then
<1>15. CASE OpenForward
  BY <1>15 DEF OpenForward
<1>16. CASE TunnelClosed
  BY <1>16 DEF TunnelClosed, Close
<1>17. CASE ExecuteServer
  BY <1>17 DEF ExecuteServer, CloseTunnel
<1>18. CASE ExecuteList
  BY <1>18 DEF ExecuteList
<1>19. CASE AcceptSocket
  BY <1>19 DEF AcceptSocket, GotSocket, CloseTunnel
<1>20. CASE ConnectFirst
  BY <1>20 DEF ConnectFirst, Then, GotSocket, CloseTunnel
<1>21. CASE ConnectNext
  BY <1>21 DEF ConnectNext, GotSocket, CloseTunnel
<1>22. CASE ReadInfo
  BY <1>22 DEF ReadInfo
<1>23. CASE ConnectFailed
  BY <1>23 DEF ConnectFailed, CloseTunnel, Close
<1>24. CASE TerminateServer
  BY <1>24 DEF TerminateServer
<1>25. CASE WaitStop
  BY <1>25 DEF WaitStop
<1>26. CASE ReportFailure
  BY <1>26 DEF ReportFailure
<1>27. CASE KillAdb
  BY <1>27 DEF KillAdb
<1>28. CASE DeviceEnds
  BY <1>28 DEF DeviceEnds
<1>29. CASE DeviceStarts
  BY <1>29 DEF DeviceStarts
<1>30. CASE ObserveTermination
  BY <1>30 DEF ObserveTermination
<1> HIDE <1>a DEF DeviceInv, Executing, Removals, deviceVars, threadVars
<1> QED BY <1>1, <1>2, <1>3, <1>4, <1>5, <1>6, <1>7, <1>8, <1>9, <1>10, <1>11,
    <1>12, <1>13, <1>14, <1>15, <1>16, <1>17, <1>18, <1>19, <1>20, <1>21, <1>22,
    <1>23, <1>24, <1>25, <1>26, <1>27, <1>28, <1>29, <1>30
    DEF ServerMoves, ServerThread, ObserverThread, Environment, DeviceSteps

-------------------------------------------------------------------------------
(* The sockets.  Closing and opening one.                                  *)
LEMMA Closed ==
    ASSUME NEW S, fds \in [Sockets -> {"none", "open", "closed"}], Close(S),
           \A s \in S \cap Sockets : fds[s] = "open"
    PROVE  /\ fds' \in [Sockets -> {"none", "open", "closed"}]
           /\ \A s \in Sockets : fds'[s] = IF s \in S THEN "closed" ELSE fds[s]
           /\ Connected' = Connected \ S
<1>1. \A s \in Sockets : fds'[s] = IF s \in S THEN "closed" ELSE fds[s]
  BY DEF Close
<1>2. fds' \in [Sockets -> {"none", "open", "closed"}]
  BY DEF Close
<1> QED BY <1>1, <1>2 DEF Connected, Sockets

LEMMA Opened ==
    ASSUME NEW s \in Sockets, fds \in [Sockets -> {"none", "open", "closed"}],
           fds' = [fds EXCEPT ![s] = "open"]
    PROVE  /\ fds' \in [Sockets -> {"none", "open", "closed"}]
           /\ fds'[s] = "open" /\ \A t \in Sockets \ {s} : fds'[t] = fds[t]
           /\ s \in Roles => Connected' = Connected \cup {s}
           /\ s \notin Roles => Connected' = Connected
BY DEF Connected, Sockets

LEMMA NextIsRole == NextRole \in Roles /\ NextRole \in Sockets /\ NextRole # "server"
BY DEF NextRole, Roles, Sockets

LEMMA SocketKept ==
    ASSUME SocketInv, UNCHANGED <<tunnel, socketVars>>
    PROVE  SocketInv'
BY DEF SocketInv, socketVars

LEMMA SocketStep ==
    ASSUME ThreadInv, TunnelInv, SocketInv, ServerMoves, ServerDestroy => stored \subseteq Connected
    PROVE  SocketInv'
<1>0. fds \in [Sockets -> {"none", "open", "closed"}] /\ stored \subseteq Roles
      /\ (fds["server"] = "open" <=> tunnel.enabled /\ ~tunnel.forward)
      /\ "server" \in Sockets /\ "server" \notin Roles /\ Roles \subseteq Sockets
  BY DEF SocketInv, Sockets, Roles
<1>a. /\ tunnel \in [enabled : BOOLEAN, forward : BOOLEAN]
      /\ pc = "listen" => ~tunnel.forward
      /\ pc \in Removals => /\ tunnel.enabled <=> after # "nextPort"
                            /\ tunnel.forward <=> pc = "forward --remove"
      /\ pc = "forward" => ~tunnel.enabled
  BY DEF TunnelInv, Connecting, Removals
<1>1. CASE \/ Enter \/ StartAdbServer \/ SelectDevice \/ GetIp \/ GetAdbTcpPort
           \/ SwitchToTcpip \/ PollTcpipMode \/ PollSleep \/ Disconnect
           \/ ConnectTcpip \/ PushServer \/ ExecuteServer \/ ExecuteList
           \/ TerminateServer \/ WaitStop \/ ReportFailure \/ KillAdb
           \/ AdbProcessEnds \/ OrphanEnds \/ DeviceEnds \/ DeviceStarts
           \/ DeviceConnects \/ SocketCallEnds \/ ObserveTermination
           \/ OnTerminated \/ ServerStop
           \/ UNCHANGED startVars
  BY <1>1, SocketKept
  DEF AdbProcessEnds, ConnectTcpip, DeviceConnects, DeviceEnds, DeviceStarts,
      Disconnect, Enter, ExecuteList, ExecuteServer, GetAdbTcpPort, GetIp,
      KillAdb, ObserveTermination, OnTerminated, OrphanEnds, PollSleep,
      PollTcpipMode, PushServer, ReportFailure, SelectDevice, ServerStop,
      Sleep, SocketCallEnds, StartAdbServer, SwitchToTcpip, TerminateServer,
      Then, WaitStop, Unmoved, startVars, tunnelVars, socketVars
<1>2. CASE OpenReverse
  <2>1. CASE UNCHANGED <<tunnel, socketVars>>
    BY <2>1, SocketKept
  <2>2. CASE /\ pc = "listen" /\ fds' = [fds EXCEPT !["server"] = "open"]
             /\ tunnel' = [tunnel EXCEPT !.enabled = TRUE] /\ stored' = stored
    <3>1. tunnel'.enabled /\ ~tunnel'.forward
      BY <1>a, <2>2
    <3>2. fds'["server"] = "open" /\ fds' \in [Sockets -> {"none", "open", "closed"}]
      BY <1>0, <2>2, Opened
    <3> QED BY <1>0, <2>2, <3>1, <3>2 DEF SocketInv
  <2> QED BY <1>2, <2>1, <2>2 DEF OpenReverse, Then, Returned, Ok, socketVars
<1>3. CASE OpenForward
  <2>1. pc = "forward" /\ tunnel'.forward = TRUE /\ UNCHANGED socketVars
    BY <1>3 DEF OpenForward, Returned
  <2>2. ~(tunnel'.enabled /\ ~tunnel'.forward) /\ ~(tunnel.enabled /\ ~tunnel.forward)
    BY <1>a, <2>1
  <2> QED BY <1>0, <2>1, <2>2 DEF SocketInv, socketVars
<1>4. CASE TunnelClosed
  <2>1. /\ pc \in Removals /\ tunnel.enabled /\ ~tunnel'.enabled /\ stored' = stored
        /\ Close(IF tunnel.forward THEN {} ELSE {"server"})
    BY <1>4, <1>a DEF TunnelClosed, Returned, Removals
  <2>2. /\ fds' \in [Sockets -> {"none", "open", "closed"}]
        /\ fds'["server"] = IF tunnel.forward THEN fds["server"] ELSE "closed"
    BY <1>0, <2>1, Closed
  <2> QED BY <1>0, <1>a, <2>1, <2>2 DEF SocketInv
<1>5. CASE AcceptSocket \/ ConnectFirst \/ ConnectNext
  <2>1. /\ fds' = fds \/ fds' = [fds EXCEPT ![NextRole] = "open"]
        /\ UNCHANGED <<tunnel, stored>>
    BY <1>5 DEF AcceptSocket, ConnectFirst, ConnectNext, GotSocket, Then,
        Unmoved, socketVars
  <2>2. fds' \in [Sockets -> {"none", "open", "closed"}] /\ fds'["server"] = fds["server"]
    BY <1>0, <2>1, Opened, NextIsRole
  <2> QED BY <1>0, <2>1, <2>2 DEF SocketInv
<1>6. CASE ReadInfo
  <2>1. stored' \in {stored, Connected} /\ UNCHANGED <<tunnel, fds>>
    BY <1>6 DEF ReadInfo, tunnelVars
  <2> QED BY <1>0, <2>1 DEF SocketInv, Connected
<1>7. CASE ConnectFailed
  <2>1. Close(Connected) /\ UNCHANGED <<tunnel, stored>>
    BY <1>7 DEF ConnectFailed
  <2>2. fds' \in [Sockets -> {"none", "open", "closed"}] /\ fds'["server"] = fds["server"]
    BY <1>0, <2>1, Closed DEF Connected
  <2> QED BY <1>0, <2>1, <2>2 DEF SocketInv
<1>8. CASE ServerDestroy
  <2>1. Close(stored) /\ UNCHANGED <<tunnel, stored>> /\ stored \subseteq Connected
    BY <1>8 DEF ServerDestroy, tunnelVars
  <2>2. \A s \in stored \cap Sockets : fds[s] = "open"
    BY <2>1 DEF Connected
  <2>3. fds' \in [Sockets -> {"none", "open", "closed"}] /\ fds'["server"] = fds["server"]
    BY <1>0, <2>1, <2>2, Closed
  <2> QED BY <1>0, <2>1, <2>3 DEF SocketInv
<1> QED BY <1>1, <1>2, <1>3, <1>4, <1>5, <1>6, <1>7, <1>8
    DEF ServerMoves, ServerThread, ObserverThread, Environment, DeviceSteps

(* The sockets of the streams, as the thread gathers them.                 *)
LEMMA StreamKept ==
    ASSUME StreamInv, UNCHANGED <<params, pc, after, fds, stored, verdict>>,
           main = "exited" <=> main' = "exited"
    PROVE  StreamInv'
<1>1. Connected' = Connected /\ Wanted' = Wanted /\ Gathered' = Gathered
  BY DEF Connected, Wanted, Gathered
<1> QED BY <1>1 DEF StreamInv

(* Before the first socket, and after the last one was given up.           *)
LEMMA StreamQuiet ==
    ASSUME StreamInv, main # "exited", UNCHANGED <<params, fds, stored, main>>,
           stored = Connected, verdict # "connected", verdict' \in {verdict, "failed"},
           ~Gathered', pc' \notin {"connected", "watchdog", "finalJoin"},
           pc' \in {"executeList", "waitList"} => params.list
    PROVE  StreamInv'
<1>1. Connected' = Connected /\ Wanted' = Wanted
  BY DEF Connected, Wanted
<1> QED BY <1>1 DEF StreamInv

LEMMA StreamStep ==
    ASSUME ThreadInv, TunnelInv, SocketInv, StreamInv, ServerThread, main # "exited", main' = main
    PROVE  StreamInv'
<1>0. fds \in [Sockets -> {"none", "open", "closed"}] /\ Roles \subseteq Sockets
      /\ "server" \notin Roles /\ Connected \subseteq Roles
  BY DEF SocketInv, Sockets, Roles, Connected
<1>a. /\ after \in {"none", "nextPort", "readInfo", "failed", "terminate"}
      /\ verdict \in {"none", "connected", "failed"}
      /\ verdict # "connected" => stored = {}
      /\ verdict = "connected" => pc \in Answered
      /\ pc \in {"connected", "watchdog", "finalJoin"} => verdict = "connected"
      /\ pc \in {"executeList", "waitList"} => params.list
      /\ stored \subseteq Connected
      /\ stored = Connected \/ Gathered \/ pc \in {"accept", "connectNext", "connectFailed"}
  BY DEF ThreadInv, StreamInv
<1>1. CASE Enter
  BY <1>1, StreamKept DEF Enter, socketVars
<1>2. CASE StartAdbServer
  BY <1>2, <1>a, StreamQuiet
  DEF StartAdbServer, Then, Returned, Ok, Goto, Unmoved, Failed, Answered,
      Gathered, Removals, socketVars
<1>3. CASE SelectDevice
  BY <1>3, <1>a, StreamQuiet
  DEF SelectDevice, AfterSelection, Returned, Ok, Goto, Unmoved, Failed,
      Answered, Gathered, Removals, socketVars
<1>4. CASE GetIp
  BY <1>4, <1>a, StreamQuiet
  DEF GetIp, Then, Returned, Ok, Goto, Unmoved, Failed, Answered, Gathered,
      Removals, socketVars
<1>5. CASE GetAdbTcpPort
  BY <1>5, <1>a, StreamQuiet
  DEF GetAdbTcpPort, Returned, Ok, Goto, Unmoved, Failed, Answered, Gathered,
      Removals, socketVars
<1>6. CASE SwitchToTcpip
  BY <1>6, <1>a, StreamQuiet
  DEF SwitchToTcpip, Returned, Ok, Goto, Unmoved, Failed, Answered, Gathered,
      Removals, socketVars
<1>7. CASE PollTcpipMode
  BY <1>7, <1>a, StreamQuiet
  DEF PollTcpipMode, Returned, Ok, Goto, Unmoved, Failed, Answered, Gathered,
      Removals, socketVars
<1>8. CASE PollSleep
  BY <1>8, <1>a, StreamQuiet
  DEF PollSleep, Sleep, Returned, Ok, Goto, Unmoved, Failed, Answered, Gathered,
      Removals, socketVars
<1>9. CASE Disconnect
  BY <1>9, <1>a, StreamQuiet
  DEF Disconnect, Then, Returned, Ok, Goto, Unmoved, Failed, Answered, Gathered,
      Removals, socketVars
<1>10. CASE ConnectTcpip
  BY <1>10, <1>a, StreamQuiet
  DEF ConnectTcpip, Then, Returned, Ok, Goto, Unmoved, Failed, Answered,
      Gathered, Removals, socketVars
<1>11. CASE PushServer
  BY <1>11, <1>a, StreamQuiet
  DEF PushServer, Then, AfterPush, Returned, Ok, Goto, Unmoved, Failed,
      Answered, Gathered, Removals, socketVars
<1>12. CASE OpenForward
  BY <1>12, <1>a, StreamQuiet
  DEF OpenForward, Returned, Ok, Goto, Unmoved, Failed, Answered, Gathered,
      Removals, socketVars
<1>13. CASE ExecuteServer
  BY <1>13, <1>a, StreamQuiet
  DEF ExecuteServer, CloseTunnel, Returned, Ok, Goto, Unmoved, Failed, Answered,
      Gathered, Removals, socketVars
<1>14. CASE TerminateServer
  BY <1>14, <1>a, StreamQuiet
  DEF TerminateServer, Returned, Ok, Goto, Unmoved, Failed, Answered, Gathered,
      Removals, socketVars
<1>15. CASE ReportFailure
  BY <1>15, <1>a, StreamQuiet
  DEF ReportFailure, Returned, Ok, Goto, Unmoved, Failed, Answered, Gathered,
      Removals, socketVars
<1>16. CASE OpenReverse
  <2>1. /\ UNCHANGED <<params, stored, verdict>> /\ pc \in {"reverse", "listen", "reverse --remove"}
        /\ pc' \notin {"connected", "watchdog", "finalJoin", "executeList", "waitList"}
        /\ pc \notin Answered \cup {"accept", "connectNext", "connectFailed"}
    BY <1>16 DEF OpenReverse, Then, Returned, Goto, Unmoved, socketVars, Answered
  <2>2. after' # "readInfo" \/ pc' \notin Removals
    BY <1>16 DEF OpenReverse, Then, Returned, Goto, Removals
  <2>3. pc' # "readInfo" /\ (pc = "reverse --remove" => after = "nextPort")
    BY <1>16 DEF OpenReverse, Then, Returned, Goto
  <2>4. ~Gathered /\ ~Gathered'
    BY <2>1, <2>2, <2>3 DEF Gathered, Removals
  <2>5. Connected' = Connected
    <3>1. fds' = fds \/ fds' = [fds EXCEPT !["server"] = "open"]
      BY <1>16 DEF OpenReverse, Then, socketVars
    <3> QED BY <1>0, <3>1, Opened DEF Connected, Sockets
  <2> QED BY <1>a, <2>1, <2>4, <2>5 DEF StreamInv
<1>17. CASE TunnelClosed
  <2>1. /\ UNCHANGED <<params, after, stored, verdict>> /\ pc \in Removals /\ pc' = after
        /\ after # "nextPort" /\ Close(IF tunnel.forward THEN {} ELSE {"server"})
    BY <1>17 DEF TunnelClosed, Returned, Goto, Unmoved, Removals
  <2>2. Connected' = Connected
    <3>1. ~tunnel.forward => fds["server"] = "open"
      BY <2>1 DEF SocketInv, TunnelInv
    <3>2. Connected' = Connected \ (IF tunnel.forward THEN {} ELSE {"server"})
      BY <1>0, <2>1, <3>1, Closed
    <3> QED BY <1>0, <3>2
  <2>3. pc \notin Answered \cup {"readInfo", "accept", "connectNext", "connectFailed"}
    BY <2>1 DEF Removals, Answered
  <2>4. after \in {"readInfo", "failed", "terminate"}
    BY <1>a, <2>1 DEF ThreadInv
  <2>5. pc' \notin Removals /\ pc' \notin {"connected", "watchdog", "finalJoin", "executeList", "waitList"}
    BY <2>1, <2>4 DEF Removals
  <2>6. Gathered' <=> Gathered
    BY <2>1, <2>3, <2>5 DEF Gathered
  <2>7. Gathered => Wanted \subseteq Connected
    BY DEF StreamInv
  <2>8. Wanted' = Wanted
    BY <2>1 DEF Wanted
  <2> QED BY <1>a, <2>1, <2>2, <2>3, <2>5, <2>6, <2>7, <2>8 DEF StreamInv
<1>18. CASE ExecuteList
  <2>1. /\ UNCHANGED <<params, fds, stored>> /\ params.list
        /\ \/ pc' \in {"failed", "waitList"} /\ verdict' = verdict
           \/ pc' = "ended" /\ verdict' = "connected"
    BY <1>18, <1>a DEF ExecuteList, Goto, Failed, socketVars
  <2>2. pc \notin Answered \cup Removals \cup {"readInfo", "accept", "connectNext", "connectFailed"}
    BY <1>18 DEF ExecuteList, Answered, Removals
  <2>3. Connected' = Connected /\ Wanted' = Wanted
    BY <2>1 DEF Connected, Wanted
  <2>4. ~Gathered /\ ~Gathered'
    BY <2>1, <2>2 DEF Gathered, Removals
  <2> QED BY <1>a, <2>1, <2>2, <2>3, <2>4 DEF StreamInv, Answered
<1>19. CASE AcceptSocket \/ ConnectFirst \/ ConnectNext
  <2>1. /\ UNCHANGED <<params, stored, verdict>>
        /\ pc \notin Answered \cup Removals
        /\ pc' \notin {"connected", "watchdog", "finalJoin", "executeList", "waitList"}
    BY <1>19 DEF AcceptSocket, ConnectFirst, ConnectNext, GotSocket,
        CloseTunnel, Then, Unmoved,
       Returned, Goto, socketVars, Answered, Removals
  <2>2. verdict # "connected" /\ stored = {}
    BY <1>a, <2>1
  <2>3. /\ fds' = fds \/ fds' = [fds EXCEPT ![NextRole] = "open"]
        /\ \/ pc' \in {"accept", "connectNext", "connectFailed"}
           \/ fds' = fds /\ pc \notin {"accept", "connectNext"} /\ pc' \notin Removals
           \/ /\ pc' \in Removals /\ after' = "readInfo"
              /\ Wanted \subseteq Connected \cup {NextRole}
              /\ fds' = [fds EXCEPT ![NextRole] = "open"]
    BY <1>19 DEF AcceptSocket, ConnectFirst, ConnectNext, GotSocket,
        CloseTunnel, Then, Returned,
       Goto, Ok, socketVars, Removals
  <2>4. /\ fds' = fds => Connected' = Connected
        /\ fds' = [fds EXCEPT ![NextRole] = "open"] => Connected' = Connected \cup {NextRole}
    BY <1>0, NextIsRole, Opened DEF Connected
  <2>5. pc # "readInfo" /\ pc' # "readInfo" /\ pc # "connectFailed"
    BY <1>19 DEF AcceptSocket, ConnectFirst, ConnectNext, GotSocket,
        CloseTunnel, Then, Returned, Goto
  <2>6. ~Gathered /\ Wanted' = Wanted
    BY <2>1, <2>5 DEF Gathered, Wanted
  <2>7. Gathered' => pc' \in Removals
    BY <2>5 DEF Gathered
  <2>8. pc' \in Removals => pc' \notin {"accept", "connectNext", "connectFailed"}
    BY DEF Removals
  <2>9. stored' \subseteq Connected' /\ (Gathered' => Wanted' \subseteq Connected')
    BY <2>1, <2>2, <2>3, <2>4, <2>6, <2>7, <2>8
  <2>10. stored' = Connected' \/ Gathered' \/ pc' \in {"accept", "connectNext", "connectFailed"}
    BY <1>a, <2>1, <2>3, <2>4, <2>5, <2>6 DEF Gathered
  <2> QED BY <1>a, <2>1, <2>2, <2>9, <2>10 DEF StreamInv
<1>20. CASE ReadInfo
  <2>1. /\ UNCHANGED <<params, fds>> /\ pc = "readInfo" /\ Gathered
        /\ \/ stored' = Connected /\ verdict' = "connected" /\ pc' = "connected"
           \/ UNCHANGED <<stored, verdict>> /\ pc' = "connectFailed"
    BY <1>20 DEF ReadInfo, Returned, Goto, Gathered
  <2>2. Connected' = Connected /\ Wanted' = Wanted /\ Wanted \subseteq Connected
    BY <2>1 DEF Connected, Wanted, StreamInv
  <2>3. ~Gathered' /\ verdict # "connected"
    BY <1>a, <2>1 DEF Gathered, Removals, Answered
  <2> QED BY <1>a, <2>1, <2>2, <2>3 DEF StreamInv, Answered
<1>21. CASE ConnectFailed
  <2>1. /\ UNCHANGED <<params, stored, verdict>> /\ pc = "connectFailed" /\ Close(Connected)
        /\ pc' \in Removals \cup {"terminate"} /\ (pc' \in Removals => after' = "terminate")
    BY <1>21 DEF ConnectFailed, CloseTunnel, Goto, Unmoved, Removals
  <2>2. Connected' = {} /\ Wanted' = Wanted
    BY <1>0, <2>1, Closed DEF Connected, Wanted
  <2>3. verdict # "connected" /\ stored = {}
    BY <1>a, <2>1 DEF Answered
  <2>4. ~Gathered' /\ pc' \notin {"connected", "watchdog", "finalJoin", "executeList", "waitList"}
    BY <2>1 DEF Gathered, Removals
  <2> QED BY <1>a, <2>1, <2>2, <2>3, <2>4 DEF StreamInv
<1>22. CASE WaitStop \/ KillAdb
  <2>1. /\ UNCHANGED <<params, fds, stored>> /\ pc \in Answered /\ pc' \in Answered
        /\ \/ pc \in {"connected", "watchdog", "finalJoin"} /\ verdict' = verdict
           \/ pc' = "ended" /\ verdict' = IF verdict = "none" THEN "failed" ELSE verdict
    BY <1>22 DEF WaitStop, KillAdb, Returned, Goto, socketVars, Answered
  <2>2. Connected' = Connected /\ Wanted' = Wanted
    BY <2>1 DEF Connected, Wanted
  <2>3. ~Gathered /\ ~Gathered' /\ pc \notin {"accept", "connectNext", "connectFailed"}
        /\ pc' \notin {"executeList", "waitList"}
    BY <2>1 DEF Gathered, Removals, Answered
  <2>4. verdict = "connected" /\ ~params.list => Wanted \subseteq stored
    BY DEF StreamInv
  <2> QED BY <1>a, <2>1, <2>2, <2>3, <2>4 DEF StreamInv
<1> QED BY <1>1, <1>2, <1>3, <1>4, <1>5, <1>6, <1>7, <1>8, <1>9, <1>10, <1>11,
    <1>12, <1>13,
           <1>14, <1>15, <1>16, <1>17, <1>18, <1>19, <1>20, <1>21, <1>22 DEF ServerThread

-------------------------------------------------------------------------------
(* The order of creation, and that of release.                             *)
LEMMA CreationOrder ==
    /\ Len(Order) = 20
    /\ \A i \in 1..20 : Order[i] \in Parts /\ Place[Order[i]] = i
    /\ \A r \in Parts : Place[r] \in 1..20 /\ Order[Place[r]] = r
<1> USE DEF OutputParts, ControlParts, AoaParts, SinkParts, RunningParts
<1>1. Len(Order) = 20
  BY DEF Order
<1>2. /\ Order[1] = "filePusher" /\ Order[2] = "recorder" /\ Order[3] = "recorderThread"
      /\ Order[4] = "controller" /\ Order[5] = "acksync" /\ Order[6] = "usb"
  BY DEF Order
<1>3. /\ Order[7] = "usbDevice" /\ Order[8] = "usbConnection" /\ Order[9] = "aoa"
      /\ Order[10] = "keyboardAoa" /\ Order[11] = "mouseAoa" /\ Order[12] = "aoaThread"
  BY DEF Order
<1>4. /\ Order[13] = "hidDevice" /\ Order[14] = "controllerThread" /\ Order[15] = "screen"
      /\ Order[16] = "v4l2"
  BY DEF Order
<1>5. /\ Order[17] = "videoDemuxer" /\ Order[18] = "audioDemuxer" /\ Order[19] = "timeout"
      /\ Order[20] = "timeoutThread"
  BY DEF Order
<1>6. \A r \in Parts : Place[r] \in 1..20 /\ Order[Place[r]] = r
  BY <1>2, <1>3, <1>4, <1>5 DEF Parts, Place
<1>7. \A i \in 1..20 : Order[i] \in Parts /\ Place[Order[i]] = i
  <2> SUFFICES ASSUME NEW i \in 1..20 PROVE Order[i] \in Parts /\ Place[Order[i]] = i
    OBVIOUS
  <2>1. i \in {1, 2, 3, 4, 5, 6, 7, 8, 9, 10} \cup {11, 12, 13, 14, 15, 16, 17, 18, 19, 20}
    OBVIOUS
  <2>2. CASE i \in {1, 2, 3, 4, 5, 6, 7, 8, 9, 10}
    BY <1>2, <1>3, <2>2 DEF Parts, Place
  <2>3. CASE i \in {11, 12, 13, 14, 15, 16, 17, 18, 19, 20}
    BY <1>3, <1>4, <1>5, <2>3 DEF Parts, Place
  <2> QED BY <2>1, <2>2, <2>3
<1> QED BY <1>1, <1>6, <1>7

(* What may be left to release: the AOA resources when they are complete.  *)
Releasable == IF res["aoaThread"] # "none" THEN Resources \ Transient ELSE Simple

LEMMA OrderOfRelease ==
    /\ Len(ReleaseOrder) = 15
    /\ \A k \in 1..15 : ReleaseOrder[k] = {r \in Releasable : ReleasePlace[r] = k}
<1> DEFINE aoa == res["aoaThread"] # "none"
           AoaGroup == {"aoaThread", "aoa", "usbConnection", "usb", "keyboardAoa", "mouseAoa"}
<1>1. Len(ReleaseOrder) = 15
  BY DEF ReleaseOrder
<1>2. /\ ReleaseOrder[1] = {"timeoutThread"} /\ ReleaseOrder[2] = {"timeout"}
      /\ ReleaseOrder[3] = {"videoDemuxer"} /\ ReleaseOrder[4] = {"audioDemuxer"}
      /\ ReleaseOrder[5] = {"v4l2"} /\ ReleaseOrder[8] = {"screen"}
      /\ ReleaseOrder[9] = {"controllerThread"}
  BY DEF ReleaseOrder
<1>3. /\ ReleaseOrder[6] = IF aoa THEN AoaGroup ELSE {}
      /\ ReleaseOrder[7] = IF aoa THEN {"acksync"} ELSE {}
  BY DEF ReleaseOrder
<1>4. /\ ReleaseOrder[10] = {"controller"} /\ ReleaseOrder[11] = {"recorderThread"}
      /\ ReleaseOrder[12] = {"recorder"} /\ ReleaseOrder[13] = {"filePusher"}
      /\ ReleaseOrder[14] = {"serverThread"} /\ ReleaseOrder[15] = {"server"}
  BY DEF ReleaseOrder
<1>5. Resources \ Transient = DOMAIN ReleasePlace
  BY DEF Resources, Transient, ReleasePlace
<1>6. Simple = DOMAIN ReleasePlace \ (AoaGroup \cup {"acksync"})
  BY DEF Resources, Transient, ReleasePlace, Simple, AoaBase, AoaHid
<1> DEFINE At(k) == {r \in Releasable : ReleasePlace[r] = k}
<1>7. Releasable = IF aoa THEN DOMAIN ReleasePlace
                   ELSE DOMAIN ReleasePlace \ (AoaGroup \cup {"acksync"})
  BY <1>5, <1>6 DEF Releasable
<1>8. /\ At(1) = {"timeoutThread"} /\ At(2) = {"timeout"} /\ At(3) = {"videoDemuxer"}
      /\ At(4) = {"audioDemuxer"} /\ At(5) = {"v4l2"} /\ At(8) = {"screen"}
  BY <1>7 DEF ReleasePlace
<1>9. /\ At(6) = IF aoa THEN AoaGroup ELSE {}
      /\ At(7) = IF aoa THEN {"acksync"} ELSE {}
  BY <1>7 DEF ReleasePlace
<1>10. /\ At(9) = {"controllerThread"} /\ At(10) = {"controller"} /\ At(11) = {"recorderThread"}
       /\ At(12) = {"recorder"} /\ At(13) = {"filePusher"} /\ At(14) = {"serverThread"}
       /\ At(15) = {"server"}
  BY <1>7 DEF ReleasePlace
<1>11. \A k \in 1..15 : ReleaseOrder[k] = At(k)
  <2> SUFFICES ASSUME NEW k \in 1..15 PROVE ReleaseOrder[k] = At(k)
    OBVIOUS
  <2>1. k \in {1, 2, 3, 4, 5} \cup {6, 7} \cup {8, 9} \cup {10, 11, 12, 13, 14, 15}
    OBVIOUS
  <2> HIDE DEF At, AoaGroup, aoa
  <2>2. CASE k \in {1, 2, 3, 4, 5}
    BY <1>2, <1>8, <2>2
  <2>3. CASE k \in {6, 7}
    BY <1>3, <1>9, <2>3
  <2>4. CASE k \in {8, 9}
    BY <1>2, <1>8, <1>10, <2>4
  <2>5. CASE k \in {10, 11, 12, 13, 14, 15}
    BY <1>4, <1>10, <2>5
  <2> QED BY <2>1, <2>2, <2>3, <2>4, <2>5
<1> QED BY <1>1, <1>11

-------------------------------------------------------------------------------
(* The components: created in order, or given up, then released in order.  *)
LEMMA CreationKept ==
    ASSUME CreationInv, ReleaseInv, UNCHANGED <<params, main, step, res, failedAt>>
    PROVE  CreationInv' /\ ReleaseInv'
<1>1. \A r : (Needed(r))' = Needed(r)
  BY DEF Needed, NeedsAoa
<1>2. \A r : (Made(r))' = Made(r)
  BY <1>1 DEF Made
<1>3. AtEnd' = AtEnd /\ \A r : (Kept(r))' = Kept(r) /\ (Excused(r))' = Excused(r)
  BY DEF AtEnd, Kept, Passed, Excused
<1>4. CreationInv'
  BY <1>2, <1>3 DEF CreationInv
<1>5. ReleaseInv'
  BY <1>3 DEF ReleaseInv
<1> QED BY <1>4, <1>5

(* Nothing was created, but the server and maybe its thread.               *)
LEMMA NothingCreated ==
    ASSUME CreationInv, main' = "stop", res' \in [Resources -> {"none", "held", "released"}],
           \A r \in Parts : res'[r] = "none", res'["server"] = "held",
           res'["serverThread"] \in {"none", "held"}, step' \in 1..21
    PROVE  CreationInv' /\ ReleaseInv'
<1>1. AtEnd' /\ \A r : (Kept(r))' = "held"
  BY DEF AtEnd, Kept, Passed
<1>2. CreationInv'
  BY <1>1 DEF CreationInv
<1>3. \A r \in Resources \ {"server", "serverThread"} : r \in Parts
  BY DEF Resources, Parts, Place
<1>4. Simple \subseteq Resources /\ Transient \cup AoaBase \cup AoaHid \subseteq Parts
  BY DEF Simple, Transient, AoaBase, AoaHid, Parts, Place
<1>5. "aoaThread" \in Parts
  BY DEF Parts, Place
<1> QED BY <1>1, <1>2, <1>3, <1>4, <1>5 DEF ReleaseInv

(* What a failure releases on the spot had been created.                   *)
LEMMA CleanedUp ==
    ASSUME NEW f \in Parts, Needed(f), NEW r \in CleanedUpAt(f)
    PROVE  /\ r \in {"acksync", "usb", "usbConnection", "aoa"}
           /\ Place[r] < Place[f] /\ Needed(r)
<1>1. f \in {"usb", "usbDevice", "usbConnection", "aoa", "keyboardAoa", "mouseAoa", "aoaThread"}
  BY DEF CleanedUpAt
<1>2. NeedsAoa
  BY <1>1 DEF Needed
<1>3. r \in {"acksync", "usb", "usbConnection", "aoa"}
  BY <1>1 DEF CleanedUpAt
<1>4. Needed(r)
  BY <1>2, <1>3 DEF Needed
<1>5. CASE f = "usb"
  <2>1. r = "acksync"
    BY <1>5 DEF CleanedUpAt
  <2> QED BY <1>3, <1>4, <1>5, <2>1 DEF Place
<1>6. CASE f = "usbDevice"
  <2>1. r = "usb"
    BY <1>6 DEF CleanedUpAt
  <2> QED BY <1>3, <1>4, <1>6, <2>1 DEF Place
<1>7. CASE f = "usbConnection"
  <2>1. r \in {"usb", "acksync"}
    BY <1>7 DEF CleanedUpAt
  <2> QED BY <1>3, <1>4, <1>7, <2>1 DEF Place
<1>8. CASE f = "aoa"
  <2>1. r \in {"usbConnection", "usb", "acksync"}
    BY <1>8 DEF CleanedUpAt
  <2> QED BY <1>3, <1>4, <1>8, <2>1 DEF Place
<1>9. CASE f \in {"keyboardAoa", "mouseAoa", "aoaThread"}
  BY <1>3, <1>4, <1>9 DEF Place
<1> QED BY <1>1, <1>5, <1>6, <1>7, <1>8, <1>9

(* A failure: what was made before, minus what is released on the spot.    *)
LEMMA GivenUp ==
    ASSUME CreationInv, main = "setup", step <= 20, main' = "stop", step' = step,
           Needed(Order[step]), failedAt' = Order[step],
           res' = ReleasedFrom(res, CleanedUpAt(Order[step])), UNCHANGED params
    PROVE  CreationInv' /\ ReleaseInv'
<1> DEFINE f == Order[step]
<1>1. step \in 1..20 /\ f \in Parts /\ Place[f] = step
  BY CreationOrder DEF CreationInv
<1>2. \A r \in Parts : res[r] = IF Place[r] < Place[f] THEN Made(r) ELSE "none"
  BY <1>1 DEF CreationInv, AtEnd
<1>3. res["server"] = "held" /\ res["serverThread"] = "held"
      /\ res \in [Resources -> {"none", "held", "released"}]
  BY DEF CreationInv, AtEnd
<1>4. \A r \in CleanedUpAt(f) :
        r \in {"acksync", "usb", "usbConnection", "aoa"} /\ Place[r] < Place[f] /\ Needed(r)
  BY <1>1, CleanedUp
<1>5. \A r \in CleanedUpAt(f) : res[r] = "held"
  BY <1>2, <1>4 DEF Made, Parts, Place, Transient
<1>6. \A r \in Resources : res'[r] = IF r \in CleanedUpAt(f) THEN "released" ELSE res[r]
  BY <1>5 DEF ReleasedFrom
<1>7. res' \in [Resources -> {"none", "held", "released"}]
  BY <1>3, <1>5 DEF ReleasedFrom
<1>8. AtEnd' /\ \A r : (Kept(r))' = "held"
  BY DEF AtEnd, Kept, Passed
<1>9. CreationInv'
  BY <1>1, <1>7, <1>8 DEF CreationInv
<1>10. res'["server"] = "held" /\ res'["serverThread"] = "held"
  BY <1>3, <1>4, <1>6 DEF Resources
<1>11. \A r \in Simple : res'[r] \in {"none", "held"}
  <2> SUFFICES ASSUME NEW r \in Simple PROVE res'[r] \in {"none", "held"}
    OBVIOUS
  <2>1. r \in {"server", "serverThread"} \/ r \in Parts
    BY DEF Simple, Resources, Parts, Place
  <2>2. r \notin Transient /\ r \notin CleanedUpAt(f) /\ r \in Resources
    BY <1>4 DEF Simple, AoaBase, AoaHid
  <2> QED BY <1>2, <1>6, <1>10, <2>1, <2>2 DEF Made
<1>12. \A r \in Transient : res'[r] # "held"
  <2> SUFFICES ASSUME NEW r \in Transient PROVE res'[r] # "held"
    OBVIOUS
  <2>1. r \in Parts /\ r \in Resources
    BY DEF Transient, Parts, Place, Resources
  <2> QED BY <1>2, <1>6, <2>1 DEF Made
<1>13. CASE Place[f] > 12
  <2>1. CleanedUpAt(f) = {}
    BY <1>1, <1>13 DEF CleanedUpAt, Place, Parts
  <2>2. \A r \in AoaBase \cup AoaHid : r \in Parts /\ r \in Resources /\ Place[r] < Place[f]
    BY <1>1, <1>13 DEF AoaBase, AoaHid, Parts, Place, Resources
  <2>3. \A r \in AoaBase \cup AoaHid : res'[r] \in {Made(r)}
    BY <1>2, <1>6, <2>1, <2>2
  <2>4. NeedsAoa => \A r \in AoaBase : Made(r) = "held"
    BY DEF AoaBase, Made, Needed, Transient
  <2>5. \A r \in AoaHid : Made(r) \in {"none", "held"}
    BY DEF AoaHid, Made, Transient
  <2>6. ~NeedsAoa => \A r \in AoaBase \cup AoaHid : Made(r) = "none"
    BY DEF AoaBase, AoaHid, Made, Needed
  <2>7. "aoaThread" \in AoaBase
    BY DEF AoaBase
  <2> QED BY <1>8, <1>9, <1>10, <1>11, <1>12, <2>3, <2>4, <2>5, <2>6, <2>7 DEF
      ReleaseInv
<1>14. CASE ~(Place[f] > 12)
  <2>1. res'["aoaThread"] = "none"
    <3>1. "aoaThread" \in Parts /\ "aoaThread" \in Resources /\ Place["aoaThread"] = 12
      BY DEF Parts, Place, Resources
    <3>2. "aoaThread" \notin CleanedUpAt(f)
      BY <1>4
    <3>3. ~(12 < Place[f])
      BY <1>1, <1>14
    <3> QED BY <1>2, <1>6, <3>1, <3>2, <3>3
  <2>2. ASSUME NEW r \in AoaBase \cup AoaHid, res'[r] = "held" PROVE (Excused(r))'
    <3>1. r \in Parts /\ r \in Resources
      BY DEF AoaBase, AoaHid, Parts, Place, Resources
    <3>2. r \notin CleanedUpAt(f) /\ Place[r] < Place[f] /\ Needed(r)
      BY <1>2, <1>6, <2>2, <3>1 DEF Made
    <3>3. NeedsAoa
      BY <3>2 DEF AoaBase, AoaHid, Needed
    <3>4. Place[f] \in {6, 7, 8, 9, 10, 11, 12}
      BY <1>1, <1>14, <3>1, <3>2 DEF AoaBase, AoaHid, Place
    <3>5. f \in {"usb", "usbDevice", "usbConnection", "aoa", "keyboardAoa", "mouseAoa", "aoaThread"}
      BY <1>1, <3>4 DEF Parts, Place
    <3> QED BY <3>1, <3>2, <3>5 DEF CleanedUpAt, Place, Excused, AoaBase, AoaHid
  <2> QED BY <1>8, <1>9, <1>10, <1>11, <1>12, <2>1, <2>2 DEF ReleaseInv
<1> QED BY <1>13, <1>14

(* Every component was created: the session runs, and is left.             *)
LEMMA Completed ==
    ASSUME CreationInv, main = "loop", main' = "stop", UNCHANGED <<params, step, res, failedAt>>
    PROVE  CreationInv' /\ ReleaseInv'
<1>1. AtEnd' /\ \A r : (Kept(r))' = "held"
  BY DEF AtEnd, Kept, Passed
<1>2. CreationInv'
  BY <1>1 DEF CreationInv
<1>3. step = 21 /\ res["server"] = "held" /\ res["serverThread"] = "held"
  BY DEF CreationInv, AtEnd
<1>4. \A r \in Parts : res[r] = Made(r)
  BY <1>3, CreationOrder DEF CreationInv, AtEnd
<1>5. \A r \in Simple : res[r] \in {"none", "held"}
  <2> SUFFICES ASSUME NEW r \in Simple PROVE res[r] \in {"none", "held"}
    OBVIOUS
  <2>1. r \in {"server", "serverThread"} \/ (r \in Parts /\ r \notin Transient)
    BY DEF Simple, Resources, Parts, Place
  <2> QED BY <1>3, <1>4, <2>1 DEF Made
<1>6. \A r \in Transient : res[r] # "held"
  BY <1>4 DEF Transient, Made, Parts, Place
<1>7. \A r \in AoaBase \cup AoaHid : res[r] = Made(r)
  BY <1>4 DEF AoaBase, AoaHid, Parts, Place
<1>8. /\ NeedsAoa => \A r \in AoaBase : Made(r) = "held"
      /\ \A r \in AoaHid : Made(r) \in {"none", "held"}
      /\ ~NeedsAoa => \A r \in AoaBase \cup AoaHid : Made(r) = "none"
  BY DEF AoaBase, AoaHid, Made, Needed, Transient
<1>9. "aoaThread" \in AoaBase
  BY DEF AoaBase
<1> QED BY <1>1, <1>2, <1>3, <1>5, <1>6, <1>7, <1>8, <1>9 DEF ReleaseInv

(* One more component is created, or is not needed.                        *)
LEMMA OneMore ==
    ASSUME CreationInv, main = "setup", step <= 20, main' = main, step' = step + 1,
           res' = [res EXCEPT ![Order[step]] = Made(Order[step])], UNCHANGED params
    PROVE  CreationInv' /\ ReleaseInv'
<1> DEFINE f == Order[step]
<1>1. step \in 1..20 /\ f \in Parts /\ Place[f] = step
  BY CreationOrder DEF CreationInv
<1>2. ~AtEnd /\ ~AtEnd'
  BY DEF AtEnd
<1>3. \A r : (Made(r))' = Made(r)
  BY DEF Made, Needed, NeedsAoa
<1>4. f \in Resources /\ f \notin {"server", "serverThread"}
  BY <1>1 DEF Parts, Place, Resources
<1>5. res' \in [Resources -> {"none", "held", "released"}]
  BY <1>4 DEF CreationInv, Made
<1>6. res'["server"] = "held" /\ res'["serverThread"] = "held"
  BY <1>2, <1>4 DEF CreationInv, Resources
<1>7. \A r \in Parts : res'[r] = IF Place[r] < step + 1 THEN Made(r) ELSE "none"
  <2> SUFFICES ASSUME NEW r \in Parts
               PROVE  res'[r] = IF Place[r] < step + 1 THEN Made(r) ELSE "none"
    OBVIOUS
  <2>1. r \in Resources
    BY DEF Parts, Place, Resources
  <2>2. res[r] = IF Place[r] < step THEN Made(r) ELSE "none"
    BY <1>2 DEF CreationInv
  <2>3. Place[r] \in 1..20 /\ (Place[r] = step <=> r = f)
    BY <1>1, CreationOrder
  <2>4. Place[r] < step + 1 <=> Place[r] < step \/ r = f
    BY <1>1, <2>3
  <2>5. CASE r = f
    <3>1. res'[r] = Made(r)
      BY <1>4, <2>5 DEF CreationInv
    <3> QED BY <2>4, <2>5, <3>1
  <2>6. CASE r # f
    <3>1. res'[r] = res[r]
      BY <2>1, <2>6 DEF CreationInv
    <3> QED BY <2>2, <2>4, <2>6, <3>1
  <2> QED BY <2>5, <2>6
<1>8. step' \in 1..21 /\ step' = step + 1
  BY <1>1
<1>9. CreationInv'
  <2>1. \A r \in Parts : res'[r] = IF Place[r] < step' THEN (Made(r))' ELSE "none"
    BY <1>3, <1>7, <1>8
  <2> QED BY <1>2, <1>5, <1>6, <1>8, <2>1 DEF CreationInv
<1> QED BY <1>2, <1>9 DEF ReleaseInv

(* The components are told to stop.                                        *)
LEMMA Stopping ==
    ASSUME CreationInv, ReleaseInv, main = "stop", main' = "release", step' = 1,
           UNCHANGED <<params, res, failedAt>>
    PROVE  CreationInv' /\ ReleaseInv'
<1>1. AtEnd /\ AtEnd' /\ \A r : Kept(r) = "held"
  BY DEF AtEnd, Kept, Passed
<1>2. \A r \in Resources \ Transient : ReleasePlace[r] \in 1..15
  BY DEF Resources, Transient, ReleasePlace
<1>3. \A r \in Resources \ Transient : (Kept(r))' = "held"
  BY <1>2 DEF Kept, Passed
<1>4. CreationInv'
  BY <1>1 DEF CreationInv
<1>5. /\ Simple \subseteq Resources \ Transient /\ "server" \in Resources \ Transient
      /\ AoaBase \cup AoaHid \subseteq Resources \ Transient
  BY DEF Simple, AoaBase, AoaHid, Resources, Transient
<1>6. \A r : (Excused(r))' = Excused(r)
  BY DEF Excused
<1> QED BY <1>1, <1>3, <1>4, <1>5, <1>6 DEF ReleaseInv

(* One group of components is released: each was held, or never created.   *)
Present(k) == {r \in ReleaseOrder[k] : res[r] # "none" \/ r \in {"acksync", "server"}}

LEMMA PresentIs ==
    ASSUME CreationInv, ReleaseInv, main = "release"
    PROVE  /\ step \in 1..15
           /\ Present(step) = {r \in Releasable : ReleasePlace[r] = step /\ res[r] # "none"}
           /\ \A r \in Present(step) : res[r] = "held"
<1>1. step \in 1..15 /\ AtEnd
  BY DEF CreationInv, AtEnd
<1>2. ReleaseOrder[step] = {r \in Releasable : ReleasePlace[r] = step}
  BY <1>1, OrderOfRelease
<1>3. res["server"] # "none"
  BY <1>1 DEF ReleaseInv, Kept
<1>4. ASSUME "acksync" \in Releasable PROVE res["acksync"] # "none"
  <2>1. res["aoaThread"] # "none" /\ "acksync" \in AoaBase
    BY <1>4 DEF Releasable, Simple, AoaBase
  <2> QED BY <1>1, <2>1 DEF ReleaseInv, Kept
<1>5. Present(step) = {r \in Releasable : ReleasePlace[r] = step /\ res[r] # "none"}
  BY <1>2, <1>3, <1>4 DEF Present
<1>6. ASSUME NEW r \in Present(step) PROVE res[r] = "held"
  <2>1. r \in Releasable /\ ReleasePlace[r] = step /\ res[r] # "none"
    BY <1>5
  <2>2. Kept(r) = "held"
    BY <1>1, <2>1 DEF Kept, Passed
  <2>3. r \in Simple \/ (r \in AoaBase \cup AoaHid /\ res["aoaThread"] # "none")
    BY <2>1 DEF Releasable, Simple
  <2> QED BY <1>1, <2>1, <2>2, <2>3 DEF ReleaseInv
<1> QED BY <1>1, <1>5, <1>6

LEMMA Releasing ==
    ASSUME CreationInv, ReleaseInv, main = "release", UNCHANGED <<params, failedAt>>,
           res' = ReleasedFrom(res, Present(step)), step' = step + 1,
           main' = IF step = 15 THEN "exited" ELSE main
    PROVE  CreationInv' /\ ReleaseInv'
<1>0. step \in 1..15 /\ AtEnd /\ AtEnd' /\ res \in [Resources -> {"none", "held", "released"}]
  BY DEF CreationInv, AtEnd
<1>1. \A r \in Resources : res'[r] = IF r \in Present(step) THEN "released" ELSE res[r]
  BY PresentIs DEF ReleasedFrom
<1>2. res' \in [Resources -> {"none", "held", "released"}]
  BY <1>0, PresentIs DEF ReleasedFrom
<1>3. CreationInv'
  BY <1>0, <1>2 DEF CreationInv
<1>4. \A r \in Resources \ Transient : ReleasePlace[r] \in 1..15
  BY DEF Resources, Transient, ReleasePlace
<1>5. \A r \in Resources \ Transient :
        (Kept(r))' = IF ReleasePlace[r] <= step THEN "released" ELSE "held"
  BY <1>0, <1>4 DEF Kept, Passed
<1>6. \A r \in Resources \ Transient :
        Kept(r) = IF ReleasePlace[r] < step THEN "released" ELSE "held"
  BY <1>0, <1>4 DEF Kept, Passed
<1>7. ASSUME NEW r \in Releasable, res[r] \in {"none", Kept(r)}
      PROVE  /\ r \in Resources \ Transient
             /\ res[r] = "none" => res'[r] = "none"
             /\ res[r] # "none" => res'[r] = (Kept(r))'
  <2>1. r \in Resources \ Transient
    BY DEF Releasable, Simple
  <2>2. r \in Present(step) <=> ReleasePlace[r] = step /\ res[r] # "none"
    BY PresentIs
  <2>3. ReleasePlace[r] <= step <=> ReleasePlace[r] < step \/ ReleasePlace[r] = step
    BY <1>0, <1>4, <2>1
  <2> QED BY <1>1, <1>5, <1>6, <1>7, <2>1, <2>2, <2>3
<1>8. Simple \subseteq Releasable /\ "server" \in Simple
  BY DEF Simple, Releasable, Resources, Transient, AoaBase, AoaHid
<1>9. /\ res["server"] = Kept("server") /\ \A r \in Simple : res[r] \in {"none", Kept(r)}
      /\ \A r \in Transient : res[r] # "held"
  BY <1>0 DEF ReleaseInv
<1>10. /\ res'["server"] = (Kept("server"))'
       /\ \A r \in Simple : res'[r] \in {"none", (Kept(r))'}
  <2>1. res["server"] # "none"
    BY <1>9 DEF Kept
  <2> QED BY <1>7, <1>8, <1>9, <2>1
<1>11. \A r \in Transient : res'[r] # "held"
  BY <1>1, <1>9 DEF Transient, Resources
<1>12. CASE res["aoaThread"] # "none"
  <2>1. AoaBase \cup AoaHid \subseteq Releasable
    BY <1>12 DEF Releasable, AoaBase, AoaHid, Resources, Transient
  <2>2. (\A r \in AoaBase : res[r] = Kept(r)) /\ \A r \in AoaHid : res[r] \in {"none", Kept(r)}
    BY <1>0, <1>12 DEF ReleaseInv
  <2>3. \A r \in AoaBase : res[r] # "none"
    BY <2>2 DEF Kept
  <2>4. \A r \in AoaBase : res'[r] = (Kept(r))'
    BY <1>7, <2>1, <2>2, <2>3
  <2>5. \A r \in AoaHid : res'[r] \in {"none", (Kept(r))'}
    BY <1>7, <2>1, <2>2
  <2>6. res'["aoaThread"] # "none"
    BY <2>4 DEF AoaBase, Kept
  <2> QED BY <1>0, <1>3, <1>10, <1>11, <2>4, <2>5, <2>6 DEF ReleaseInv
<1>13. CASE res["aoaThread"] = "none"
  <2>1. \A r \in AoaBase \cup AoaHid : r \in Resources /\ r \notin Present(step)
    BY <1>13, PresentIs DEF Releasable, Simple, AoaBase, AoaHid, Resources
  <2>2. \A r \in AoaBase \cup AoaHid : res'[r] = res[r]
    BY <1>1, <2>1
  <2>3. \A r \in AoaBase \cup AoaHid : res[r] = "held" => Excused(r)
    BY <1>0, <1>13 DEF ReleaseInv
  <2>4. \A r : (Excused(r))' = Excused(r)
    BY DEF Excused
  <2>5. res'["aoaThread"] = "none"
    BY <1>13, <2>2 DEF AoaBase
  <2> QED BY <1>0, <1>3, <1>10, <1>11, <2>2, <2>3, <2>4, <2>5 DEF ReleaseInv
<1> QED BY <1>12, <1>13

-------------------------------------------------------------------------------
(* A step of the whole: who moves, and what the others keep.               *)
ServerMoved == ServerThread /\ res["serverThread"] = "held" /\ MainUnchanged
OthersMoved == (ObserverThread \/ Environment) /\ MainUnchanged
MainMoved == /\ \/ StartServerThread \/ AwaitForServer \/ CreateNext \/ EnterLoop
                \/ LeaveLoop \/ Returned0 \/ UNCHANGED vars
             /\ UNCHANGED startVars

LEMMA WhoMoves ==
    ASSUME [Next]_vars
    PROVE  ServerMoved \/ OthersMoved \/ MainMoved \/ StopComponents \/ ReleaseNext
<1>1. CASE MainThread
  BY <1>1 DEF MainThread, StartServerThread, AwaitForServer, CreateNext, EnterLoop,
              LeaveLoop, MainUnmoved, MainMoved
<1>2. CASE ServerSteps \/ ObserverSteps \/ AdbSteps \/ DeviceEnding \/ DeviceLiving
  BY <1>2 DEF ServerSteps, ObserverSteps, AdbSteps, DeviceEnding, DeviceLiving,
              Environment, ServerMoved, OthersMoved
<1>3. CASE Returned0 \/ UNCHANGED vars
  BY <1>3 DEF Returned0, vars, MainMoved
<1> QED BY <1>1, <1>2, <1>3 DEF Next

LEMMA ParamsKept ==
    ASSUME ServerMoves
    PROVE  params' = params
<1> USE DEF Unmoved, startVars
<1>1. CASE Enter
  BY <1>1 DEF Enter, ExecuteResults
<1>2. CASE StartAdbServer
  BY <1>2 DEF StartAdbServer, Then
<1>3. CASE SelectDevice
  BY <1>3 DEF SelectDevice, AfterSelection
<1>4. CASE GetIp
  BY <1>4 DEF GetIp, Then
<1>5. CASE GetAdbTcpPort
  BY <1>5 DEF GetAdbTcpPort
<1>6. CASE SwitchToTcpip
  BY <1>6 DEF SwitchToTcpip
<1>7. CASE PollTcpipMode
  BY <1>7 DEF PollTcpipMode
<1>8. CASE PollSleep
  BY <1>8 DEF PollSleep, Sleep
<1>9. CASE Disconnect
  BY <1>9 DEF Disconnect, Then
<1>10. CASE ConnectTcpip
  BY <1>10 DEF ConnectTcpip, Then
<1>11. CASE PushServer
  BY <1>11 DEF PushServer, Then, AfterPush
<1>12. CASE OpenReverse
  BY <1>12 DEF OpenReverse, Then
<1>13. CASE OpenForward
  BY <1>13 DEF OpenForward
<1>14. CASE TunnelClosed
  BY <1>14 DEF TunnelClosed, Close
<1>15. CASE ExecuteServer
  BY <1>15 DEF ExecuteServer, CloseTunnel
<1>16. CASE ExecuteList
  BY <1>16 DEF ExecuteList
<1>17. CASE AcceptSocket
  BY <1>17 DEF AcceptSocket, GotSocket, CloseTunnel
<1>18. CASE ConnectFirst
  BY <1>18 DEF ConnectFirst, Then, GotSocket, CloseTunnel
<1>19. CASE ConnectNext
  BY <1>19 DEF ConnectNext, GotSocket, CloseTunnel
<1>20. CASE ReadInfo
  BY <1>20 DEF ReadInfo
<1>21. CASE ConnectFailed
  BY <1>21 DEF ConnectFailed, CloseTunnel, Close
<1>22. CASE TerminateServer
  BY <1>22 DEF TerminateServer
<1>23. CASE WaitStop
  BY <1>23 DEF WaitStop
<1>24. CASE ReportFailure
  BY <1>24 DEF ReportFailure
<1>25. CASE KillAdb
  BY <1>25 DEF KillAdb
<1>26. CASE AdbProcessEnds
  BY <1>26 DEF AdbProcessEnds
<1>27. CASE OrphanEnds
  BY <1>27 DEF OrphanEnds
<1>28. CASE DeviceEnds
  BY <1>28 DEF DeviceEnds
<1>29. CASE DeviceStarts
  BY <1>29 DEF DeviceStarts
<1>30. CASE DeviceConnects
  BY <1>30 DEF DeviceConnects
<1>31. CASE SocketCallEnds
  BY <1>31 DEF SocketCallEnds
<1>32. CASE ObserveTermination
  BY <1>32 DEF ObserveTermination
<1>33. CASE OnTerminated
  BY <1>33 DEF OnTerminated, Interrupt
<1>34. CASE ServerStop
  BY <1>34 DEF ServerStop, Interrupt
<1>35. CASE ServerDestroy
  BY <1>35 DEF ServerDestroy, Close
<1>36. CASE UNCHANGED startVars
  BY <1>36
<1> QED BY <1>1, <1>2, <1>3, <1>4, <1>5, <1>6, <1>7, <1>8, <1>9, <1>10, <1>11,
    <1>12, <1>13, <1>14, <1>15, <1>16, <1>17, <1>18, <1>19, <1>20, <1>21, <1>22,
    <1>23, <1>24, <1>25, <1>26, <1>27, <1>28, <1>29, <1>30, <1>31, <1>32, <1>33,
    <1>34, <1>35, <1>36
    DEF ServerMoves, ServerThread, ObserverThread, Environment, DeviceSteps

(* What the other threads and the outside leave to the server thread.      *)
LEMMA OthersKeep ==
    ASSUME ObserverThread \/ Environment \/ ServerStop
    PROVE  /\ UNCHANGED <<params, pc, after, fds, stored, verdict>>
           /\ call = "none" => call' = "none"
<1>1. CASE ObserveTermination \/ DeviceStarts \/ DeviceConnects \/ DeviceEnds \/ OrphanEnds
  BY <1>1 DEF ObserveTermination, DeviceStarts, DeviceConnects, DeviceEnds,
      OrphanEnds,
     threadVars, socketVars
<1>2. CASE AdbProcessEnds \/ SocketCallEnds
  BY <1>2 DEF AdbProcessEnds, SocketCallEnds, socketVars
<1>3. CASE OnTerminated \/ ServerStop
  BY <1>3 DEF OnTerminated, ServerStop, Interrupt, socketVars
<1> QED BY <1>1, <1>2, <1>3 DEF ObserverThread, Environment, DeviceSteps

(* The server thread runs while it is held, hence before the main thread   *)
(* returns.                                                                *)
LEMMA NotExited ==
    ASSUME CreationInv, ReleaseInv, res["serverThread"] = "held"
    PROVE  main # "exited"
<1> SUFFICES ASSUME main = "exited" PROVE FALSE
  OBVIOUS
<1>1. AtEnd /\ Kept("serverThread") = "released"
  BY DEF AtEnd, Kept, Passed
<1>2. "serverThread" \in Simple
  BY DEF Simple, Resources, Transient, AoaBase, AoaHid
<1> QED BY <1>1, <1>2 DEF ReleaseInv

(* The release of a group, and when it is that of the server.              *)
LEMMA ReleaseIs ==
    ASSUME CreationInv, ReleaseInv, ReleaseNext
    PROVE  /\ main = "release" /\ step \in 1..15 /\ step' = step + 1
           /\ res' = ReleasedFrom(res, Present(step)) /\ UNCHANGED failedAt
           /\ main' = IF step = 15 THEN "exited" ELSE main
           /\ IF step = 15 THEN ServerDestroy ELSE UNCHANGED startVars
           /\ step = 14 /\ res["serverThread"] # "none" => pc = "ended"
<1>1. main = "release" /\ Len(ReleaseOrder) = 15 /\ step \in 1..15
  BY OrderOfRelease DEF ReleaseNext, CreationInv
<1>2. /\ \A r \in Present(step) : Joinable(r)
      /\ res' = ReleasedFrom(res, Present(step))
      /\ IF "server" \in Present(step) THEN ServerDestroy ELSE UNCHANGED startVars
      /\ step' = step + 1 /\ main' = IF step = Len(ReleaseOrder) THEN "exited" ELSE main
      /\ UNCHANGED failedAt
  BY DEF ReleaseNext, Present
<1>3. "server" \in Releasable /\ "serverThread" \in Releasable
  BY DEF Releasable, Simple, Resources, Transient, AoaBase, AoaHid
<1>4. ReleasePlace["server"] = 15 /\ ReleasePlace["serverThread"] = 14
  BY DEF ReleasePlace
<1>5. res["server"] # "none"
  BY <1>1 DEF ReleaseInv, AtEnd, Kept
<1>6. "server" \in Present(step) <=> step = 15
  BY <1>1, <1>3, <1>4, <1>5, PresentIs
<1>7. step = 14 /\ res["serverThread"] # "none" => pc = "ended"
  <2> SUFFICES ASSUME step = 14, res["serverThread"] # "none" PROVE pc = "ended"
    OBVIOUS
  <2>1. "serverThread" \in Present(step)
    BY <1>1, <1>3, <1>4, PresentIs
  <2> QED BY <1>2, <2>1 DEF Joinable
<1> QED BY <1>1, <1>2, <1>6, <1>7

LEMMA CreationStep ==
    ASSUME CreationInv, ReleaseInv, [Next]_vars
    PROVE  CreationInv' /\ ReleaseInv'
<1>0. params' = params
  BY NextMoves, ParamsKept
<1>1. CASE ServerMoved \/ OthersMoved
  BY <1>0, <1>1, CreationKept DEF ServerMoved, OthersMoved, MainUnchanged
<1>2. CASE StartServerThread
  <2>1. /\ main = "start" /\ ~AtEnd /\ step' = step
        /\ \/ main' = "await" /\ res' = [res EXCEPT !["serverThread"] = "held"]
           \/ main' = "stop" /\ res' = res
    BY <1>2 DEF StartServerThread, AtEnd
  <2>2. /\ step = 1 /\ res["server"] = "held" /\ res["serverThread"] = "none"
        /\ res \in [Resources -> {"none", "held", "released"}]
        /\ \A r \in Parts : res[r] = IF Place[r] < step THEN Made(r) ELSE "none"
    BY <2>1 DEF CreationInv
  <2>3. \A r \in Parts : res[r] = "none"
    <3>1. \A r \in Parts : ~(Place[r] < 1)
      BY CreationOrder
    <3> QED BY <2>2, <3>1
  <2>4. CASE main' = "stop"
    BY <2>1, <2>2, <2>3, <2>4, NothingCreated
  <2>5. CASE main' = "await"
    <3>1. res' = [res EXCEPT !["serverThread"] = "held"] /\ ~AtEnd'
      BY <2>1, <2>5 DEF AtEnd
    <3>2. \A r \in Parts : r \in Resources /\ r \notin {"server", "serverThread"}
      BY DEF Parts, Place, Resources
    <3>3. \A r \in Parts : res'[r] = "none"
      BY <2>2, <2>3, <3>1, <3>2
    <3>4. /\ res' \in [Resources -> {"none", "held", "released"}]
          /\ res'["server"] = "held" /\ res'["serverThread"] = "held"
      BY <2>2, <3>1 DEF Resources
    <3>5. \A r \in Parts : ~(Place[r] < step')
      BY <2>1, <2>2, CreationOrder
    <3> QED BY <2>1, <2>2, <2>5, <3>1, <3>3, <3>4, <3>5 DEF CreationInv, ReleaseInv
  <2> QED BY <2>1, <2>4, <2>5
<1>3. CASE AwaitForServer
  <2>1. /\ main = "await" /\ ~AtEnd /\ UNCHANGED <<step, res, failedAt>>
        /\ main' \in {"stop", "setup"}
    BY <1>3 DEF AwaitForServer, MainUnmoved, AtEnd
  <2>2. /\ step = 1 /\ res["server"] = "held" /\ res["serverThread"] = "held"
        /\ res \in [Resources -> {"none", "held", "released"}]
        /\ \A r \in Parts : res[r] = IF Place[r] < step THEN Made(r) ELSE "none"
    BY <2>1 DEF CreationInv
  <2>3. \A r \in Parts : ~(Place[r] < 1)
    BY CreationOrder
  <2>4. CASE main' = "stop"
    BY <2>1, <2>2, <2>3, <2>4, NothingCreated
  <2>5. CASE main' = "setup"
    <3>1. ~AtEnd'
      BY <2>5 DEF AtEnd
    <3> QED BY <2>1, <2>2, <2>3, <2>5, <3>1 DEF CreationInv, ReleaseInv
  <2> QED BY <2>1, <2>4, <2>5
<1>4. CASE CreateNext
  <2>1. /\ main = "setup" /\ step <= 20 /\ step \in 1..20 /\ ~AtEnd
    BY <1>4, CreationOrder DEF CreateNext, CreationInv, AtEnd
  <2>2. CASE /\ Needed(Order[step]) /\ failedAt' = Order[step] /\ main' = "stop"
             /\ res' = ReleasedFrom(res, CleanedUpAt(Order[step])) /\ step' = step
    BY <1>0, <2>1, <2>2, GivenUp
  <2>3. CASE /\ Needed(Order[step]) /\ step' = step + 1 /\ main' = main
             /\ res' = [res EXCEPT ![Order[step]] =
                          IF Order[step] \in {"usbDevice", "hidDevice"} THEN "released" ELSE "held"]
    <3>1. Made(Order[step]) =
            IF Order[step] \in {"usbDevice", "hidDevice"} THEN "released" ELSE "held"
      BY <2>3 DEF Made, Transient
    <3> QED BY <1>0, <2>1, <2>3, <3>1, OneMore
  <2>4. CASE ~Needed(Order[step]) /\ step' = step + 1 /\ UNCHANGED <<res, main>>
    <3>1. Order[step] \in Parts /\ Place[Order[step]] = step
      BY <2>1, CreationOrder
    <3>2. res[Order[step]] = "none" /\ Made(Order[step]) = "none"
      BY <2>1, <2>4, <3>1 DEF CreationInv, Made
    <3>3. res \in [Resources -> {"none", "held", "released"}]
      BY DEF CreationInv
    <3>4. res' = [res EXCEPT ![Order[step]] = Made(Order[step])]
      BY <2>4, <3>2, <3>3
    <3> QED BY <1>0, <2>1, <2>4, <3>4, OneMore
  <2> QED BY <1>4, <2>2, <2>3, <2>4 DEF CreateNext
<1>5. CASE EnterLoop
  <2>1. /\ main = "setup" /\ main' = "loop" /\ UNCHANGED <<step, res, failedAt>> /\ step = 21
    BY <1>5, CreationOrder DEF EnterLoop, MainUnmoved, CreationInv
  <2>2. ~AtEnd /\ ~AtEnd' /\ \A r : (Made(r))' = Made(r)
    BY <1>0, <2>1 DEF AtEnd, Made, Needed, NeedsAoa
  <2> QED BY <2>1, <2>2 DEF CreationInv, ReleaseInv
<1>6. CASE LeaveLoop
  BY <1>0, <1>6, Completed DEF LeaveLoop, MainUnmoved
<1>7. CASE Returned0 \/ UNCHANGED vars
  BY <1>0, <1>7, CreationKept DEF Returned0, vars
<1>8. CASE StopComponents
  BY <1>0, <1>8, Stopping DEF StopComponents
<1>9. CASE ReleaseNext
  BY <1>0, <1>9, ReleaseIs, Releasing
<1> QED BY <1>1, <1>2, <1>3, <1>4, <1>5, <1>6, <1>7, <1>8, <1>9, WhoMoves DEF
    MainMoved

(* The server thread has ended, or never ran, when its state is released.  *)
LEMMA Joined ==
    ASSUME CreationInv, ReleaseInv, JoinInv, AtEnd, Passed("serverThread")
    PROVE  pc \in {"start-server", "ended"}
<1>1. "serverThread" \in Simple
  BY DEF Simple, Resources, Transient, AoaBase, AoaHid
<1>2. res["serverThread"] \in {"none", "released"}
  BY <1>1 DEF ReleaseInv, Kept
<1> QED BY <1>2 DEF JoinInv

LEMMA StreamAlways ==
    ASSUME ThreadInv, TunnelInv, SocketInv, StreamInv, CreationInv, ReleaseInv,
           JoinInv, [Next]_vars
    PROVE  StreamInv'
<1>1. CASE ServerMoved
  BY <1>1, NotExited, StreamStep DEF ServerMoved, MainUnchanged
<1>2. CASE OthersMoved
  BY <1>2, OthersKeep, StreamKept DEF OthersMoved, MainUnchanged
<1>3. CASE MainMoved
  <2>1. UNCHANGED <<params, pc, after, fds, stored, verdict>>
    BY <1>3 DEF MainMoved, startVars, threadVars, socketVars
  <2>2. main = "exited" <=> main' = "exited"
    BY <1>3 DEF MainMoved, StartServerThread, AwaitForServer, CreateNext,
        EnterLoop, LeaveLoop,
       Returned0, MainUnmoved, vars
  <2> QED BY <2>1, <2>2, StreamKept
<1>4. CASE StopComponents
  <2>1. main # "exited" /\ main' # "exited" /\ (ServerStop \/ UNCHANGED startVars)
    BY <1>4 DEF StopComponents
  <2>2. UNCHANGED <<params, pc, after, fds, stored, verdict>>
    BY <2>1, OthersKeep DEF startVars, threadVars, socketVars
  <2> QED BY <2>1, <2>2, StreamKept
<1>5. CASE ReleaseNext
  <2>1. CASE step # 15
    <3>1. UNCHANGED startVars /\ main = "release" /\ main' = main
      BY <1>5, <2>1, ReleaseIs
    <3>2. UNCHANGED <<params, pc, after, fds, stored, verdict>>
      BY <3>1 DEF startVars, threadVars, socketVars
    <3> QED BY <3>1, <3>2, StreamKept
  <2>2. CASE step = 15
    <3>1. ServerDestroy /\ main = "release" /\ main' = "exited"
      BY <1>5, <2>2, ReleaseIs
    <3>2. Close(stored) /\ UNCHANGED <<params, pc, after, stored, verdict>>
      BY <3>1 DEF ServerDestroy, threadVars
    <3>3. ~Gathered
      <4>1. AtEnd /\ Passed("serverThread")
        BY <2>2, <3>1 DEF AtEnd, Passed, ReleasePlace
      <4> QED BY <4>1, Joined DEF Gathered, Removals
    <3>4. Gathered' <=> Gathered
      BY <3>2 DEF Gathered
    <3>5. Wanted' = Wanted
      BY <3>2 DEF Wanted
    <3> QED BY <3>1, <3>2, <3>3, <3>4, <3>5 DEF StreamInv
  <2> QED BY <2>1, <2>2
<1> QED BY <1>1, <1>2, <1>3, <1>4, <1>5, WhoMoves

(* What main was answered, and the sockets that are stored, are not lost.  *)
LEMMA AnswerKept ==
    ASSUME StreamInv, ServerThread, main # "exited"
    PROVE  /\ verdict = "connected" => verdict' = "connected"
           /\ stored \subseteq stored' /\ params' = params
<1>a. (verdict = "connected" => pc \in Answered) /\ stored \subseteq Connected
  BY DEF StreamInv
<1> USE DEF Unmoved, Answered, socketVars, Returned, Failed
<1>1. CASE Enter
  BY <1>1 DEF Enter, ExecuteResults
<1>2. CASE StartAdbServer
  BY <1>2 DEF StartAdbServer, Then
<1>3. CASE SelectDevice
  BY <1>3 DEF SelectDevice, AfterSelection
<1>4. CASE GetIp
  BY <1>4 DEF GetIp, Then
<1>5. CASE GetAdbTcpPort
  BY <1>5 DEF GetAdbTcpPort
<1>6. CASE SwitchToTcpip
  BY <1>6 DEF SwitchToTcpip
<1>7. CASE PollTcpipMode
  BY <1>7 DEF PollTcpipMode
<1>8. CASE PollSleep
  BY <1>8 DEF PollSleep, Sleep
<1>9. CASE Disconnect
  BY <1>9 DEF Disconnect, Then
<1>10. CASE ConnectTcpip
  BY <1>10 DEF ConnectTcpip, Then
<1>11. CASE PushServer
  BY <1>11 DEF PushServer, Then, AfterPush
<1>12. CASE OpenReverse
  BY <1>12 DEF OpenReverse, Then
<1>13. CASE OpenForward
  BY <1>13 DEF OpenForward
<1>14. CASE TunnelClosed
  BY <1>14 DEF TunnelClosed, Close
<1>15. CASE ExecuteServer
  BY <1>15 DEF ExecuteServer, CloseTunnel
<1>16. CASE ExecuteList
  BY <1>a, <1>16 DEF ExecuteList
<1>17. CASE AcceptSocket
  BY <1>17 DEF AcceptSocket, GotSocket, CloseTunnel
<1>18. CASE ConnectFirst
  BY <1>18 DEF ConnectFirst, Then, GotSocket, CloseTunnel
<1>19. CASE ConnectNext
  BY <1>19 DEF ConnectNext, GotSocket, CloseTunnel
<1>20. CASE ReadInfo
  BY <1>a, <1>20 DEF ReadInfo
<1>21. CASE ConnectFailed
  BY <1>21 DEF ConnectFailed, CloseTunnel, Close
<1>22. CASE TerminateServer
  BY <1>22 DEF TerminateServer
<1>23. CASE WaitStop
  BY <1>23 DEF WaitStop
<1>24. CASE ReportFailure
  BY <1>a, <1>24 DEF ReportFailure
<1>25. CASE KillAdb
  BY <1>25 DEF KillAdb
<1> QED BY <1>1, <1>2, <1>3, <1>4, <1>5, <1>6, <1>7, <1>8, <1>9, <1>10, <1>11,
    <1>12, <1>13, <1>14, <1>15, <1>16, <1>17, <1>18, <1>19, <1>20, <1>21, <1>22,
    <1>23, <1>24, <1>25
    DEF ServerThread

(* A thread that uses a socket is created when its stream was asked for.   *)
LEMMA UsersAreWanted ==
    ASSUME NEW r \in Roles, Needed(UserOf[r])
    PROVE  r \in Wanted
<1>1. CASE r = "video"
  <2>1. params.video
    BY <1>1 DEF Needed, UserOf
  <2> QED BY <1>1, <2>1 DEF Roles, Wanted
<1>2. CASE r = "audio"
  <2>1. params.audio
    BY <1>2 DEF Needed, UserOf
  <2> QED BY <1>2, <2>1 DEF Roles, Wanted
<1>3. CASE r = "control"
  <2>1. params.control
    BY <1>3 DEF Needed, UserOf
  <2> QED BY <1>3, <2>1 DEF Roles, Wanted
<1> QED BY <1>1, <1>2, <1>3 DEF Roles

LEMMA JoinStep ==
    ASSUME ThreadInv, TunnelInv, SocketInv, StreamInv, CreationInv, ReleaseInv, JoinInv, [Next]_vars
    PROVE  JoinInv'
<1>0. \A r \in Roles : UserOf[r] \in {"videoDemuxer", "audioDemuxer", "controllerThread"}
  BY DEF Roles, UserOf
<1>1. CASE ServerMoved
  <2>1. main # "exited" /\ UNCHANGED <<main, res>> /\ res["serverThread"] = "held"
    BY <1>1, NotExited DEF ServerMoved, MainUnchanged
  <2>2. /\ verdict = "connected" => verdict' = "connected"
        /\ stored \subseteq stored' /\ params' = params
    BY <1>1, <2>1, AnswerKept DEF ServerMoved
  <2> QED BY <2>1, <2>2 DEF JoinInv
<1>2. CASE OthersMoved
  <2>1. UNCHANGED <<main, res>>
    BY <1>2 DEF OthersMoved, MainUnchanged
  <2>2. /\ UNCHANGED <<params, pc, after, fds, stored, verdict>>
        /\ call = "none" => call' = "none"
    BY <1>2, OthersKeep DEF OthersMoved
  <2> QED BY <2>1, <2>2 DEF JoinInv
<1>3. CASE MainMoved
  <2>1. UNCHANGED <<params, pc, call, fds, stored, verdict>>
    BY <1>3 DEF MainMoved, startVars, threadVars, socketVars
  <2>2. CASE StartServerThread
    <3>1. /\ main = "start" /\ main' \in {"await", "stop"}
          /\ res' \in {res, [res EXCEPT !["serverThread"] = "held"]}
      BY <2>2 DEF StartServerThread
    <3>2. res \in [Resources -> {"none", "held", "released"}]
      BY DEF CreationInv
    <3>3. \A r \in Roles : res'[UserOf[r]] = res[UserOf[r]]
      BY <1>0, <3>1, <3>2 DEF Resources
    <3>4. res'["serverThread"] # "released" /\ (res'["serverThread"] = "none" => res["serverThread"] = "none")
      <4>1. res["serverThread"] = "none"
        BY <3>1 DEF CreationInv, AtEnd
      <4> QED BY <3>1, <3>2, <4>1 DEF Resources
    <3> QED BY <2>1, <3>1, <3>3, <3>4 DEF JoinInv
  <2>3. CASE AwaitForServer
    <3>1. /\ res' = res /\ main' \in {"stop", "setup"}
          /\ main' = "setup" => verdict = "connected" /\ ~params.list
      BY <2>3 DEF AwaitForServer, MainUnmoved
    <3> QED BY <2>1, <3>1 DEF JoinInv
  <2>4. CASE CreateNext
    <3>1. main = "setup" /\ main' \in {"setup", "stop"} /\ step \in 1..20
      BY <2>4, CreationOrder DEF CreateNext, CreationInv
    <3>2. verdict = "connected" /\ ~params.list /\ Wanted \subseteq stored
      BY <3>1 DEF JoinInv, StreamInv
    <3>3. res \in [Resources -> {"none", "held", "released"}] /\ Order[step] \in Parts
      BY <3>1, CreationOrder DEF CreationInv
    <3>4. CASE res' = res
      BY <2>1, <3>1, <3>2, <3>4 DEF JoinInv
    <3>5. CASE /\ Needed(Order[step])
               /\ res' = [res EXCEPT ![Order[step]] =
                            IF Order[step] \in {"usbDevice", "hidDevice"} THEN "released" ELSE "held"]
      <4>1. Order[step] # "serverThread" /\ Order[step] \in Resources
        BY <3>3 DEF Parts, Place, Resources
      <4>2. res'["serverThread"] = res["serverThread"]
        BY <3>3, <3>5, <4>1 DEF Resources
      <4>3. ASSUME NEW r \in Roles, res'[UserOf[r]] = "held" PROVE r \in stored
        <5>1. UserOf[r] \in Resources
          BY <1>0 DEF Resources
        <5>2. CASE UserOf[r] = Order[step]
          BY <3>2, <3>5, <5>2, UsersAreWanted
        <5>3. CASE UserOf[r] # Order[step]
          <6>1. res[UserOf[r]] = "held"
            BY <3>3, <3>5, <4>3, <5>1, <5>3
          <6> QED BY <6>1 DEF JoinInv
        <5> QED BY <5>2, <5>3
      <4> QED BY <2>1, <3>1, <3>2, <4>2, <4>3 DEF JoinInv
    <3>6. CASE res' = ReleasedFrom(res, CleanedUpAt(Order[step])) /\ Needed(Order[step])
      <4>1. \A r \in CleanedUpAt(Order[step]) : r \in {"acksync", "usb", "usbConnection", "aoa"}
        BY <3>3, <3>6, CleanedUp
      <4>2. \A r \in Resources : r \notin CleanedUpAt(Order[step]) => res'[r] = res[r]
        BY <3>6 DEF ReleasedFrom
      <4>3. res'["serverThread"] = res["serverThread"]
        BY <4>1, <4>2 DEF Resources
      <4>4. \A r \in Roles : res'[UserOf[r]] = res[UserOf[r]]
        BY <1>0, <4>1, <4>2 DEF Resources
      <4> QED BY <2>1, <3>1, <3>2, <4>3, <4>4 DEF JoinInv
    <3> QED BY <2>4, <3>4, <3>5, <3>6 DEF CreateNext
  <2>5. CASE EnterLoop \/ LeaveLoop
    BY <2>1, <2>5 DEF EnterLoop, LeaveLoop, MainUnmoved, JoinInv
  <2>6. CASE Returned0 \/ UNCHANGED vars
    BY <2>6 DEF Returned0, vars, startVars, threadVars, socketVars, JoinInv
  <2> QED BY <1>3, <2>2, <2>3, <2>4, <2>5, <2>6 DEF MainMoved
<1>4. CASE StopComponents
  <2>1. main' = "release" /\ res' = res /\ (ServerStop \/ UNCHANGED startVars)
    BY <1>4 DEF StopComponents
  <2>2. /\ UNCHANGED <<params, pc, after, fds, stored, verdict>>
        /\ call = "none" => call' = "none"
    BY <2>1, OthersKeep DEF startVars, threadVars, socketVars
  <2> QED BY <2>1, <2>2 DEF JoinInv
<1>5. CASE ReleaseNext
  <2>1. /\ main = "release" /\ step \in 1..15 /\ AtEnd
        /\ res' = ReleasedFrom(res, Present(step))
        /\ main' = IF step = 15 THEN "exited" ELSE main
        /\ IF step = 15 THEN ServerDestroy ELSE UNCHANGED startVars
        /\ step = 14 /\ res["serverThread"] # "none" => pc = "ended"
    BY <1>5, ReleaseIs DEF AtEnd
  <2>2. UNCHANGED <<params, pc, call, stored, verdict>>
    BY <2>1 DEF ServerDestroy, startVars, threadVars, socketVars
  <2>3. \A r \in Resources : res'[r] = IF r \in Present(step) THEN "released" ELSE res[r]
    BY <2>1, PresentIs DEF ReleasedFrom
  <2>4. \A r \in Roles : res'[UserOf[r]] = "held" => r \in stored
    <3>1. \A r \in Roles : UserOf[r] \in Resources
      BY <1>0 DEF Resources
    <3> QED BY <2>3, <3>1 DEF JoinInv
  <2>5. "serverThread" \in Present(step) <=> step = 14 /\ res["serverThread"] # "none"
    <3>1. "serverThread" \in Releasable /\ ReleasePlace["serverThread"] = 14
      BY DEF Releasable, Simple, Resources, Transient, AoaBase, AoaHid, ReleasePlace
    <3> QED BY <2>1, <3>1, PresentIs
  <2>6. /\ res'["serverThread"] = "none" => res["serverThread"] = "none"
        /\ res'["serverThread"] = "released" => res["serverThread"] = "released" \/ pc = "ended"
    BY <2>1, <2>3, <2>5 DEF Resources
  <2>7. main' = "exited" => \A s \in Sockets : fds'[s] # "open"
    <3> SUFFICES ASSUME step = 15 PROVE \A s \in Sockets : fds'[s] # "open"
      BY <2>1
    <3>1. pc \in {"start-server", "ended"}
      <4>1. Passed("serverThread")
        BY <2>1 DEF Passed, ReleasePlace
      <4> QED BY <2>1, <4>1, Joined
    <3>2. ~tunnel.enabled
      BY <3>1 DEF TunnelInv, Connecting, Removals
    <3>3. fds["server"] # "open" /\ fds \in [Sockets -> {"none", "open", "closed"}]
          /\ stored \subseteq Roles
      BY <3>2 DEF SocketInv
    <3>4. stored = Connected
      BY <2>1, <3>1 DEF StreamInv, Gathered, Removals
    <3>5. Close(stored)
      BY <2>1 DEF ServerDestroy
    <3>6. \A s \in stored \cap Sockets : fds[s] = "open"
      BY <3>4 DEF Connected
    <3>7. \A s \in Sockets : fds'[s] = IF s \in stored THEN "closed" ELSE fds[s]
      BY <3>3, <3>5, <3>6, Closed
    <3>8. \A s \in Sockets : s = "server" \/ s \in Roles
      BY DEF Sockets
    <3> QED BY <3>3, <3>4, <3>7, <3>8 DEF Connected
  <2>8. main' \in {"release", "exited"}
    BY <2>1
  <2> QED BY <2>2, <2>4, <2>6, <2>7, <2>8 DEF JoinInv
<1> QED BY <1>1, <1>2, <1>3, <1>4, <1>5, WhoMoves

-------------------------------------------------------------------------------
(* The inductive invariant, and what it implies.                           *)
LEMMA InitInv == Init => IInv
<1> SUFFICES ASSUME Init PROVE IInv
  OBVIOUS
<1>1. /\ params \in Params /\ pc = "start-server" /\ call = "none" /\ after = "none"
      /\ port = 1 /\ attempts = 0 /\ tunnel = [enabled |-> FALSE, forward |-> FALSE]
      /\ adbTunnels = {} /\ orphans = {} /\ device = "none" /\ connections = 0
      /\ observer = "none" /\ interrupted = FALSE /\ stopped = FALSE
      /\ fds = [s \in Sockets |-> "none"] /\ stored = {} /\ verdict = "none"
      /\ main = "start" /\ step = 1 /\ failedAt = "none"
      /\ res = [r \in Resources |-> IF r = "server" THEN "held" ELSE "none"]
  BY DEF Init, StartInit
<1>2. ThreadInv
  <2>1. port \in 1..LastPort /\ attempts \in 0..(Attempts + 1)
    BY <1>1, Constants
  <2>2. pc \in Calls /\ pc \in Pcs /\ pc \notin Removals /\ pc \notin Counted
    BY <1>1 DEF Pcs, Calls, AdbCommands, Removals, Counted
  <2> QED BY <1>1, <2>1, <2>2 DEF ThreadInv
<1>3. TunnelInv
  BY <1>1 DEF TunnelInv, Removals, Connecting, Selecting
<1>4. DaemonTypes /\ DaemonInv
  BY <1>1 DEF DaemonTypes, DaemonInv
<1>5. SocketInv
  BY <1>1 DEF SocketInv, Sockets
<1>6. StreamInv
  <2>1. Connected = {} /\ ~Gathered
    BY <1>1 DEF Connected, Sockets, Gathered, Removals
  <2> QED BY <1>1, <2>1 DEF StreamInv
<1>7. DeviceInv
  BY <1>1 DEF DeviceInv
<1>8. CreationInv
  <2>1. \A r \in Parts : ~(Place[r] < 1)
    BY CreationOrder
  <2>2. \A r \in Parts : r \in Resources /\ r # "server"
    BY DEF Parts, Place, Resources
  <2>3. "server" \in Resources /\ "serverThread" \in Resources /\ ~AtEnd
    BY <1>1 DEF Resources, AtEnd
  <2> QED BY <1>1, <2>1, <2>2, <2>3 DEF CreationInv
<1>9. ReleaseInv
  BY <1>1 DEF ReleaseInv, AtEnd
<1>10. JoinInv
  BY <1>1 DEF JoinInv, Resources, Roles, UserOf
<1> QED BY <1>2, <1>3, <1>4, <1>5, <1>6, <1>7, <1>8, <1>9, <1>10 DEF IInv

LEMMA NextInv == IInv /\ [Next]_vars => IInv'
<1> SUFFICES ASSUME IInv, [Next]_vars PROVE IInv'
  OBVIOUS
<1>1. /\ ThreadInv /\ TunnelInv /\ DaemonTypes /\ DaemonInv /\ SocketInv
      /\ StreamInv /\ DeviceInv /\ CreationInv /\ ReleaseInv /\ JoinInv
  BY DEF IInv
<1>2. ServerMoves
  BY NextMoves
<1>3. ThreadInv' /\ TunnelInv' /\ DaemonTypes' /\ DaemonInv' /\ DeviceInv'
  BY <1>1, <1>2, ThreadStep, TunnelStep, DaemonTypesStep, DaemonStep, DeviceStep
<1>4. CreationInv' /\ ReleaseInv'
  BY <1>1, CreationStep
<1>5. StreamInv' /\ JoinInv'
  BY <1>1, StreamAlways, JoinStep
<1>6. SocketInv'
  <2>1. CASE main # "exited"
    BY <1>1, <1>2, <2>1, SocketStep DEF StreamInv
  <2>2. CASE main = "exited"
    <3>1. CASE ServerMoved \/ OthersMoved
      <4>1. UNCHANGED <<tunnel, socketVars>>
        <5>1. ~ServerMoved
          BY <1>1, <2>2, NotExited DEF ServerMoved
        <5>2. UNCHANGED socketVars
          BY <3>1, <5>1, OthersKeep DEF OthersMoved, socketVars
        <5>3. tunnel' = tunnel
          BY <3>1, <5>1 DEF OthersMoved, ObserverThread, Environment,
              DeviceSteps, OnTerminated,
             ObserveTermination, AdbProcessEnds, OrphanEnds, DeviceEnds, DeviceStarts,
             DeviceConnects, SocketCallEnds, tunnelVars
        <5> QED BY <5>2, <5>3
      <4> QED BY <1>1, <4>1, SocketKept
    <3>2. CASE MainMoved
      BY <1>1, <3>2, SocketKept DEF MainMoved, startVars, tunnelVars
    <3>3. ~StopComponents /\ ~ReleaseNext
      BY <2>2 DEF StopComponents, ReleaseNext
    <3> QED BY <3>1, <3>2, <3>3, WhoMoves
  <2> QED BY <2>1, <2>2
<1> QED BY <1>3, <1>4, <1>5, <1>6 DEF IInv

LEMMA Invariance == Spec => []IInv
BY InitInv, NextInv, PTL DEF Spec

(* Types: the counters of the threads are in their range, a call blocks    *)
(* only where the code may block and is not interrupted, and every socket  *)
(* and component has a state (server.c, adb_tunnel.c, scrcpy.c).           *)
THEOREM StartupTypes == Spec => []TypeOK
<1>1. IInv => TypeOK
  <2> SUFFICES ASSUME IInv PROVE TypeOK
    OBVIOUS
  <2>1. /\ params \in Params
        /\ pc \in AdbCommands \cup SocketCalls \cup
                  {"pollSleep", "execute", "executeList", "waitList", "nextPort",
                   "connectRetry", "connectSleep", "connectFailed", "terminate",
                   "join", "connected", "watchdog", "finalJoin", "failed", "ended"}
        /\ call \in {"none", "blocked", "ok", "failed"}
        /\ call = "blocked" => ~interrupted /\ pc \in AdbCommands \cup SocketCalls
        /\ port \in 1..LastPort /\ attempts \in 0..(Attempts + 1)
        /\ interrupted \in BOOLEAN /\ stopped \in BOOLEAN
    BY DEF IInv, ThreadInv, Pcs, Calls
  <2>2. /\ tunnel \in [enabled : BOOLEAN, forward : BOOLEAN]
        /\ adbTunnels \subseteq {"reverse", "forward"} \X (1..LastPort)
        /\ orphans \subseteq AdbCommands \X (1..LastPort)
    BY DEF IInv, TunnelInv, DaemonTypes
  <2>3. /\ device \in {"none", "starting", "up", "zombie", "reaped"}
        /\ connections \in 0..3
        /\ observer \in {"none", "waiting", "terminated", "ended"}
    BY DEF IInv, DeviceInv
  <2>4. /\ fds \in [Sockets -> {"none", "open", "closed", "closedTwice"}]
        /\ stored \subseteq Sockets /\ verdict \in {"none", "connected", "failed"}
    BY DEF IInv, SocketInv, StreamInv, Sockets
  <2>5. /\ main \in {"start", "await", "setup", "loop", "stop", "release", "exited"}
        /\ step \in 1..(Len(Order) + 1)
        /\ res \in [Resources -> {"none", "held", "released", "releasedTwice"}]
    BY CreationOrder DEF IInv, CreationInv
  <2> QED BY <2>1, <2>2, <2>3, <2>4, <2>5 DEF TypeOK
<1> QED BY <1>1, Invariance, PTL

(* Nothing is left behind: a tunnel remains in the adb daemon only if an   *)
(* interruption prevented its removal; no socket is closed and no component*)
(* released twice; when scrcpy() returns every socket is closed, the       *)
(* server process reaped, and every component released but for what a      *)
(* failing AOA set-up leaves (adb_tunnel.c, server.c, scrcpy.c).           *)
THEOREM NothingIsLeft == Spec => []NothingLeftBehind
<1>1. IInv => NothingLeftBehind
  <2> SUFFICES ASSUME IInv PROVE NothingLeftBehind
    OBVIOUS
  <2>0. /\ ThreadInv /\ TunnelInv /\ DaemonInv /\ SocketInv /\ DeviceInv
        /\ CreationInv /\ ReleaseInv /\ JoinInv
    BY DEF IInv
  <2>1. TunnelsAreRemoved
    <3> SUFFICES ASSUME adbTunnels # {}, ~interrupted, ~tunnel.enabled
                 PROVE  \/ pc \in {"reverse", "listen", "reverse --remove"}
                        \/ pc \in {"forward", "forward --remove"} /\ call = "ok"
      BY DEF TunnelsAreRemoved
    <3> QED BY <2>0 DEF DaemonInv
  <2>2. \A s \in Sockets : fds[s] # "closedTwice"
    BY <2>0 DEF SocketInv
  <2>3. \A r \in Resources : res[r] # "releasedTwice"
    BY <2>0 DEF CreationInv
  <2>4. ASSUME main = "exited"
        PROVE  /\ \A s \in Sockets : fds[s] # "open"
               /\ device \in {"none", "reaped"}
               /\ \A r \in Resources : res[r] = "held" => Excused(r)
    <3>1. AtEnd /\ \A r : Passed(r) /\ Kept(r) = "released"
      BY <2>4 DEF AtEnd, Passed, Kept
    <3>2. pc \in {"start-server", "ended"}
      BY <2>0, <3>1, Joined
    <3>3. device \in {"none", "reaped"}
      BY <2>0, <3>2 DEF DeviceInv, Executing, Removals
    <3>4. ASSUME NEW r \in Resources, res[r] = "held" PROVE Excused(r)
      <4>1. r \in Simple \cup Transient \cup AoaBase \cup AoaHid
        BY DEF Simple
      <4>2. r \notin Simple /\ r \notin Transient
        BY <2>0, <3>1, <3>4 DEF ReleaseInv
      <4>3. res["aoaThread"] = "none"
        BY <2>0, <3>1, <3>4, <4>1, <4>2 DEF ReleaseInv
      <4> QED BY <2>0, <3>1, <3>4, <4>1, <4>2, <4>3 DEF ReleaseInv
    <3> QED BY <2>0, <2>4, <3>3, <3>4 DEF JoinInv
  <2> QED BY <2>1, <2>2, <2>3, <2>4 DEF NothingLeftBehind, Excused
<1> QED BY <1>1, Invariance, PTL

(* The demuxers and the controller have their sockets, one for each stream *)
(* that was asked for, open until their threads are joined (the assertions *)
(* of sc_server_connect_to(), and the order of the label "end").           *)
THEOREM SocketsOutliveTheirThreads == Spec => []StreamsHaveTheirSockets
<1>1. IInv => StreamsHaveTheirSockets
  <2> SUFFICES ASSUME IInv PROVE StreamsHaveTheirSockets
    OBVIOUS
  <2>1. main \in {"setup", "loop"} => Wanted \subseteq stored
    BY DEF IInv, JoinInv, StreamInv
  <2>2. ASSUME NEW r \in Roles, res[UserOf[r]] = "held" PROVE r \in stored /\ fds[r] = "open"
    <3>1. r \in stored
      BY <2>2 DEF IInv, JoinInv
    <3>2. main # "exited"
      <4> SUFFICES ASSUME main = "exited" PROVE FALSE
        OBVIOUS
      <4>1. UserOf[r] \in Simple
        BY DEF UserOf, Roles, Simple, Resources, Transient, AoaBase, AoaHid
      <4>2. AtEnd /\ Kept(UserOf[r]) = "released"
        BY DEF AtEnd, Kept, Passed
      <4> QED BY <2>2, <4>1, <4>2 DEF IInv, ReleaseInv
    <3> QED BY <3>1, <3>2 DEF IInv, StreamInv, Connected
  <2> QED BY <2>1, <2>2 DEF StreamsHaveTheirSockets
<1> QED BY <1>1, Invariance, PTL

(* Both at once: what scrcpy() creates lives as long as it is used, and no *)
(* longer, whatever fails (scrcpy.c).                                      *)
THEOREM ResourcesStayOwned == Spec => []ResourcesAreOwned
<1>1. NothingLeftBehind /\ StreamsHaveTheirSockets => ResourcesAreOwned
  BY DEF ResourcesAreOwned
<1> QED BY <1>1, NothingIsLeft, SocketsOutliveTheirThreads, PTL
================================================================================
