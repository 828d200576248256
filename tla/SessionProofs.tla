----------------------------- MODULE SessionProofs -----------------------------
(***************************************************************************)
(* Proofs about the end of a session (Session) and the file pusher that it *)
(* stops (FilePusher), for any number of dropped files, messages and       *)
(* runnables.                                                              *)
(***************************************************************************)
EXTENDS Session, SequenceTheorems, TLAPS

-------------------------------------------------------------------------------
(* The file pusher                                                         *)

(* PusherIsSafe with what makes it inductive: the thread exists once a     *)
(* request came, and it has a process from its start to its close.         *)
PusherInv ==
    /\ PusherTypeOK
    /\ PusherIsSafe
    /\ initialized <=> fp # "none"
    /\ fp \in {"publish", "wait", "unpublish"} => adb # "none"

LEMMA PusherStarts == ASSUME PusherInit PROVE PusherInv
<1> USE DEF PusherInit
<1>1. queue \in Seq(Action) /\ current \in Action
  BY DEF Action
<1>2. requested \in 0..MaxRequests
  BY FilePusherConstantsOK DEF FilePusherConstantsOK
<1>3. PusherTypeOK
  BY <1>1, <1>2 DEF PusherTypeOK
<1> QED
  BY <1>3 DEF PusherInv, PusherIsSafe, NoForgottenRequest, InterruptsLiveProcess

LEMMA RequestIsSafe ==
    ASSUME PusherInv, NEW action \in Action, Request(action)
    PROVE  PusherInv'
<1> USE FilePusherConstantsOK
    DEF FilePusherConstantsOK, PusherInv, PusherTypeOK, Request, Woken
<1>1. queue' \in Seq(Action) /\ queue' # <<>>
  OBVIOUS
<1>2. PusherTypeOK'
  BY <1>1
<1>3. (initialized <=> fp # "none")'
  OBVIOUS
<1>4. (fp \in {"publish", "wait", "unpublish"} => adb # "none")'
  OBVIOUS
<1>5. NoForgottenRequest'
  BY DEF PusherIsSafe, NoForgottenRequest
<1>6. InterruptsLiveProcess'
  BY DEF PusherIsSafe, NoForgottenRequest, InterruptsLiveProcess
<1> QED
  BY <1>2, <1>3, <1>4, <1>5, <1>6 DEF PusherIsSafe

LEMMA StopIsSafe == ASSUME PusherInv, StopPusher PROVE PusherInv'
<1>1. CASE initialized
  BY <1>1 DEF StopPusher, Interrupt, Woken, PusherInv, PusherTypeOK,
              PusherIsSafe, NoForgottenRequest, InterruptsLiveProcess
<1>2. CASE ~initialized
  BY <1>2 DEF StopPusher, pusherVars, PusherInv, PusherTypeOK, PusherIsSafe,
              NoForgottenRequest, InterruptsLiveProcess
<1> QED
  BY <1>1, <1>2

LEMMA ThreadIsSafe ==
    ASSUME PusherInv, PusherThread \/ SpuriousWakeup \/ AdbExits \/ AdbDies
    PROVE  PusherInv'
<1> USE DEF PusherInv, PusherTypeOK, PusherIsSafe, NoForgottenRequest,
            InterruptsLiveProcess
<1>1. CASE Check
  BY <1>1, HeadTailProperties DEF Check
<1>2. CASE SpuriousWakeup
  BY <1>2 DEF SpuriousWakeup
<1>3. CASE Execute
  BY <1>3 DEF Execute
<1>4. CASE Publish
  BY <1>4 DEF Publish
<1>5. CASE Wait
  BY <1>5 DEF Wait
<1>6. CASE Unpublish
  BY <1>6 DEF Unpublish
<1>7. CASE Close
  BY <1>7 DEF Close
<1>8. CASE Scan
  BY <1>8 DEF Scan
<1>9. CASE AdbExits \/ AdbDies
  BY <1>9 DEF AdbExits, AdbDies
<1> QED
  BY <1>1, <1>2, <1>3, <1>4, <1>5, <1>6, <1>7, <1>8, <1>9 DEF PusherThread

LEMMA PusherUnchanged == ASSUME PusherInv, UNCHANGED pusherVars PROVE PusherInv'
  BY DEF pusherVars, PusherInv, PusherTypeOK, PusherIsSafe, NoForgottenRequest,
         InterruptsLiveProcess

(* What each step of a session does to the file pusher: a file is dropped, *)
(* it is stopped, its thread or its process goes on, or nothing.           *)
LEMMA PusherSteps ==
    ASSUME PusherTypeOK, [Next]_vars
    PROVE  \/ \E action \in Action : Request(action)
           \/ StopPusher
           \/ PusherThread \/ SpuriousWakeup \/ AdbExits \/ AdbDies
           \/ UNCHANGED pusherVars
<1>0. ASSUME DropFile PROVE \E action \in Action : Request(action)
  <2>1. requested + 1 \in 1..MaxRequests
    BY <1>0, FilePusherConstantsOK
       DEF FilePusherConstantsOK, PusherTypeOK, DropFile, Request
  <2> QED
    BY <1>0, <2>1, SessionConstantsOK DEF SessionConstantsOK, DropFile
<1>1. CASE DropFile \/ StopFilePusher \/ Pusher
  BY <1>0, <1>1 DEF StopFilePusher, Pusher
<1>2. CASE UserQuits \/ RunTask \/ LeaveLoop
  BY <1>2 DEF UserQuits, RunTask, LeaveLoop
<1>3. CASE Shutdown
  BY <1>1, <1>3
     DEF Shutdown, PumpTasks, StopController, StopServer, CloseDisconnected,
         JoinDemuxer, DestroyAcksync, DestroyScreen, JoinController,
         DestroyController, JoinPusher, JoinServer, DestroyTasks, Return, Proceed
<1>4. CASE ControllerSends \/ ControllerSent \/ ControllerEnds
  BY <1>4 DEF ControllerSends, ControllerSent, ControllerEnds
<1>5. CASE ReceiverReads \/ ReceiverAcks \/ ReceiverPosts \/ ReceiverEnds
  BY <1>5 DEF ReceiverReads, ReceiverAcks, ReceiverPosts, ReceiverEnds
<1>6. CASE DemuxerReads \/ DemuxerPushes \/ DemuxerEnds
  BY <1>6 DEF DemuxerReads, DemuxerPushes, DemuxerEnds
<1>7. CASE ThreadFails \/ TimerFires \/ TimerPosts
  BY <1>7 DEF ThreadFails, TimerFires, TimerPosts
<1>8. CASE Server
  BY <1>8 DEF Server, InterruptSockets, DeviceTerminated,
              WatchdogFires, KillDevice, JoinObserver, ServerStep
<1>9. CASE ObserverSees \/ DeviceExits \/ DeviceDies
  BY <1>9 DEF ObserverSees, DeviceExits, DeviceDies
<1>10. CASE UNCHANGED vars
  BY <1>10 DEF vars
<1> QED
  BY <1>1, <1>2, <1>3, <1>4, <1>5, <1>6, <1>7, <1>8, <1>9, <1>10 DEF Next, Main

(* A request dropped on the window is never left in the queue of a thread  *)
(* that sleeps, and an interruption only kills an adb process that was not *)
(* closed yet (file_pusher.c, util/intr.c).                                *)
LEMMA PusherInductive == Spec => []PusherInv
<1>1. Init => PusherInv
  BY PusherStarts DEF Init
<1>2. PusherInv /\ [Next]_vars => PusherInv'
  BY PusherSteps, RequestIsSafe, StopIsSafe, ThreadIsSafe, PusherUnchanged
     DEF PusherInv
<1> QED
  BY <1>1, <1>2, PTL DEF Spec

(* The pusher sees every request and every stop, and an interruption only  *)
(* kills an adb process that is published and not closed                   *)
(* (file_pusher.c, util/intr.c).                                           *)
THEOREM PusherStaysSafe == Spec => []PusherIsSafe
<1>1. PusherInv => PusherIsSafe
  BY DEF PusherInv
<1> QED
  BY <1>1, PusherInductive, PTL

-------------------------------------------------------------------------------
(* Types, and runnables                                                    *)

(* TypeOK with what bounds the tasks: each of them, waiting or about to be *)
(* posted by a thread, has been counted.                                   *)
Posting(thread) == IF thread = "posting" THEN 1 ELSE 0
TasksAreCounted == tasks + Posting(receiver) + Posting(timer) <= posted

TypeInv == TypeOK /\ TasksAreCounted

LEMMA TypeStarts == ASSUME Init PROVE TypeInv
<1>1. PusherTypeOK
  BY PusherStarts DEF Init, PusherInv
<1>2. 0 \in 0..MaxPosted /\ 0 \in 0..MaxReceived
  BY SessionConstantsOK DEF SessionConstantsOK
<1>3. TypeOK
  BY <1>1, <1>2 DEF Init, TypeOK
<1> QED
  BY <1>3 DEF Init, TypeInv, TasksAreCounted, Posting

LEMMA CountStep == ASSUME TypeOK, TasksAreCounted, [Next]_vars PROVE TasksAreCounted'
<1> USE SessionConstantsOK
    DEF SessionConstantsOK, TypeOK, TasksAreCounted, Posting, mainVars, taskVars,
        threadVars
<1>1. CASE DropFile \/ Pusher
  BY <1>1 DEF DropFile, Pusher, sessionVars
<1>2. CASE UserQuits
  BY <1>2 DEF UserQuits
<1>3. CASE RunTask \/ LeaveLoop
  BY <1>3 DEF RunTask, LeaveLoop
<1>4. CASE PumpTasks
  BY <1>4 DEF PumpTasks
<1>5. CASE StopController \/ StopFilePusher \/ StopServer \/ CloseDisconnected
  BY <1>5 DEF StopController, StopFilePusher, StopServer, CloseDisconnected
<1>6. CASE JoinDemuxer \/ DestroyAcksync \/ DestroyScreen \/ JoinController
  BY <1>6 DEF JoinDemuxer, DestroyAcksync, DestroyScreen, JoinController,
              Proceed
<1>7. CASE DestroyController \/ JoinPusher \/ JoinServer \/ DestroyTasks \/ Return
  BY <1>7 DEF DestroyController, JoinPusher, JoinServer, DestroyTasks,
              Return, Proceed
<1>8. CASE ControllerSends \/ ControllerSent \/ ControllerEnds
  BY <1>8 DEF ControllerSends, ControllerSent, ControllerEnds
<1>9. CASE ReceiverReads
  BY <1>9 DEF ReceiverReads
<1>10. CASE ReceiverAcks
  BY <1>10 DEF ReceiverAcks
<1>11. CASE ReceiverPosts
  BY <1>11 DEF ReceiverPosts, PostTask
<1>12. CASE ReceiverEnds
  BY <1>12 DEF ReceiverEnds
<1>13. CASE TimerFires
  BY <1>13 DEF TimerFires
<1>14. CASE TimerPosts
  BY <1>14 DEF TimerPosts, PostTask
<1>15. CASE DemuxerReads \/ DemuxerPushes
  BY <1>15 DEF DemuxerReads, DemuxerPushes
<1>16. CASE DemuxerEnds
  BY <1>16 DEF DemuxerEnds
<1>17. CASE ThreadFails
  BY <1>17 DEF ThreadFails
<1>18. CASE Server
  BY <1>18 DEF Server, InterruptSockets, DeviceTerminated,
               WatchdogFires, KillDevice, JoinObserver, ServerStep
<1>19. CASE ObserverSees \/ DeviceExits \/ DeviceDies
  BY <1>19 DEF ObserverSees, DeviceExits, DeviceDies
<1>20. CASE UNCHANGED vars
  BY <1>20 DEF vars, sessionVars
<1> QED
  BY <1>1, <1>2, <1>3, <1>4, <1>5, <1>6, <1>7, <1>8, <1>9, <1>10, <1>11,
     <1>12, <1>13, <1>14, <1>15, <1>16, <1>17, <1>18, <1>19, <1>20
     DEF Next, Main, Shutdown

LEMMA TypeStep ==
    ASSUME TypeOK, TasksAreCounted, PusherTypeOK', [Next]_vars PROVE TypeOK'
<1> USE SessionConstantsOK
    DEF SessionConstantsOK, TypeOK, PushEvent, Goto, mainVars, taskVars,
        serverVars, threadVars
<1>1. CASE DropFile
  BY <1>1 DEF DropFile, sessionVars
<1>2. CASE Pusher
  BY <1>2 DEF Pusher, sessionVars
<1>3. CASE UserQuits
  BY <1>3 DEF UserQuits
<1>4. CASE RunTask
  BY <1>4 DEF RunTask
<1>5. CASE LeaveLoop
  <2>1. imDisconnected' \in BOOLEAN /\ accepting' \in BOOLEAN
    BY <1>5 DEF LeaveLoop
  <2>2. /\ main' = "pumpTasks" /\ exit' = {}
        /\ UNCHANGED <<destroyed, tasks, posted, threadVars, serverVars, device, received>>
    BY <1>5 DEF LeaveLoop
  <2> QED
    BY <2>1, <2>2
<1>6. CASE PumpTasks
  BY <1>6 DEF PumpTasks
<1>7. CASE StopController
  BY <1>7 DEF StopController
<1>8. CASE StopFilePusher
  BY <1>8 DEF StopFilePusher
<1>9. CASE StopServer
  BY <1>9 DEF StopServer
<1>10. CASE CloseDisconnected
  BY <1>10 DEF CloseDisconnected
<1>11. CASE JoinDemuxer
  BY <1>11 DEF JoinDemuxer, Proceed
<1>12. CASE DestroyAcksync
  BY <1>12 DEF DestroyAcksync, Proceed
<1>13. CASE DestroyScreen
  BY <1>13 DEF DestroyScreen, Proceed
<1>14. CASE JoinController
  BY <1>14 DEF JoinController, Proceed
<1>15. CASE DestroyController
  BY <1>15 DEF DestroyController, Proceed
<1>16. CASE JoinPusher
  BY <1>16 DEF JoinPusher, Proceed
<1>17. CASE JoinServer
  BY <1>17 DEF JoinServer, Proceed
<1>18. CASE DestroyTasks
  BY <1>18 DEF DestroyTasks, Proceed
<1>19. CASE Return
  BY <1>19 DEF Return, Proceed
<1>20. CASE ControllerSends
  BY <1>20 DEF ControllerSends
<1>21. CASE ControllerSent
  BY <1>21 DEF ControllerSent
<1>22. CASE ControllerEnds
  BY <1>22 DEF ControllerEnds
<1>23. CASE ReceiverReads
  BY <1>23 DEF ReceiverReads
<1>24. CASE ReceiverAcks
  BY <1>24 DEF ReceiverAcks
<1>25. CASE ReceiverPosts
  BY <1>25 DEF ReceiverPosts, PostTask, TasksAreCounted, Posting
<1>26. CASE ReceiverEnds
  BY <1>26 DEF ReceiverEnds
<1>27. CASE DemuxerReads
  BY <1>27 DEF DemuxerReads
<1>28. CASE DemuxerPushes
  BY <1>28 DEF DemuxerPushes
<1>29. CASE DemuxerEnds
  <2>1. (exit \subseteq {"quit", "disconnected", "error"})'
    BY <1>29 DEF DemuxerEnds
  <2> QED
    BY <1>29, <2>1 DEF DemuxerEnds
<1>30. CASE ThreadFails
  BY <1>30 DEF ThreadFails
<1>31. CASE TimerFires
  BY <1>31 DEF TimerFires
<1>32. CASE TimerPosts
  BY <1>32 DEF TimerPosts, PostTask, TasksAreCounted, Posting
<1>34. CASE InterruptSockets
  BY <1>34 DEF InterruptSockets, ServerStep
<1>35. CASE DeviceTerminated
  BY <1>35 DEF DeviceTerminated, ServerStep
<1>36. CASE WatchdogFires
  BY <1>36 DEF WatchdogFires, ServerStep
<1>37. CASE KillDevice
  BY <1>37 DEF KillDevice, ServerStep
<1>38. CASE JoinObserver
  BY <1>38 DEF JoinObserver, ServerStep
<1>39. CASE DeviceExits
  BY <1>39 DEF DeviceExits
<1>40. CASE DeviceDies
  BY <1>40 DEF DeviceDies
<1>41. CASE UNCHANGED vars
  BY <1>41 DEF vars, sessionVars
<1>42. CASE ObserverSees
  BY <1>42 DEF ObserverSees
<1> QED
  BY <1>1, <1>2, <1>3, <1>4, <1>5, <1>6, <1>7, <1>8, <1>9, <1>10, <1>11,
     <1>12, <1>13, <1>14, <1>15, <1>16, <1>17, <1>18, <1>19, <1>20, <1>21,
     <1>22, <1>23, <1>24, <1>25, <1>26, <1>27, <1>28, <1>29, <1>30, <1>31,
     <1>32, <1>34, <1>35, <1>36, <1>37, <1>38, <1>39, <1>40, <1>41,
     <1>42
     DEF Next, Main, Shutdown, Server

(* Type correctness of the whole session, with the bound on the runnables  *)
(* that wait for the main thread.                                          *)
THEOREM TypeCorrect == Spec => []TypeOK
<1>1. Init => TypeInv
  BY TypeStarts
<1>2. TypeInv /\ PusherInv' /\ [Next]_vars => TypeInv'
  BY TypeStep, CountStep DEF PusherInv, TypeInv
<1>3. TypeInv => TypeOK
  BY DEF TypeInv
<1> QED
  BY <1>1, <1>2, <1>3, PusherInductive, PTL DEF Spec

-------------------------------------------------------------------------------
(* The order of the clean up                                               *)

(* The steps of the main thread from which a thread is known to have ended.*)
AfterServer     == {"destroyTasks", "return", "done"}
AfterPusher     == AfterServer \cup {"joinServer"}
AfterController == AfterPusher \cup {"destroyController", "joinPusher"}
AfterDemuxer    == AfterController \cup
                       {"destroyAcksync", "destroyScreen", "joinController"}

(* CleanupIsOrdered, with what was joined and destroyed at each step of the*)
(* main thread, from the end of the loop, after which no task is accepted. *)
CleanupInv ==
    /\ main \in AfterDemuxer => demuxer = "ended"
    /\ main \in AfterController => controller = "ended" /\ receiver = "ended"
    /\ main \in AfterPusher => fp \in {"none", "ended"}
    /\ main \in AfterServer => server = "ended"
    /\ server = "ended" <=> device = "closed"
    /\ destroyed # {} => main \in AfterDemuxer
    /\ "controller" \in destroyed => main \in AfterController
    /\ "pusher" \in destroyed => main \in AfterPusher
    /\ "server" \in destroyed => main \in AfterServer
    /\ main # "loop" => ~accepting
    /\ main \notin {"loop", "pumpTasks"} => tasks = 0

LEMMA CleanupStep ==
    ASSUME TypeOK, PusherInv, CleanupInv, [Next]_vars PROVE CleanupInv'
<1> USE DEF TypeOK, CleanupInv, AfterServer, AfterPusher, AfterController,
            AfterDemuxer, Goto, mainVars, taskVars, serverVars, threadVars
<1>1. CASE DropFile
  BY <1>1 DEF DropFile, sessionVars
<1>2. CASE Pusher
  <2>1. fp \in {"none", "ended"} => fp' = fp
    BY <1>2 DEF Pusher, PusherThread, Check, Execute, Publish, Wait, Unpublish,
                Close, Scan, SpuriousWakeup, AdbExits, AdbDies
  <2> QED
    BY <1>2, <2>1 DEF Pusher, sessionVars
<1>3. CASE UserQuits \/ RunTask \/ LeaveLoop
  BY <1>3 DEF UserQuits, RunTask, LeaveLoop, pusherVars
<1>4. CASE PumpTasks \/ StopController \/ StopServer \/ CloseDisconnected
  BY <1>4 DEF PumpTasks, StopController, StopServer, CloseDisconnected, pusherVars
<1>5. CASE StopFilePusher
  BY <1>5 DEF StopFilePusher
<1>6. CASE JoinDemuxer \/ DestroyAcksync \/ DestroyScreen \/ JoinController
  BY <1>6 DEF JoinDemuxer, DestroyAcksync, DestroyScreen, JoinController, Proceed,
              pusherVars
<1>7. CASE JoinPusher
  BY <1>7 DEF JoinPusher, Proceed, pusherVars, PusherInv
<1>8. CASE DestroyController \/ JoinServer \/ DestroyTasks \/ Return
  BY <1>8 DEF DestroyController, JoinServer, DestroyTasks, Return, Proceed, pusherVars
<1>9. CASE ControllerSends \/ ControllerSent \/ ControllerEnds
  BY <1>9 DEF ControllerSends, ControllerSent, ControllerEnds, pusherVars
<1>10. CASE ReceiverReads \/ ReceiverAcks \/ ReceiverEnds
  BY <1>10 DEF ReceiverReads, ReceiverAcks, ReceiverEnds, pusherVars
<1>11. CASE ReceiverPosts \/ TimerPosts
  BY <1>11 DEF ReceiverPosts, TimerPosts, PostTask, pusherVars
<1>12. CASE DemuxerReads \/ DemuxerPushes \/ DemuxerEnds
  BY <1>12 DEF DemuxerReads, DemuxerPushes, DemuxerEnds, pusherVars
<1>13. CASE ThreadFails \/ TimerFires
  BY <1>13 DEF ThreadFails, TimerFires, pusherVars
<1>14. CASE Server
  BY <1>14 DEF Server, InterruptSockets, DeviceTerminated,
               WatchdogFires, KillDevice, JoinObserver, ServerStep, pusherVars
<1>15. CASE ObserverSees \/ DeviceExits \/ DeviceDies
  BY <1>15 DEF ObserverSees, DeviceExits, DeviceDies, pusherVars
<1>16. CASE UNCHANGED vars
  BY <1>16 DEF vars, sessionVars, pusherVars
<1> QED
  BY <1>1, <1>2, <1>3, <1>4, <1>5, <1>6, <1>7, <1>8, <1>9, <1>10, <1>11, <1>12,
     <1>13, <1>14, <1>15, <1>16
     DEF Next, Main, Shutdown

(* scrcpy() destroys a component only after its own threads have ended,    *)
(* the screen after the demuxer, and everything after the runnables that   *)
(* were accepted have run.                                                 *)
THEOREM CleanupStaysOrdered == Spec => []CleanupIsOrdered
<1>1. Init => CleanupInv
  BY DEF Init, CleanupInv, AfterServer, AfterPusher, AfterController, AfterDemuxer
<1>2. TypeOK /\ PusherInv /\ CleanupInv /\ [Next]_vars => CleanupInv'
  BY CleanupStep
<1>3. CleanupInv => CleanupIsOrdered
  BY DEF CleanupInv, CleanupIsOrdered, OutlivesItsThreads, TasksRunBeforeCleanup, PidIsOwn,
         AfterServer, AfterPusher, AfterController, AfterDemuxer
<1> QED
  BY <1>1, <1>2, <1>3, TypeCorrect, PusherInductive, PTL DEF Spec
===============================================================================
