----------------------------- MODULE ChannelsProofs -----------------------------
(***************************************************************************)
(* Proofs about the two channels that carry what the user asks for: the    *)
(* queue of messages to the device (Controller), for every set of messages *)
(* and sizes, every queue limit, reserve and socket buffer; and the files  *)
(* by which the control panel talks to the client (KeymapIPC), for any     *)
(* length of time and any number of edits, commands, presses and waiting   *)
(* tasks, on POSIX and on Windows.  The two share no state.                *)
(***************************************************************************)
EXTENDS Controller, KeymapIPC, SequenceTheorems, TLAPS

(***************************************************************************)
(* The controller                                                          *)
(***************************************************************************)

(* The actions that only move the thread or the socket.                    *)
LEMMA QuietSteps ==
    ASSUME WaitForMsg \/ SpuriousWakeup \/ ObserveStop \/ Send \/ SendFails
             \/ DeviceReads \/ PeerCloses \/ InterruptSocket \/ Stop
    PROVE  UNCHANGED <<queue, capacity, resize, accepted, taken, requests,
                       lastSize>>
  BY DEF WaitForMsg, SpuriousWakeup, ObserveStop, Send, SendFails, DeviceReads,
         PeerCloses, InterruptSocket, Stop, historyVars

(* Type correctness of the controller, whatever is pushed and whoever      *)
(* stops it: in particular the queue never outgrows its vecdeque.          *)
THEOREM TypeCorrect == Spec => []TypeOK
<1>1. Init => TypeOK
  <2> SUFFICES ASSUME Init PROVE TypeOK
    OBVIOUS
  <2> USE ConstantsOK DEF ConstantsOK, Init
  <2>1. queue \in Seq(Msg) /\ accepted \in Seq(Msg) /\ taken \in Seq(Msg)
          /\ requests \in Seq(Size) /\ Len(queue) = 0
    OBVIOUS
  <2>2. capacity \in Nat /\ capacity >= QueueLimit + Reserve /\ 0 <= capacity
    OBVIOUS
  <2>3. backlog \in 0..WireLimit
    OBVIOUS
  <2> QED
    BY <2>1, <2>2, <2>3 DEF TypeOK
<1>2. TypeOK /\ [Next]_vars => TypeOK'
  <2> SUFFICES ASSUME TypeOK, [Next]_vars PROVE TypeOK'
    OBVIOUS
  <2> USE ConstantsOK DEF ConstantsOK, TypeOK
  <2>1. ASSUME NEW m \in Msg, PushMsg(m) PROVE TypeOK'
    <3> Signalled \in {"check", "waiting", "sending", "ended"}
      BY DEF Signalled
    <3>1. Append(queue, m) \in Seq(Msg) /\ Append(accepted, m) \in Seq(Msg)
            /\ Len(Append(queue, m)) = Len(queue) + 1
      OBVIOUS
    <3>2. CASE PushBelowLimit(m)
      BY <2>1, <3>1, <3>2 DEF PushMsg, PushBelowLimit, Enqueue
    <3>3. CASE PushOverLimit(m)
      <4>1. capacity' \in Nat /\ capacity' >= capacity
              /\ (Len(queue) = capacity => capacity' > capacity \/ capacity < 2)
        BY <3>3 DEF PushOverLimit, Grown
      <4> QED
        BY <2>1, <3>1, <3>3, <4>1 DEF PushMsg, PushOverLimit, Enqueue
    <3> QED
      BY <2>1, <3>2, <3>3 DEF PushMsg
  <2>2. ASSUME NEW s \in Size, ResizeDisplay(s) PROVE TypeOK'
    BY <2>2 DEF ResizeDisplay, Signalled
  <2>3. CASE Stop
    BY <2>3 DEF Stop, Signalled, historyVars
  <2>4. CASE TakeSize
    BY <2>4 DEF TakeSize
  <2>5. CASE TakeMsg
    BY <2>5, HeadTailProperties DEF TakeMsg
  <2>6. CASE WaitForMsg \/ SpuriousWakeup \/ ObserveStop \/ SendFails
               \/ PeerCloses \/ InterruptSocket
    BY <2>6 DEF WaitForMsg, SpuriousWakeup, ObserveStop, SendFails, PeerCloses,
                InterruptSocket, historyVars
  <2>7. CASE Send \/ DeviceReads
    BY <2>7 DEF Send, DeviceReads, historyVars
  <2>8. CASE UNCHANGED vars
    BY <2>8 DEF vars
  <2> QED
    BY <2>1, <2>2, <2>3, <2>4, <2>5, <2>6, <2>7, <2>8 DEF Next, Thread
<1> QED
  BY <1>1, <1>2, PTL DEF Spec

-------------------------------------------------------------------------------
(* The thread never sleeps while there is something to do or it was asked  *)
(* to stop: no signal of push_msg, resize_display or stop is missing.      *)
THEOREM NoWakeupIsLost == Spec => []NoLostWakeup
<1>1. Init => NoLostWakeup
  BY DEF Init, NoLostWakeup
<1>2. TypeOK /\ NoLostWakeup /\ [Next]_vars => NoLostWakeup'
  <2> SUFFICES ASSUME TypeOK, NoLostWakeup, [Next]_vars PROVE NoLostWakeup'
    OBVIOUS
  <2> USE DEF NoLostWakeup, NothingToDo
  <2>1. ASSUME NEW m \in Msg, PushMsg(m) PROVE NoLostWakeup'
    <3>1. CASE PushBelowLimit(m)
      BY <3>1 DEF PushBelowLimit, Signalled
    <3>2. CASE PushOverLimit(m)
      <4>1. queue # <<>>
        BY <3>2, ConstantsOK DEF PushOverLimit, ConstantsOK, TypeOK
      <4> QED
        BY <4>1, <3>2 DEF PushOverLimit
    <3> QED
      BY <2>1, <3>1, <3>2 DEF PushMsg
  <2>2. ASSUME NEW s \in Size, ResizeDisplay(s) PROVE NoLostWakeup'
    BY <2>2 DEF ResizeDisplay, Signalled
  <2>3. CASE Stop
    BY <2>3 DEF Stop, Signalled
  <2>4. CASE WaitForMsg
    BY <2>4 DEF WaitForMsg
  <2>5. CASE TakeSize \/ TakeMsg \/ Send \/ SendFails \/ ObserveStop
               \/ SpuriousWakeup
    BY <2>5 DEF TakeSize, TakeMsg, Send, SendFails, ObserveStop, SpuriousWakeup
  <2>6. CASE DeviceReads \/ PeerCloses \/ InterruptSocket
    BY <2>6 DEF DeviceReads, PeerCloses, InterruptSocket
  <2>7. CASE UNCHANGED vars
    BY <2>7 DEF vars
  <2> QED
    BY <2>1, <2>2, <2>3, <2>4, <2>5, <2>6, <2>7 DEF Next, Thread
<1> QED
  BY <1>1, <1>2, TypeCorrect, PTL DEF Spec

-------------------------------------------------------------------------------
(* What an accepted message does to the queue and to the history.          *)
LEMMA PushEnqueues ==
    ASSUME NEW m \in Msg, PushMsg(m)
    PROVE  /\ Enqueue(m)
           /\ UNCHANGED <<resize, taken, requests, lastSize>>
  BY DEF PushMsg, PushBelowLimit, PushOverLimit

(* Appending to the right part of a concatenation appends to the whole.    *)
LEMMA AppendToConcat ==
    ASSUME NEW S, NEW s \in Seq(S), NEW t \in Seq(S), NEW e \in S
    PROVE  Append(s \o t, e) = s \o Append(t, e)
<1>1. s \o t \in Seq(S) /\ Append(t, e) = t \o <<e>> /\ <<e>> \in Seq(S)
  BY AppendIsConcat, ConcatProperties
<1>2. Append(s \o t, e) = (s \o t) \o <<e>>
  BY <1>1, AppendIsConcat
<1> QED
  BY <1>1, <1>2, ConcatAssociative

(* Moving the head of the right part to the end of the left part leaves    *)
(* the whole unchanged.                                                    *)
LEMMA MoveHead ==
    ASSUME NEW S, NEW s \in Seq(S), NEW t \in Seq(S), t # <<>>
    PROVE  Append(s, Head(t)) \o Tail(t) = s \o t
<1>1. Head(t) \in S /\ Tail(t) \in Seq(S) /\ t = <<Head(t)>> \o Tail(t)
  BY HeadTailProperties
<1>2. Append(s, Head(t)) = s \o <<Head(t)>> /\ <<Head(t)>> \in Seq(S)
  BY <1>1, AppendIsConcat
<1> QED
  BY <1>1, <1>2, ConcatAssociative

(* Messages leave the queue in the order in which they were accepted, each *)
(* exactly once, for any limits and any interleaving.                      *)
THEOREM OrderIsKept == Spec => []FifoOrder
<1>1. Init => FifoOrder
  BY DEF Init, FifoOrder
<1>2. TypeOK /\ FifoOrder /\ [Next]_vars => FifoOrder'
  <2> SUFFICES ASSUME TypeOK, FifoOrder, [Next]_vars PROVE FifoOrder'
    OBVIOUS
  <2> USE DEF FifoOrder
  <2>1. ASSUME NEW m \in Msg, PushMsg(m) PROVE FifoOrder'
    <3>1. queue' = Append(queue, m) /\ accepted' = Append(accepted, m)
            /\ taken' = taken
      BY <2>1, PushEnqueues DEF Enqueue
    <3>2. queue \in Seq(Msg) /\ taken \in Seq(Msg)
      BY DEF TypeOK
    <3>3. Append(taken \o queue, m) = taken \o Append(queue, m)
      BY <3>2, AppendToConcat
    <3> QED
      BY <3>1, <3>3
  <2>2. CASE TakeMsg
    <3>1. queue # <<>> /\ accepted' = accepted
            /\ taken' = Append(taken, Head(queue)) /\ queue' = Tail(queue)
      BY <2>2 DEF TakeMsg
    <3>2. queue \in Seq(Msg) /\ taken \in Seq(Msg)
      BY DEF TypeOK
    <3>3. Append(taken, Head(queue)) \o Tail(queue) = taken \o queue
      BY <3>1, <3>2, MoveHead
    <3> QED
      BY <3>1, <3>3
  <2>3. CASE UNCHANGED <<queue, accepted, taken>>
    BY <2>3
  <2> QED
    BY <2>1, <2>2, <2>3, QuietSteps
       DEF Next, Thread, ResizeDisplay, TakeSize, vars
<1> QED
  BY <1>1, <1>2, TypeCorrect, PTL DEF Spec

-------------------------------------------------------------------------------
(* The room above the limit is only ever used by messages that must not be *)
(* dropped: a message beyond the limit was pushed beyond the limit.        *)
THEOREM ReserveIsKept == Spec => []ReserveForNonDroppable
<1>1. Init => ReserveForNonDroppable
  BY DEF Init, ReserveForNonDroppable
<1>2. TypeOK /\ ReserveForNonDroppable /\ [Next]_vars => ReserveForNonDroppable'
  <2> SUFFICES ASSUME TypeOK, ReserveForNonDroppable, [Next]_vars,
                      NEW i \in 1..Len(queue'), i > QueueLimit
               PROVE  queue'[i] \in NonDroppable
    BY ConstantsOK DEF ReserveForNonDroppable, ConstantsOK
  <2>0. queue \in Seq(Msg) /\ QueueLimit \in Nat
    BY ConstantsOK DEF TypeOK, ConstantsOK
  <2>1. ASSUME NEW m \in Msg, PushMsg(m) PROVE queue'[i] \in NonDroppable
    <3>1. queue' = Append(queue, m)
      BY <2>1, PushEnqueues DEF Enqueue
    <3>2. Len(queue') = Len(queue) + 1 /\ queue'[Len(queue) + 1] = m
            /\ \A j \in 1..Len(queue) : queue'[j] = queue[j]
      BY <2>0, <3>1, AppendProperties
    <3>3. CASE i \in 1..Len(queue)
      BY <3>2, <3>3 DEF ReserveForNonDroppable
    <3>4. CASE i = Len(queue) + 1
      <4>1. Len(queue) >= QueueLimit
        BY <2>0, <3>4
      <4>2. m \in NonDroppable
        BY <2>0, <2>1, <4>1 DEF PushMsg, PushBelowLimit, PushOverLimit
      <4> QED
        BY <3>2, <3>4, <4>2
    <3> QED
      BY <2>0, <3>2, <3>3, <3>4
  <2>2. CASE TakeMsg
    <3>1. queue # <<>> /\ queue' = Tail(queue)
      BY <2>2 DEF TakeMsg
    <3>2. Len(queue') = Len(queue) - 1 /\ queue'[i] = queue[i + 1]
      BY <2>0, <3>1, HeadTailProperties
    <3>3. i + 1 \in 1..Len(queue) /\ i + 1 > QueueLimit
      BY <2>0, <3>2
    <3> QED
      BY <3>2, <3>3 DEF ReserveForNonDroppable
  <2>3. CASE UNCHANGED queue
    BY <2>3 DEF ReserveForNonDroppable
  <2> QED
    BY <2>1, <2>2, <2>3, QuietSteps
       DEF Next, Thread, ResizeDisplay, TakeSize, vars
<1> QED
  BY <1>1, <1>2, TypeCorrect, PTL DEF Spec

-------------------------------------------------------------------------------
(* The last size requested is never the one that is lost.                  *)
THEOREM LatestSizeIsKept == Spec => []LatestSizeWins
<1>1. Init => LatestSizeWins
  BY DEF Init, LatestSizeWins
<1>2. TypeOK /\ LatestSizeWins /\ [Next]_vars => LatestSizeWins'
  <2> SUFFICES ASSUME TypeOK, LatestSizeWins, [Next]_vars PROVE LatestSizeWins'
    OBVIOUS
  <2>1. ASSUME NEW s \in Size, ResizeDisplay(s) PROVE LatestSizeWins'
    <3>1. requests \in Seq(Size) /\ requests' = Append(requests, s)
            /\ resize' = s /\ s # NoSize
      BY <2>1, ConstantsOK DEF ResizeDisplay, TypeOK, ConstantsOK
    <3>2. requests'[Len(requests')] = s
      BY <3>1, AppendProperties
    <3> QED
      BY <3>1, <3>2 DEF LatestSizeWins
  <2>2. CASE TakeSize
    BY <2>2 DEF TakeSize, LatestSizeWins
  <2>3. CASE UNCHANGED <<resize, requests, lastSize>>
    BY <2>3 DEF LatestSizeWins
  <2>4. ASSUME NEW m \in Msg, PushMsg(m)
        PROVE  UNCHANGED <<resize, requests, lastSize>>
    BY <2>4, PushEnqueues
  <2> QED
    BY <2>1, <2>2, <2>3, <2>4, QuietSteps DEF Next, Thread, TakeMsg, vars
<1> QED
  BY <1>1, <1>2, TypeCorrect, PTL DEF Spec

-------------------------------------------------------------------------------
(* The controller implements the abstract channel: whatever the threads    *)
(* do, a step of the controller is one step of the channel or none.        *)
THEOREM ControllerImplementsChannel == Spec => ImplementsChannel
<1> USE DEF Channel!chanVars
<1>1. Init => Channel!ChanInit
  BY DEF Init, Channel!ChanInit
<1>2. TypeOK /\ [Next]_vars => [Channel!ChanNext]_(Channel!chanVars)
  <2> SUFFICES ASSUME TypeOK, [Next]_vars
               PROVE  [Channel!ChanNext]_(Channel!chanVars)
    OBVIOUS
  <2> USE DEF Channel!ChanNext
  <2>1. ASSUME NEW m \in Msg, PushMsg(m) PROVE Channel!Accept(m)
    <3>1. queue' = Append(queue, m) /\ UNCHANGED <<taken, resize, lastSize>>
      BY <2>1, PushEnqueues DEF Enqueue
    <3>2. stopped' = stopped /\ (pc' = "ended" <=> pc = "ended")
      BY <2>1 DEF PushMsg, PushBelowLimit, PushOverLimit, Signalled
    <3> QED
      BY <3>1, <3>2 DEF Channel!Accept
  <2>2. ASSUME NEW s \in Size, ResizeDisplay(s) PROVE Channel!Request(s)
    BY <2>2 DEF ResizeDisplay, Signalled, Channel!Request
  <2>3. CASE Stop
    <3>1. stopped' = TRUE /\ UNCHANGED <<queue, taken, resize, lastSize>>
      BY <2>3 DEF Stop, historyVars
    <3>2. (stopped \/ pc = "ended")' = TRUE
      BY <3>1
    <3>3. Channel!Close
      BY <3>1, <3>2 DEF Channel!Close
    <3> QED
      BY <3>3
  <2>4. CASE TakeSize
    BY <2>4 DEF TakeSize, Channel!HandOverSize
  <2>5. CASE TakeMsg
    BY <2>5 DEF TakeMsg, Channel!HandOver
  <2>6. CASE ObserveStop \/ SendFails
    BY <2>6 DEF ObserveStop, SendFails, Channel!Close, historyVars
  <2>7. CASE WaitForMsg \/ SpuriousWakeup \/ Send \/ DeviceReads \/ PeerCloses
               \/ InterruptSocket
    <3>1. UNCHANGED <<queue, taken, resize, lastSize, stopped>>
            /\ (pc' = "ended" <=> pc = "ended")
      BY <2>7 DEF WaitForMsg, SpuriousWakeup, Send, DeviceReads, PeerCloses,
                  InterruptSocket, historyVars
    <3> QED
      BY <3>1
  <2>8. CASE UNCHANGED vars
    BY <2>8 DEF vars
  <2> QED
    BY <2>1, <2>2, <2>3, <2>4, <2>5, <2>6, <2>7, <2>8 DEF Next, Thread
<1> QED
  BY <1>1, <1>2, TypeCorrect, PTL DEF Spec, ImplementsChannel, Channel!ChanSpec

(***************************************************************************)
(* The control panel and the client                                        *)
(***************************************************************************)

LEMMA Bounds ==
    /\ 0 \in 0..MaxCommands /\ 0 \in 0..MaxPresses /\ 0 \in 0..MaxEdits
    /\ 1 \in 1..MaxClock /\ 1..MaxCommands \subseteq 0..MaxCommands
  BY IPCConstantsOK DEF IPCConstantsOK

LEMMA Versions ==
    ASSUME NEW content \in Content, NEW n \in Nat
    PROVE  [content EXCEPT !.key = n] \in Content /\ [content EXCEPT !.pos = n] \in Content
  BY DEF Content

LEMMA NextVersion ==
    ASSUME NEW n \in 0..MaxEdits, n < MaxEdits
    PROVE  n + 1 \in 0..MaxEdits /\ n + 1 + 1 \in Nat
  BY IPCConstantsOK DEF IPCConstantsOK

LEMMA AppendedTask ==
    ASSUME NEW list \in Seq(0..MaxCommands), NEW task \in 0..MaxCommands
    PROVE  Append(list, task) \in Seq(0..MaxCommands)
  OBVIOUS

LEMMA Toggled ==
    ASSUME IpcTypeOK, ToggleEdit, UNCHANGED <<clock, lastCfgTime>>
    PROVE  /\ editMode' \in BOOLEAN /\ main' \in {"idle", "saving"}
           /\ cfg' \in Content /\ mtime' \in 1..clock /\ undetectable' \in BOOLEAN
<1> USE DEF IpcTypeOK, ToggleEdit
<1>1. CASE editMode
  <2>1. undetectable' \in BOOLEAN
    BY <1>1 DEF WriteFile
  <2>2. Empty \in Content
    BY DEF Empty, Content
  <2> QED
    BY <1>1, <2>1, <2>2 DEF WriteFile
<1>2. CASE ~editMode
  BY <1>2 DEF fileVars
<1> QED
  BY <1>1, <1>2

(* The configuration, the commands and the tasks keep their types.         *)
THEOREM IpcTypes == IpcSpec => []IpcTypeOK
<1>1. IpcInit => IpcTypeOK
  <2> SUFFICES ASSUME IpcInit PROVE IpcTypeOK
    OBVIOUS
  <2> USE DEF IpcInit
  <2>1. tasks \in Seq(0..MaxCommands)
    OBVIOUS
  <2>2. clock \in 1..MaxClock /\ mtime \in 1..clock /\ lastCfgTime \in 0..clock
    BY Bounds
  <2>3. cfg \in Content
    BY DEF Content
  <2> QED
    BY <2>1, <2>2, <2>3, Bounds DEF IpcTypeOK, NoFile
<1>2. IpcTypeOK /\ [IpcNext]_ipcVars => IpcTypeOK'
  <2> SUFFICES ASSUME IpcTypeOK, [IpcNext]_ipcVars PROVE IpcTypeOK'
    OBVIOUS
  <2> USE DEF IpcTypeOK, fileVars, guiVars, sendVars, timerVars, mainVars
  <2>0. Empty \in Content
    BY DEF Empty, Content
  <2>1. CASE Tick
    BY <2>1, IPCConstantsOK DEF Tick, IPCConstantsOK
  <2>2. CASE ReadMappings
    BY <2>2 DEF ReadMappings
  <2>3. CASE EditMappings
    <3>1. keyEdits' \in 0..MaxEdits /\ keyEdits' + 1 \in Nat
      BY <2>3, NextVersion DEF EditMappings
    <3>2. mappings' \in Content
      BY <2>3, <3>1, Versions DEF EditMappings
    <3> QED
      BY <2>3, <3>1, <3>2 DEF EditMappings
  <2>4. CASE OpenMappings
    BY <2>0, <2>4 DEF OpenMappings, WriteFile
  <2>5. CASE CloseMappings
    BY <2>5 DEF CloseMappings, WriteFile
  <2>6. CASE OpenCommand
    BY <2>6, IPCConstantsOK DEF OpenCommand, IPCConstantsOK
  <2>7. CASE FlushCommand
    <3>1. cmd' \in {NoFile, Blank} \cup 1..MaxCommands
      BY <2>7 DEF FlushCommand, NoFile
    <3> QED
      BY <2>7, <3>1 DEF FlushCommand
  <2>8. CASE CloseCommand
    BY <2>8, IPCConstantsOK DEF CloseCommand, NoFile, IPCConstantsOK
  <2>9. CASE PollConfig
    <3>1. lastCfgTime' \in 0..clock
      BY <2>9 DEF PollConfig
    <3>2. tasks' \in Seq(0..MaxCommands)
      BY <2>9, AppendedTask, Bounds DEF PollConfig, Reload
    <3> QED
      BY <2>9, <3>1, <3>2 DEF PollConfig
  <2>10. CASE PollCommand
    <3>1. tasks' \in Seq(0..MaxCommands)
      BY <2>10, AppendedTask, Bounds DEF PollCommand
    <3> QED
      BY <2>10, <3>1 DEF PollCommand
  <2>11. CASE RemoveCommand
    BY <2>11 DEF RemoveCommand
  <2>12. CASE RunTask
    <3>1. Head(tasks) \in 0..MaxCommands /\ Tail(tasks) \in Seq(0..MaxCommands)
      BY <2>12, HeadTailProperties DEF RunTask
    <3>2. CASE Head(tasks) = Reload
      BY <2>12, <3>1, <3>2 DEF RunTask, LoadConfig
    <3>3. CASE Head(tasks) # Reload /\ ~IsToggleEdit(Head(tasks))
      BY <2>12, <3>1, <3>3 DEF RunTask
    <3>4. CASE Head(tasks) # Reload /\ IsToggleEdit(Head(tasks))
      <4>1. ToggleEdit /\ UNCHANGED <<clock, lastCfgTime>>
        BY <2>12, <3>4 DEF RunTask
      <4> QED
        BY Toggled, <2>12, <3>1, <3>4, <4>1 DEF RunTask
    <3> QED
      BY <3>2, <3>3, <3>4
  <2>13. CASE PressF12
    <3>1. ToggleEdit /\ UNCHANGED <<clock, lastCfgTime>>
      BY <2>13 DEF PressF12
    <3> QED
      BY Toggled, <2>13, <3>1, IPCConstantsOK DEF PressF12, IPCConstantsOK
  <2>14. CASE PressF5
    BY <2>14 DEF PressF5, LoadConfig
  <2>15. CASE CloseSave
    BY <2>15 DEF CloseSave, WriteFile
  <2>16. CASE Drag
    <3>1. posEdits' \in 0..MaxEdits /\ posEdits' + 1 \in Nat
      BY <2>16, NextVersion DEF Drag
    <3>2. loaded' \in Content
      BY <2>16, <3>1, Versions DEF Drag
    <3> QED
      BY <2>16, <3>1, <3>2 DEF Drag
  <2>17. CASE UNCHANGED ipcVars
    BY <2>17 DEF ipcVars
  <2> QED
    BY <2>1, <2>2, <2>3, <2>4, <2>5, <2>6, <2>7, <2>8, <2>9, <2>10, <2>11, <2>12,
       <2>13, <2>14, <2>15, <2>16, <2>17
       DEF IpcNext
<1> QED
  BY <1>1, <1>2, PTL DEF IpcSpec

-------------------------------------------------------------------------------
(* The order of the commands                                               *)

(* What was taken from keymap.cmd, with 0 for the tasks that are reloads.  *)
Posted == {lastRun} \cup {tasks[i] : i \in DOMAIN tasks}

(* CommandsInOrder, with the commands that are still on their way: in the  *)
(* file, which the timer has read or not, and in the panel.                *)
OrderInv ==
    /\ CommandsInOrder
    /\ sending <= issued
    /\ cmd <= issued
    /\ \A t \in Posted : t <= issued
    /\ sender = "opened" => /\ sending = issued /\ issued > 0 /\ cmd <= 0
                            /\ \A t \in Posted : t < issued
    /\ cmd > 0 => \A t \in Posted : t <= cmd
    /\ removesOpenFile /\ cmd > 0 /\ timer # "remove" => \A t \in Posted : t < cmd

LEMMA Numbers ==
    IpcTypeOK => /\ cmd \in Int /\ cmd >= -1 /\ issued \in Nat /\ sending \in Nat
              /\ Posted \subseteq Nat /\ (cmd > 0 => cmd \in 1..MaxCommands)
<1> SUFFICES ASSUME IpcTypeOK
             PROVE  /\ cmd \in Int /\ cmd >= -1 /\ issued \in Nat /\ sending \in Nat
                    /\ Posted \subseteq Nat /\ (cmd > 0 => cmd \in 1..MaxCommands)
  OBVIOUS
<1>1. cmd \in Int /\ cmd >= -1 /\ (cmd > 0 => cmd \in 1..MaxCommands)
  BY IPCConstantsOK DEF IpcTypeOK, IPCConstantsOK, NoFile, Blank
<1>2. issued \in Nat /\ sending \in Nat /\ lastRun \in Nat
  BY DEF IpcTypeOK
<1>3. \A i \in DOMAIN tasks : tasks[i] \in Nat
  <2>1. tasks \in Seq(0..MaxCommands)
    BY DEF IpcTypeOK
  <2>2. DOMAIN tasks = 1..Len(tasks)
    BY <2>1
  <2>3. \A i \in 1..Len(tasks) : tasks[i] \in 0..MaxCommands
    BY <2>1, ElementOfSeq
  <2> QED
    BY <2>2, <2>3
<1> QED
  BY <1>1, <1>2, <1>3 DEF Posted

(* A task is posted after those that are waiting.                          *)
LEMMA AppendKeepsOrder ==
    ASSUME IpcTypeOK, CommandsInOrder, NEW task \in 0..MaxCommands,
           tasks' = Append(tasks, task), UNCHANGED <<lastRun, removesOpenFile>>,
           task # Reload => \A t \in Posted : t <= task /\ (removesOpenFile => t < task)
    PROVE  CommandsInOrder' /\ Posted' = Posted \cup {task}
<1>1. /\ DOMAIN tasks = 1..Len(tasks) /\ Len(tasks) \in Nat
      /\ DOMAIN tasks' = 1..(Len(tasks) + 1)
      /\ \A i \in DOMAIN tasks : tasks'[i] = tasks[i]
      /\ tasks'[Len(tasks) + 1] = task
  BY DEF IpcTypeOK
<1>2. DOMAIN tasks' = DOMAIN tasks \cup {Len(tasks) + 1}
  BY <1>1
<1>3. Posted' = Posted \cup {task}
  BY <1>1, <1>2 DEF Posted
<1>4. \A i \in DOMAIN tasks : tasks[i] \in Posted
  BY DEF Posted
<1>5. lastRun \in Posted
  BY DEF Posted
<1>6. CommandsInOrder'
  <2>1. ASSUME NEW i \in DOMAIN tasks', tasks'[i] # Reload
        PROVE  IF removesOpenFile THEN lastRun < tasks'[i] ELSE lastRun <= tasks'[i]
    BY <1>1, <1>2, <1>5, <2>1 DEF CommandsInOrder
  <2>2. ASSUME NEW i \in DOMAIN tasks', NEW j \in DOMAIN tasks', i < j,
               tasks'[i] # Reload, tasks'[j] # Reload
        PROVE  IF removesOpenFile THEN tasks'[i] < tasks'[j] ELSE tasks'[i] <= tasks'[j]
    <3>1. i \in DOMAIN tasks /\ tasks'[i] = tasks[i]
      BY <1>1, <1>2, <2>2
    <3>2. CASE j \in DOMAIN tasks
      BY <1>1, <2>2, <3>1, <3>2 DEF CommandsInOrder
    <3>3. CASE j = Len(tasks) + 1
      BY <1>1, <1>4, <2>2, <3>1, <3>3
    <3> QED
      BY <1>2, <3>2, <3>3
  <2> QED
    BY <2>1, <2>2 DEF CommandsInOrder
<1> QED
  BY <1>3, <1>6

(* The first task is run.                                                  *)
LEMMA RunKeepsOrder ==
    ASSUME IpcTypeOK, CommandsInOrder, tasks # <<>>, tasks' = Tail(tasks),
           lastRun' = (IF Head(tasks) = Reload THEN lastRun ELSE Head(tasks)),
           UNCHANGED removesOpenFile
    PROVE  CommandsInOrder' /\ Posted' \subseteq Posted
<1>1. /\ Len(tasks) \in Nat \ {0} /\ DOMAIN tasks = 1..Len(tasks)
      /\ DOMAIN tasks' = 1..(Len(tasks) - 1) /\ Head(tasks) = tasks[1]
      /\ \A i \in DOMAIN tasks' : i + 1 \in DOMAIN tasks /\ tasks'[i] = tasks[i + 1]
  BY DEF IpcTypeOK
<1>2. 1 \in DOMAIN tasks
  BY <1>1
<1>3. Posted' \subseteq Posted
  BY <1>1, <1>2 DEF Posted
<1>4. ASSUME NEW i \in DOMAIN tasks', tasks'[i] # Reload
      PROVE  IF removesOpenFile THEN lastRun' < tasks'[i] ELSE lastRun' <= tasks'[i]
  <2>1. i + 1 \in DOMAIN tasks /\ 1 < i + 1 /\ tasks'[i] = tasks[i + 1]
    BY <1>1
  <2> QED
    BY <1>1, <1>2, <1>4, <2>1 DEF CommandsInOrder
<1>5. ASSUME NEW i \in DOMAIN tasks', NEW j \in DOMAIN tasks', i < j,
             tasks'[i] # Reload, tasks'[j] # Reload
      PROVE  IF removesOpenFile THEN tasks'[i] < tasks'[j] ELSE tasks'[i] <= tasks'[j]
  <2>1. i + 1 \in DOMAIN tasks /\ j + 1 \in DOMAIN tasks /\ i + 1 < j + 1
    BY <1>1, <1>5
  <2> QED
    BY <1>1, <1>5, <2>1 DEF CommandsInOrder
<1> QED
  BY <1>3, <1>4, <1>5 DEF CommandsInOrder

(* What the other steps have in common.                                    *)
LEMMA OrderUnchanged ==
    ASSUME UNCHANGED <<tasks, lastRun, removesOpenFile>>
    PROVE  Posted' = Posted /\ (CommandsInOrder => CommandsInOrder')
  BY DEF Posted, CommandsInOrder

LEMMA OrderStep == ASSUME IpcTypeOK, OrderInv, [IpcNext]_ipcVars PROVE OrderInv'
<1> USE Numbers DEF OrderInv
<1>1. ASSUME UNCHANGED <<removesOpenFile, cmd, sendVars, timer, tasks, lastRun>>
      PROVE  OrderInv'
  BY <1>1, OrderUnchanged DEF sendVars
<1>2. CASE Tick \/ ReadMappings \/ EditMappings \/ OpenMappings \/ CloseMappings
  BY <1>1, <1>2 DEF Tick, ReadMappings, EditMappings, OpenMappings, CloseMappings,
                    timerVars, mainVars
<1>3. CASE PressF12 \/ PressF5 \/ CloseSave \/ Drag \/ UNCHANGED ipcVars
  BY <1>1, <1>3 DEF PressF12, PressF5, CloseSave, Drag, ipcVars, timerVars, mainVars
<1>4. CASE OpenCommand
  <2>1. /\ issued' = issued + 1 /\ sending' = issued' /\ cmd' = -1
        /\ UNCHANGED <<tasks, lastRun, removesOpenFile, timer>>
    BY <1>4 DEF OpenCommand, Blank, timerVars, mainVars
  <2>2. \A t \in Posted' : t < issued'
    BY <2>1, OrderUnchanged
  <2> QED
    BY <2>1, <2>2, OrderUnchanged
<1>5. CASE FlushCommand
  <2>1. /\ cmd' = (IF cmd = NoFile THEN NoFile ELSE sending) /\ sender' = "flushed"
        /\ sender = "opened"
        /\ UNCHANGED <<tasks, lastRun, removesOpenFile, timer, issued, sending>>
    BY <1>5 DEF FlushCommand, timerVars, mainVars
  <2> QED
    BY <2>1, OrderUnchanged DEF NoFile
<1>6. CASE CloseCommand
  <2>1. /\ sender' = "idle" /\ sending' = 0
        /\ UNCHANGED <<tasks, lastRun, removesOpenFile, timer, issued, cmd>>
    BY <1>6 DEF CloseCommand, NoFile, timerVars, mainVars
  <2> QED
    BY <2>1, OrderUnchanged
<1>7. CASE PollConfig
  <2>1. timer' = "cmd" /\ timer # "remove" /\ UNCHANGED <<removesOpenFile, cmd, sendVars, lastRun>>
    BY <1>7 DEF PollConfig, mainVars
  <2>2. CASE tasks' = tasks
    BY <2>1, <2>2, OrderUnchanged DEF sendVars
  <2>3. CASE tasks' = Append(tasks, Reload)
    <3>1. CommandsInOrder' /\ Posted' = Posted \cup {0}
      BY <2>1, <2>3, AppendKeepsOrder, Bounds DEF Reload
    <3> QED
      BY <2>1, <3>1 DEF sendVars
  <2> QED
    BY <1>7, <2>2, <2>3 DEF PollConfig
<1>8. CASE PollCommand
  <2>1. timer = "cmd" /\ UNCHANGED <<removesOpenFile, cmd, sendVars, lastRun>>
    BY <1>8 DEF PollCommand, mainVars
  <2>2. CASE cmd \notin 1..MaxCommands
    <3>1. tasks' = tasks /\ ~(cmd > 0)
      BY <1>8, <2>2 DEF PollCommand
    <3> QED
      BY <2>1, <3>1, OrderUnchanged DEF sendVars
  <2>3. CASE cmd \in 1..MaxCommands
    <3>1. tasks' = Append(tasks, cmd) /\ timer' = "remove" /\ cmd > 0
      BY <1>8, <2>3 DEF PollCommand, NoFile
    <3>2. \A t \in Posted : t <= cmd /\ (removesOpenFile => t < cmd)
      BY <2>1, <3>1
    <3>3. cmd \in 0..MaxCommands
      BY <2>3, Bounds
    <3>4. CommandsInOrder' /\ Posted' = Posted \cup {cmd}
      BY <2>1, <3>1, <3>2, <3>3, AppendKeepsOrder
    <3> QED
      BY <2>1, <3>1, <3>2, <3>4 DEF sendVars
  <2> QED
    BY <2>2, <2>3
<1>9. CASE RemoveCommand
  <2>1. /\ cmd' = 0 \/ (cmd' = cmd /\ ~removesOpenFile)
        /\ UNCHANGED <<removesOpenFile, sendVars, tasks, lastRun>>
    BY <1>9 DEF RemoveCommand, NoFile, mainVars
  <2> QED
    BY <2>1, OrderUnchanged DEF sendVars
<1>10. CASE RunTask
  <2>1. /\ tasks # <<>> /\ tasks' = Tail(tasks)
        /\ lastRun' = (IF Head(tasks) = Reload THEN lastRun ELSE Head(tasks))
        /\ UNCHANGED <<removesOpenFile, cmd, sendVars, timer>>
    BY <1>10 DEF RunTask, timerVars
  <2>2. CommandsInOrder' /\ Posted' \subseteq Posted
    BY <2>1, RunKeepsOrder
  <2> QED
    BY <2>1, <2>2 DEF sendVars
<1> QED
  BY <1>2, <1>3, <1>4, <1>5, <1>6, <1>7, <1>8, <1>9, <1>10 DEF IpcNext

-------------------------------------------------------------------------------
(* The freshness of the configuration                                      *)

(* FreshWhenDetectable, before everything has settled: as long as the last *)
(* write can be detected, a time that the timer has seen was followed by a *)
(* reload, which may still be waiting; the first one it sees needs none.   *)
FreshInv ==
    /\ ~undetectable /\ lastCfgTime = 0 => onDisk = cfg
    /\ ~undetectable /\ mtime <= lastCfgTime =>
          onDisk = cfg \/ \E i \in DOMAIN tasks : tasks[i] = Reload

(* A write is newer than what the timer has seen, or cannot be detected.   *)
LEMMA WriteIsFresh ==
    ASSUME IpcTypeOK, NEW content, WriteFile(content), UNCHANGED lastCfgTime
    PROVE  FreshInv'
  BY DEF IpcTypeOK, WriteFile, FreshInv

LEMMA FreshStep == ASSUME IpcTypeOK, FreshInv, [IpcNext]_ipcVars PROVE FreshInv'
<1>1. ASSUME UNCHANGED <<fileVars, lastCfgTime, tasks>>, onDisk' = onDisk \/ onDisk' = cfg
      PROVE  FreshInv'
  BY <1>1 DEF FreshInv, fileVars
<1>2. CASE Tick \/ ReadMappings \/ EditMappings \/ OpenCommand \/ FlushCommand
             \/ CloseCommand
  BY <1>1, <1>2 DEF Tick, ReadMappings, EditMappings, OpenCommand, FlushCommand,
                    CloseCommand, timerVars, mainVars
<1>3. CASE RemoveCommand \/ PressF5 \/ Drag \/ UNCHANGED ipcVars
  BY <1>1, <1>3 DEF RemoveCommand, PressF5, LoadConfig, Drag, ipcVars, timerVars, mainVars
<1>4. CASE OpenMappings \/ CloseMappings \/ CloseSave
  BY <1>4, WriteIsFresh DEF OpenMappings, CloseMappings, CloseSave, timerVars
<1>5. CASE PollConfig
  <2>1. UNCHANGED <<fileVars, onDisk>>
    BY <1>5 DEF PollConfig, mainVars
  <2>2. CASE mtime > lastCfgTime /\ lastCfgTime # 0
    <3>1. tasks' = Append(tasks, Reload)
      BY <1>5, <2>2 DEF PollConfig
    <3>2. lastCfgTime' = mtime /\ mtime # 0
      BY <1>5, <2>2 DEF PollConfig, IpcTypeOK
    <3>3. Len(tasks) + 1 \in DOMAIN tasks' /\ tasks'[Len(tasks) + 1] = Reload
      BY <3>1 DEF IpcTypeOK
    <3> QED
      BY <2>1, <3>2, <3>3 DEF FreshInv
  <2>3. CASE mtime > lastCfgTime /\ lastCfgTime = 0
    BY <1>5, <2>1, <2>3 DEF PollConfig, FreshInv, fileVars
  <2>4. CASE ~(mtime > lastCfgTime)
    BY <1>5, <2>1, <2>4 DEF PollConfig, FreshInv, fileVars
  <2> QED
    BY <2>2, <2>3, <2>4
<1>6. CASE PollCommand
  <2>1. UNCHANGED <<fileVars, onDisk, lastCfgTime>>
    BY <1>6 DEF PollCommand, mainVars
  <2>2. \A i \in DOMAIN tasks : i \in DOMAIN tasks' /\ tasks'[i] = tasks[i]
    BY <1>6 DEF PollCommand, IpcTypeOK
  <2> QED
    BY <2>1, <2>2 DEF FreshInv, fileVars
<1>7. CASE RunTask
  <2>1. tasks # <<>> /\ tasks' = Tail(tasks) /\ UNCHANGED lastCfgTime
    BY <1>7 DEF RunTask, timerVars
  <2>2. CASE Head(tasks) = Reload
    BY <1>7, <2>1, <2>2 DEF RunTask, LoadConfig, FreshInv, fileVars
  <2>3. CASE Head(tasks) # Reload
    <3>1. ASSUME NEW i \in DOMAIN tasks, tasks[i] = Reload
          PROVE  i - 1 \in DOMAIN tasks' /\ tasks'[i - 1] = Reload
      <4>1. i # 1 /\ i \in 1..Len(tasks)
        BY <2>3, <3>1 DEF IpcTypeOK
      <4>2. i - 1 \in 1..Len(tasks')
        BY <2>1, <4>1 DEF IpcTypeOK
      <4> QED
        BY <2>1, <3>1, <4>1, <4>2 DEF IpcTypeOK
    <3>2. CASE IsToggleEdit(Head(tasks))
      BY <1>7, <2>1, <2>3, <3>1, <3>2, WriteIsFresh DEF RunTask, ToggleEdit, FreshInv, fileVars
    <3>3. CASE ~IsToggleEdit(Head(tasks))
      BY <1>7, <2>1, <2>3, <3>1, <3>3 DEF RunTask, FreshInv, fileVars
    <3> QED
      BY <3>2, <3>3
  <2> QED
    BY <2>2, <2>3
<1>8. CASE PressF12
  <2>1. CASE editMode
    BY <1>8, <2>1, WriteIsFresh DEF PressF12, ToggleEdit, timerVars
  <2>2. CASE ~editMode
    BY <1>8, <2>2 DEF PressF12, ToggleEdit, FreshInv, fileVars, timerVars
  <2> QED
    BY <2>1, <2>2
<1> QED
  BY <1>2, <1>3, <1>4, <1>5, <1>6, <1>7, <1>8 DEF IpcNext

(* Commands run in the order in which they were sent, and a configuration  *)
(* whose write the timer can tell from the one before ends up loaded       *)
(* (km_ipc_timer_cb(), scrcpy_gui.py), whatever the panel, the timer and   *)
(* the main thread do between two system calls of the others.              *)
THEOREM PanelStaysFollowed == IpcSpec => []PanelIsFollowed
<1>1. IpcInit => OrderInv
  BY DEF IpcInit, OrderInv, CommandsInOrder, Posted, NoFile
<1>2. IpcTypeOK /\ OrderInv /\ [IpcNext]_ipcVars => OrderInv'
  BY OrderStep
<1>3. IpcInit => FreshInv
  BY DEF IpcInit, FreshInv
<1>4. IpcTypeOK /\ FreshInv /\ [IpcNext]_ipcVars => FreshInv'
  BY FreshStep
<1>5. IpcTypeOK /\ OrderInv /\ FreshInv => PanelIsFollowed
  BY DEF PanelIsFollowed, OrderInv, FreshInv, FreshWhenDetectable, Quiescent, IpcTypeOK
<1> QED
  BY <1>1, <1>2, <1>3, <1>4, <1>5, IpcTypes, PTL DEF IpcSpec
================================================================================
