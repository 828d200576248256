------------------------------ MODULE Controller ------------------------------
(***************************************************************************)
(* The controller of the client (app/src/controller.c): any thread pushes  *)
(* control messages into a bounded queue or sets the requested display     *)
(* size; one thread takes them and writes them to the control socket.      *)
(*                                                                         *)
(* Every critical section on controller->mutex is one action.  Writing to  *)
(* the socket is outside the lock and is a step of its own: other threads  *)
(* push, resize and stop while the controller thread is sending, and it    *)
(* blocks while the device does not read.                                  *)
(***************************************************************************)
EXTENDS Integers, Sequences

CONSTANTS
    Msg,           \* the control messages other than RESIZE_DISPLAY
    NonDroppable,  \* those that sc_control_msg_is_droppable() excludes
    Size,          \* the display sizes
    NoSize,        \* resize_display.width = 0
    QueueLimit,    \* SC_CONTROL_MSG_QUEUE_LIMIT, 60 in the code
    Reserve,       \* slots reserved above the limit, 4 in the code
    WireLimit,     \* messages that fit in the socket buffers
    MaxPushes,     \* bound: accepted messages in a behaviour
    MaxResizes     \* bound: size requests in a behaviour

ASSUME ConstantsOK ==
    /\ NonDroppable \subseteq Msg
    /\ NoSize \notin Size
    /\ QueueLimit \in Nat \ {0}
    /\ Reserve \in Nat
    /\ QueueLimit + Reserve >= 2   \* SC_VECDEQUE_MINCAP_ is 10: growing by half grows
    /\ WireLimit \in Nat \ {0}
    /\ MaxPushes \in Nat
    /\ MaxResizes \in Nat

VARIABLES
    queue,      \* controller->queue
    capacity,   \* the capacity of the vecdeque behind queue
    resize,     \* controller->resize_display
    stopped,    \* controller->stopped
    pc,         \* what the controller thread is doing
    socket,     \* "open", or "shutdown": closed by the peer or interrupted
    backlog,    \* messages written to the socket and not read by the device
    accepted,   \* history: messages for which push_msg returned true
    taken,      \* history: messages the thread took from the queue
    requests,   \* history: display sizes requested
    lastSize    \* history: last display size the thread took

threadVars  == <<pc, backlog>>
historyVars == <<accepted, taken, requests, lastSize>>
vars == <<queue, capacity, resize, stopped, pc, socket, backlog,
          accepted, taken, requests, lastSize>>

-------------------------------------------------------------------------------
(* The vecdeque is reserved for QueueLimit + Reserve messages when the     *)
(* controller is initialised, and grows by half when a push finds it full. *)

(* Mutation: the vecdeque never grows.                                     *)
Grown_Never(cap) == cap

Grown(cap) == cap + cap \div 2

Init ==
    /\ queue = <<>>
    /\ capacity = QueueLimit + Reserve
    /\ resize = NoSize
    /\ stopped = FALSE
    /\ pc = "check"
    /\ socket = "open"
    /\ backlog = 0
    /\ accepted = <<>>
    /\ taken = <<>>
    /\ requests = <<>>
    /\ lastSize = NoSize

(* sc_cond_signal(): a waiting thread goes back to test its condition; a   *)
(* signal that finds nobody waiting is lost.                               *)
Signalled == IF pc = "waiting" THEN "check" ELSE pc

(* Mutation: a message is queued before the others.                        *)
Enqueue_First(m) ==
    /\ queue' = <<m>> \o queue
    /\ accepted' = Append(accepted, m)

Enqueue(m) ==
    /\ queue' = Append(queue, m)
    /\ accepted' = Append(accepted, m)

(* Mutation: the thread is not signalled.                                  *)
PushBelowLimit_NoSignal(m) ==
    /\ Len(queue) < QueueLimit
    /\ Enqueue(m)
    /\ UNCHANGED <<pc, capacity>>

(* Below the limit: the push cannot fail; the thread is signalled only if  *)
(* the queue was empty.                                                    *)
PushBelowLimit(m) ==
    /\ Len(queue) < QueueLimit
    /\ Enqueue(m)
    /\ pc' = IF queue = <<>> THEN Signalled ELSE pc
    /\ UNCHANGED capacity

(* Mutation: a droppable message may take the reserved room.               *)
PushOverLimit_AnyMsg(m) ==
    /\ Len(queue) >= QueueLimit
    /\ Enqueue(m)
    /\ capacity' = IF Len(queue) = capacity THEN Grown(capacity) ELSE capacity
    /\ UNCHANGED pc

(* At the limit: only a message that must not be dropped is pushed, in the *)
(* reserved room or after growing the vecdeque.                            *)
PushOverLimit(m) ==
    /\ Len(queue) >= QueueLimit
    /\ m \in NonDroppable
    /\ Enqueue(m)
    /\ capacity' = IF Len(queue) = capacity THEN Grown(capacity) ELSE capacity
    /\ UNCHANGED pc

(* sc_controller_push_msg() returning true.  (When it returns false - the  *)
(* queue is full and the message droppable, or the vecdeque cannot grow -  *)
(* it changes nothing.)                                                    *)
PushMsg(m) ==
    /\ Len(accepted) < MaxPushes
    /\ \/ PushBelowLimit(m)
       \/ PushOverLimit(m)
    /\ UNCHANGED <<resize, stopped, socket, backlog, taken, requests, lastSize>>

(* Mutation: a size that is still waiting is not overwritten.              *)
ResizeDisplay_KeepsFirst(s) ==
    /\ Len(requests) < MaxResizes
    /\ resize' = IF resize = NoSize THEN s ELSE resize
    /\ requests' = Append(requests, s)
    /\ pc' = IF resize = NoSize THEN Signalled ELSE pc
    /\ UNCHANGED <<queue, capacity, stopped, socket, backlog, accepted, taken,
                   lastSize>>

(* sc_controller_resize_display(): overwrites; signals if the slot was     *)
(* empty.                                                                  *)
ResizeDisplay(s) ==
    /\ Len(requests) < MaxResizes
    /\ resize' = s
    /\ requests' = Append(requests, s)
    /\ pc' = IF resize = NoSize THEN Signalled ELSE pc
    /\ UNCHANGED <<queue, capacity, stopped, socket, backlog, accepted, taken,
                   lastSize>>

(* Mutation: stop without a signal.                                        *)
Stop_NoSignal ==
    /\ stopped' = TRUE
    /\ UNCHANGED <<queue, capacity, resize, pc, socket, backlog, historyVars>>

(* sc_controller_stop()                                                    *)
Stop ==
    /\ stopped' = TRUE
    /\ pc' = Signalled
    /\ UNCHANGED <<queue, capacity, resize, socket, backlog, historyVars>>

-------------------------------------------------------------------------------
(* The controller thread: run_controller().                                *)

NothingToDo == resize = NoSize /\ queue = <<>>

WaitForMsg ==
    /\ pc = "check"
    /\ ~stopped
    /\ NothingToDo
    /\ pc' = "waiting"
    /\ UNCHANGED <<queue, capacity, resize, stopped, socket, backlog,
                   historyVars>>

SpuriousWakeup ==
    /\ pc = "waiting"
    /\ pc' = "check"
    /\ UNCHANGED <<queue, capacity, resize, stopped, socket, backlog,
                   historyVars>>

(* Stop immediately, whatever is still queued.                             *)
ObserveStop ==
    /\ pc = "check"
    /\ stopped
    /\ pc' = "ended"
    /\ UNCHANGED <<queue, capacity, resize, stopped, socket, backlog,
                   historyVars>>

(* A requested size has top priority.                                      *)
TakeSize ==
    /\ pc = "check"
    /\ ~stopped
    /\ resize # NoSize
    /\ lastSize' = resize
    /\ resize' = NoSize
    /\ pc' = "sending"
    /\ UNCHANGED <<queue, capacity, stopped, socket, backlog, accepted, taken,
                   requests>>

(* Mutation: the queue is emptied before stopping.                         *)
TakeMsg_AfterStop ==
    /\ pc = "check"
    /\ resize = NoSize
    /\ queue # <<>>
    /\ taken' = Append(taken, Head(queue))
    /\ queue' = Tail(queue)
    /\ pc' = "sending"
    /\ UNCHANGED <<capacity, resize, stopped, socket, backlog, accepted,
                   requests, lastSize>>

TakeMsg ==
    /\ pc = "check"
    /\ ~stopped
    /\ resize = NoSize
    /\ queue # <<>>
    /\ taken' = Append(taken, Head(queue))
    /\ queue' = Tail(queue)
    /\ pc' = "sending"
    /\ UNCHANGED <<capacity, resize, stopped, socket, backlog, accepted,
                   requests, lastSize>>

(* process_msg(): net_send_all() blocks while the socket buffers are full, *)
(* and fails once the socket is shut down.                                 *)
Send ==
    /\ pc = "sending"
    /\ socket = "open"
    /\ backlog < WireLimit
    /\ backlog' = backlog + 1
    /\ pc' = "check"
    /\ UNCHANGED <<queue, capacity, resize, stopped, socket, historyVars>>

SendFails ==
    /\ pc = "sending"
    /\ socket = "shutdown"
    /\ pc' = "ended"
    /\ UNCHANGED <<queue, capacity, resize, stopped, socket, backlog,
                   historyVars>>

Thread ==
    WaitForMsg \/ ObserveStop \/ TakeSize \/ TakeMsg \/ Send \/ SendFails

-------------------------------------------------------------------------------
(* The other end of the socket, and sc_server_stop(), which scrcpy() calls *)
(* after sc_controller_stop() and which shuts the socket down.             *)

DeviceReads ==
    /\ backlog > 0
    /\ backlog' = backlog - 1
    /\ UNCHANGED <<queue, capacity, resize, stopped, pc, socket, historyVars>>

PeerCloses ==
    /\ socket = "open"
    /\ socket' = "shutdown"
    /\ UNCHANGED <<queue, capacity, resize, stopped, pc, backlog, historyVars>>

InterruptSocket ==
    /\ stopped
    /\ socket = "open"
    /\ socket' = "shutdown"
    /\ UNCHANGED <<queue, capacity, resize, stopped, pc, backlog, historyVars>>

Next ==
    \/ \E m \in Msg : PushMsg(m)
    \/ \E s \in Size : ResizeDisplay(s)
    \/ Stop
    \/ Thread
    \/ SpuriousWakeup
    \/ DeviceReads
    \/ PeerCloses
    \/ InterruptSocket

Spec == Init /\ [][Next]_vars

(* The scheduler runs the controller thread whenever it can go on, and the *)
(* server thread gets to its net_interrupt().  Nothing obliges the device  *)
(* to read, anyone to push or stop, or a condition to wake up spuriously.  *)
Fairness == WF_vars(Thread) /\ WF_vars(InterruptSocket)

FairSpec == Spec /\ Fairness

-------------------------------------------------------------------------------
(* Properties                                                              *)

(* Every variable keeps its type, the queue fits in the vecdeque, and      *)
(* thus sc_vecdeque_push_noresize() is never called on a full one.         *)
TypeOK ==
    /\ queue \in Seq(Msg)
    /\ capacity \in Nat
    /\ capacity >= QueueLimit + Reserve
    /\ Len(queue) <= capacity
    /\ resize \in Size \cup {NoSize}
    /\ stopped \in BOOLEAN
    /\ pc \in {"check", "waiting", "sending", "ended"}
    /\ socket \in {"open", "shutdown"}
    /\ backlog \in 0..WireLimit
    /\ accepted \in Seq(Msg)
    /\ taken \in Seq(Msg)
    /\ requests \in Seq(Size)
    /\ lastSize \in Size \cup {NoSize}

(* The thread never sleeps on its condition while there is something to    *)
(* do: signalling only on the transitions from "empty" (push_msg), from    *)
(* "no size" (resize_display) and on stop loses no wakeup.                 *)
NoLostWakeup == pc = "waiting" => NothingToDo /\ ~stopped

(* Messages leave in the order they were accepted, each exactly once:      *)
(* what was taken followed by what is queued is what was accepted.         *)
FifoOrder == accepted = taken \o queue

(* The room above the limit is never spent on a message that could have    *)
(* been dropped, however pushes and pops interleave.                       *)
ReserveForNonDroppable ==
    \A i \in 1..Len(queue) : i > QueueLimit => queue[i] \in NonDroppable

(* A size request may overwrite an earlier one, but the last one requested *)
(* is never the one that is lost: it is in the slot, or it is the last     *)
(* size the thread took.                                                   *)
LatestSizeWins ==
    requests # <<>> =>
        requests[Len(requests)] = IF resize # NoSize THEN resize ELSE lastSize

(* The controller is a lossy, ordered channel with a slot for the size; it *)
(* is closed for the device once it is stopped or its thread has ended.    *)
Channel == INSTANCE ControlChannel WITH
    pending <- queue,
    handed  <- taken,
    slot    <- resize,
    closed  <- (stopped \/ pc = "ended")

ImplementsChannel == Channel!ChanSpec

(* sc_controller_join() returns: once stopped, the thread ends even if the *)
(* device stopped reading while a message was being sent.                  *)
StopTerminates == stopped ~> (pc = "ended")

(* While the device reads, an accepted message does not stay in the queue  *)
(* for ever unless the thread ends.                                        *)
Drains ==
    WF_vars(DeviceReads) => ((queue # <<>>) ~> (queue = <<>> \/ pc = "ended"))

(* The thread does what it is there for, and can always be ended.          *)
ThreadIsLive == StopTerminates /\ Drains
===============================================================================
