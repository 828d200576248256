------------------------------ MODULE FilePusher ------------------------------
(***************************************************************************)
(* The file pusher (app/src/file_pusher.c): files dropped on the window    *)
(* are queued for a thread that runs one adb process after the other.  The *)
(* process being waited for is published in a sc_intr (app/src/util/intr.c)*)
(* so that the thread that stops the pusher can kill it.                   *)
(*                                                                         *)
(* Every action is the part of a function between two points where another *)
(* thread can run; what a mutex protects is one action.                    *)
(***************************************************************************)
EXTENDS Naturals, Sequences

CONSTANT MaxRequests   \* bound: files dropped

ASSUME FilePusherConstantsOK == MaxRequests \in Nat

VARIABLES
    initialized,  \* whether the thread was started
    queue,        \* requests: "install" or "push"
    stopped,      \* fp->stopped
    interrupted,  \* intr->interrupted
    process,      \* whether intr->process is set, to the current adb process
    adb,          \* the adb process: "none" (or closed), "running", "killed",
                  \*   "succeeded" or "failed"
    fp,           \* where the thread is
    current,      \* the request it works on
    requested     \* history: how many files were dropped

pusherVars == <<initialized, queue, stopped, interrupted, process, adb, fp,
                current, requested>>

Action == {"install", "push"}

PusherInit ==
    /\ initialized = FALSE
    /\ queue = <<>>
    /\ stopped = FALSE
    /\ interrupted = FALSE
    /\ process = FALSE
    /\ adb = "none"
    /\ fp = "none"
    /\ current = "push"
    /\ requested = 0

Woken == IF fp = "asleep" THEN "check" ELSE fp

(* sc_file_pusher_request(): start the thread on the first request, and    *)
(* signal it only when the queue was empty.                                *)
Request(action) ==
    /\ requested < MaxRequests
    /\ requested' = requested + 1
    /\ initialized' = TRUE
    /\ queue' = Append(queue, action)
    /\ fp' = IF ~initialized THEN "check"
             ELSE IF queue = <<>> THEN Woken ELSE fp
    /\ UNCHANGED <<stopped, interrupted, process, adb, current>>

(* sc_intr_interrupt(): kill the process that is published, if any.        *)
Interrupt ==
    /\ interrupted' = TRUE
    /\ adb' = IF process /\ adb = "running" THEN "killed" ELSE adb
    /\ process' = FALSE

(* Mutation: stop without a signal.                                        *)
StopPusher_NoSignal ==
    IF initialized
    THEN /\ stopped' = TRUE
         /\ Interrupt
         /\ UNCHANGED <<initialized, queue, fp, current, requested>>
    ELSE UNCHANGED pusherVars

(* sc_file_pusher_stop()                                                   *)
StopPusher ==
    IF initialized
    THEN /\ stopped' = TRUE
         /\ fp' = Woken
         /\ Interrupt
         /\ UNCHANGED <<initialized, queue, current, requested>>
    ELSE UNCHANGED pusherVars

-------------------------------------------------------------------------------
(* The thread: run_file_pusher()                                           *)

Check ==
    /\ fp = "check"
    /\ IF stopped THEN fp' = "ended" /\ UNCHANGED <<queue, current>>
       ELSE IF queue = <<>> THEN fp' = "asleep" /\ UNCHANGED <<queue, current>>
       ELSE /\ current' = Head(queue)
            /\ queue' = Tail(queue)
            /\ fp' = "execute"
    /\ UNCHANGED <<initialized, stopped, interrupted, process, adb, requested>>

SpuriousWakeup ==
    /\ fp = "asleep"
    /\ fp' = "check"
    /\ UNCHANGED <<initialized, queue, stopped, interrupted, process, adb,
                   current, requested>>

(* sc_adb_push(), sc_adb_install(): start adb, if it can be started.       *)
Execute ==
    /\ fp = "execute"
    /\ \/ adb' = "running" /\ fp' = "publish"
       \/ adb' = "none" /\ fp' = "check"
    /\ UNCHANGED <<initialized, queue, stopped, interrupted, process, current,
                   requested>>

(* process_check_success_intr(): once interrupted, the process is neither  *)
(* published nor waited for.                                               *)
Publish ==
    /\ fp = "publish"
    /\ IF interrupted
       THEN fp' = "check" /\ adb' = "none" /\ UNCHANGED process
       ELSE fp' = "wait" /\ process' = TRUE /\ UNCHANGED adb
    /\ UNCHANGED <<initialized, queue, stopped, interrupted, current, requested>>

(* Mutation: close the process as soon as it has exited.                   *)
Wait_Closes ==
    /\ fp = "wait"
    /\ adb \in {"succeeded", "failed"}
    /\ fp' = "unpublish"
    /\ adb' = "none"
    /\ UNCHANGED <<initialized, queue, stopped, interrupted, process, current,
                   requested>>

(* Wait for the exit of adb, without closing the process ...               *)
Wait ==
    /\ fp = "wait"
    /\ adb \in {"succeeded", "failed"}
    /\ fp' = "unpublish"
    /\ UNCHANGED <<initialized, queue, stopped, interrupted, process, adb,
                   current, requested>>

(* ... stop publishing it ...                                              *)
Unpublish ==
    /\ fp = "unpublish"
    /\ fp' = "close"
    /\ process' = (process /\ interrupted)
    /\ UNCHANGED <<initialized, queue, stopped, interrupted, adb, current,
                   requested>>

(* ... and close it.  A pushed file must then be scanned by the device.    *)
Close ==
    /\ fp = "close"
    /\ fp' = IF adb = "succeeded" /\ current = "push" THEN "scan" ELSE "check"
    /\ adb' = "none"
    /\ UNCHANGED <<initialized, queue, stopped, interrupted, process, current,
                   requested>>

(* request_scan_file(): sc_controller_push_msg() on the controller.        *)
Scan ==
    /\ fp = "scan"
    /\ fp' = "check"
    /\ UNCHANGED <<initialized, queue, stopped, interrupted, process, adb,
                   current, requested>>

PusherThread ==
    Check \/ Execute \/ Publish \/ Wait \/ Unpublish \/ Close \/ Scan

(* adb ends by itself, or because it was killed.                           *)
AdbExits ==
    /\ adb = "running"
    /\ adb' \in {"succeeded", "failed"}
    /\ UNCHANGED <<initialized, queue, stopped, interrupted, process, fp,
                   current, requested>>

AdbDies ==
    /\ adb = "killed"
    /\ adb' = "failed"
    /\ UNCHANGED <<initialized, queue, stopped, interrupted, process, fp,
                   current, requested>>

-------------------------------------------------------------------------------
(* Properties                                                              *)

PusherTypeOK ==
    /\ initialized \in BOOLEAN /\ stopped \in BOOLEAN
    /\ interrupted \in BOOLEAN /\ process \in BOOLEAN
    /\ queue \in Seq(Action) /\ current \in Action
    /\ adb \in {"none", "running", "killed", "succeeded", "failed"}
    /\ fp \in {"none", "check", "asleep", "execute", "publish", "wait",
               "unpublish", "close", "scan", "ended"}
    /\ requested \in 0..MaxRequests

(* The thread never sleeps on a request or on a stop, although a request   *)
(* signals only when it finds the queue empty.                             *)
NoForgottenRequest == fp = "asleep" => queue = <<>> /\ ~stopped

(* What an interruption kills is a process that was started and not yet    *)
(* closed: a closed pid may belong to another program.                     *)
InterruptsLiveProcess ==
    process => adb # "none" /\ fp \in {"wait", "unpublish"} /\ ~interrupted

(* A request or a stop is always seen, and an interruption kills no other  *)
(* program (file_pusher.c, util/intr.c).                                   *)
PusherIsSafe == NoForgottenRequest /\ InterruptsLiveProcess
===============================================================================
