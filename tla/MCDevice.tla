------------------------------- MODULE MCDevice -------------------------------
(* The server on the device, part by part: the touches that it injects        *)
(* (Touch), the video that it captures (Capture) and what it leaves behind    *)
(* (CleanUp).  The three share no state, so that a behaviour follows one of   *)
(* them.                                                                      *)
EXTENDS Touch, Capture, CleanUp

VARIABLE focus

deviceVars == <<touchVars, captureVars, cleanVars, focus>>

Screen ==
    [source |-> "screen", downsize |-> TRUE, constrained |-> FALSE, fixed |-> FALSE,
     fails |-> FALSE, changes |-> 0, resets |-> 0, resizes |-> 0]
MCCaptureSetups ==
    {[Screen EXCEPT !.changes = 2, !.resets = 1],
     [Screen EXCEPT !.fails = TRUE, !.constrained = TRUE, !.resets = 1],
     [Screen EXCEPT !.fails = TRUE, !.downsize = FALSE, !.resets = 1],
     [Screen EXCEPT !.source = "new", !.changes = 1, !.resizes = 1],
     [Screen EXCEPT !.source = "new", !.fails = TRUE, !.resizes = 1],
     [Screen EXCEPT !.source = "new", !.changes = 2, !.resets = 1],
     [Screen EXCEPT !.source = "camera", !.fails = TRUE, !.resets = 1],
     [Screen EXCEPT !.source = "camera", !.fails = TRUE, !.fixed = TRUE]}

Setting(kind, old) == [kind |-> kind, old |-> old]
MCCleanUpSetups ==
    [settings : {<<Setting("text", "other"), Setting("number", "other")>>,
                 <<Setting("text", "unset"), Setting("number", "unset")>>,
                 <<Setting("number", "wanted"), Setting("policy", "other")>>},
     powerOff : BOOLEAN]

(* What is not in focus has one initial state.                                *)
Unfocused(name, state, states) == focus # name => state = CHOOSE s \in states : TRUE

DeviceInit ==
    /\ focus \in {"touch", "capture", "cleanUp"}
    /\ TouchInit /\ CaptureInit /\ CleanUpInit
    /\ Unfocused("capture", source, CaptureSetups)
    /\ Unfocused("cleanUp", asked, CleanUpSetups) /\ Unfocused("cleanUp", power.awake, BOOLEAN)

OnlyCapture(A) == focus = "capture" /\ A /\ UNCHANGED <<touchVars, cleanVars, focus>>
OnlyCleanUp(A) == focus = "cleanUp" /\ A /\ UNCHANGED <<touchVars, captureVars, focus>>

Touch_Next == focus = "touch" /\ TouchNext /\ UNCHANGED <<captureVars, cleanVars, focus>>
Capture_Next == OnlyCapture(CaptureNext)
CleanUp_Next == OnlyCleanUp(CleanUpNext)

DeviceNext == Touch_Next \/ Capture_Next \/ CleanUp_Next

(* Every thread of the server goes on, and the process that outlives it; a    *)
(* codec whose input is over ends its output.  Nothing is assumed of the      *)
(* client, the display, the user, nor of the debouncer.                       *)
Fairness ==
    /\ WF_deviceVars(OnlyCapture(VideoThread))
    /\ WF_deviceVars(OnlyCapture(MonitorThread))
    /\ WF_deviceVars(OnlyCapture(StopCapture))
    /\ WF_deviceVars(OnlyCleanUp(CleanUpThread))
    /\ WF_deviceVars(OnlyCleanUp(SetRestoreDisplayPower))
    /\ WF_deviceVars(OnlyCleanUp(ServerExits))
    /\ WF_deviceVars(OnlyCleanUp(ChildProcess))

DeviceSpec == DeviceInit /\ [][DeviceNext]_deviceVars /\ Fairness

-------------------------------------------------------------------------------
(* The types of the three parts.                                              *)
DeviceTypeOK == TouchTypeOK /\ CaptureTypeOK /\ CleanUpTypeOK

(* What the applications are told of the touches of the client: the device    *)
(* remembers the pointers that are down and no other (PointersState.java), and *)
(* the events made of them are gestures (Controller.java:554, 562-568).       *)
TouchesAreFaithful == PointersAreTheLastSeen /\ GesturesAreLegal
===============================================================================
