------------------------------- MODULE MCStartup -------------------------------
(* Instance of Startup: a few sets of parameters that take every branch.   *)
EXTENDS Startup

Default ==
    [selector |-> "all", tcpip |-> FALSE, tcpipDst |-> FALSE, plus |-> FALSE,
     list |-> FALSE, forceForward |-> FALSE, valid |-> TRUE, killAdb |-> FALSE,
     video |-> TRUE, audio |-> FALSE, control |-> TRUE, window |-> TRUE,
     record |-> FALSE, v4l2 |-> FALSE, timeLimit |-> FALSE,
     keyboard |-> "sdk", mouse |-> "sdk"]

MCParams ==
    {Default,
     [Default EXCEPT !.tcpip = TRUE, !.selector = "usb", !.audio = TRUE,
                     !.record = TRUE, !.killAdb = TRUE],
     [Default EXCEPT !.tcpip = TRUE, !.tcpipDst = TRUE, !.plus = TRUE,
                     !.forceForward = TRUE, !.keyboard = "uhid", !.v4l2 = TRUE],
     [Default EXCEPT !.selector = "serial", !.list = TRUE, !.killAdb = TRUE],
     [Default EXCEPT !.selector = "tcpip", !.keyboard = "aoa", !.mouse = "aoa",
                     !.timeLimit = TRUE, !.forceForward = TRUE],
     [Default EXCEPT !.valid = FALSE, !.tcpip = TRUE, !.tcpipDst = TRUE]}

MCDevices ==
    {[type |-> "usb", ready |-> TRUE, requested |-> TRUE],
     [type |-> "tcpip", ready |-> TRUE, requested |-> FALSE],
     [type |-> "emulator", ready |-> FALSE, requested |-> FALSE]}
================================================================================
