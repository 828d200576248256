-------------------------------- MODULE CleanUp --------------------------------
(***************************************************************************)
(* What the server changes on the device, and how it is changed back       *)
(* whatever happens to the server (CleanUp.java): a thread of the server   *)
(* changes the settings, then starts another process, that waits for the   *)
(* end of its input, that is for the death of the server, and restores     *)
(* what it was given on its command line; what changes later, the power of *)
(* the display, is written to its input.                                   *)
(*                                                                         *)
(* A setting is one of those that hold a text (show_touches), a number     *)
(* (stay_on_while_plugged_in, screen_off_timeout) or the IME policy of a   *)
(* display.  The server may be killed at any point, the other process not. *)
(*                                                                         *)
(* While the user wants the display off, the controller also turns it off  *)
(* again a moment after a key that wakes the device (Controller.java:654): *)
(* an executor does it, which looks at nothing and tells nobody.  What is  *)
(* mirrored is a display that exists, with one physical panel: a virtual   *)
(* one is never kept off.                                                  *)
(***************************************************************************)
EXTENDS Integers, Sequences, FiniteSets, SequencesExt

CONSTANTS
    CleanUpSetups,   \* [settings, powerOff]: the settings to change, in order, with the
                     \* value of each before ("wanted", "other", "unset"); whether the
                     \* screen must be powered off on close
    MaxPowers        \* the bound: messages that turn the display on or off, keys that
                     \* wake the device, and changes of its screen by itself

ASSUME CleanUpOK ==
    /\ MaxPowers \in Nat
    /\ \A s \in CleanUpSetups :
          /\ s.powerOff \in BOOLEAN
          /\ s.settings \in Seq([kind : {"text", "number", "policy"},
                                 old : {"wanted", "other", "unset"}])

VARIABLES
    asked,       \* the setup
    value,       \* device: the value of each setting now
    power,       \* device: [lit, awake]: the power of the display, and its screen
    server,      \* the server process: "runs" or "dead"
    cleaner,     \* the thread: [pc, next, restore, local]; local is <<>> or <<power>>
    change,      \* pendingRestoreDisplayPower, <<>> when pendingChanges is 0
    interrupted, \* CleanUp.interrupted
    pipe,        \* what was written to the input of the process, and not read
    child,       \* the process: [pc, restore, power, next, failed]; failed: the settings
                 \* that it could not restore
    turned,      \* the control thread: the power it has just set, <<>> or <<on>>
    keepOff,     \* keepDisplayPowerOff
    delayed,     \* the tasks of the executor
    lost,        \* history: what could not be told to the process, or done by it, of the
                 \* "settings" or the "power"; "late": a task has turned the display off
                 \* after it had been turned on, and nothing has changed it since
    powers       \* what remains of the bound

cleanVars == <<asked, value, power, server, cleaner, change, interrupted, pipe, child, turned,
               keepOff, delayed, lost, powers>>

Count == Len(asked.settings)
Old(i) == asked.settings[i].old
Kind(i) == asked.settings[i].kind
Nothing == [i \in 1..Count |-> "none"]

CleanUpInit ==
    /\ asked \in CleanUpSetups
    /\ value = [i \in 1..Count |-> Old(i)]
    /\ power \in {[lit |-> on, awake |-> on] : on \in BOOLEAN}
    /\ server = "runs" /\ interrupted = FALSE
    /\ cleaner = [pc |-> "settings", next |-> 1, restore |-> Nothing, local |-> <<>>]
    /\ change = <<>> /\ pipe = <<>>
    /\ child = [pc |-> "none", restore |-> Nothing, power |-> FALSE, next |-> 1,
                failed |-> {}]
    /\ turned = <<>> /\ keepOff = FALSE /\ delayed = 0 /\ lost = {} /\ powers = MaxPowers

Cleaner(pc) == server = "runs" /\ cleaner.pc = pc

--------------------------------------------------------------------------------
(* The thread of the server: runCleanUp() and run()                        *)

(* What there is to restore: the old value, if it was another; a number or *)
(* a policy, only if it could be read; a text that is not "1" becomes "0". *)
Remembered(i) ==
    IF Old(i) = "wanted" \/ (Kind(i) # "text" /\ Old(i) = "unset") THEN "none" ELSE "other"

ButCleaner == UNCHANGED <<asked, power, server, interrupted, turned, keepOff, delayed, powers>>

(* Settings.getAndPutValue(), or the two calls for the policy: it may fail.*)
ChangeSetting ==
    LET i == cleaner.next IN
    /\ Cleaner("settings") /\ i <= Count
    /\ \/ /\ value' = [value EXCEPT ![i] = "wanted"]
          /\ cleaner' = [cleaner EXCEPT !.next = i + 1, !.restore[i] = Remembered(i)]
       \/ cleaner' = [cleaner EXCEPT !.next = i + 1] /\ UNCHANGED value
    /\ ButCleaner /\ UNCHANGED <<change, pipe, child, lost>>

(* builder.start(): the process is given what to restore, or cannot start. *)
StartChild ==
    /\ Cleaner("settings") /\ cleaner.next > Count
    /\ \/ /\ cleaner' = [cleaner EXCEPT !.pc = "wait"]
          /\ child' = [child EXCEPT !.pc = "reads", !.restore = cleaner.restore]
          /\ UNCHANGED lost
       \/ /\ cleaner' = [cleaner EXCEPT !.pc = "ended"]
          /\ lost' = lost \cup {"settings", "power"}
          /\ UNCHANGED child
    /\ ButCleaner /\ UNCHANGED <<value, change, pipe>>

(* The loop of run(): an interruption comes before what is pending.        *)
AwaitChange ==
    /\ Cleaner("wait") /\ (interrupted \/ change # <<>>)
    /\ IF interrupted
       THEN cleaner' = [cleaner EXCEPT !.pc = "ended"] /\ UNCHANGED change
       ELSE cleaner' = [cleaner EXCEPT !.pc = "write", !.local = change] /\ change' = <<>>
    /\ ButCleaner /\ UNCHANGED <<value, pipe, child, lost>>

(* Mutation: what is written stays in the buffer of the stream.            *)
WriteChange_Buffered ==
    /\ Cleaner("write")
    /\ cleaner' = [cleaner EXCEPT !.pc = "wait", !.local = <<>>]
    /\ ButCleaner /\ UNCHANGED <<value, change, pipe, child, lost>>

WriteChange ==
    /\ Cleaner("write")
    /\ pipe' = pipe \o cleaner.local
    /\ cleaner' = [cleaner EXCEPT !.pc = "wait", !.local = <<>>]
    /\ ButCleaner /\ UNCHANGED <<value, change, child, lost>>

CleanUpThread == ChangeSetting \/ StartChild \/ AwaitChange \/ WriteChange

--------------------------------------------------------------------------------
(* The rest of the server                                                  *)

ButServer == UNCHANGED <<asked, value, cleaner, pipe, child>>

(* Controller.setDisplayPower(): the display (one that is refused changes  *)
(* nothing)...                                                             *)
TurnDisplay(on) ==
    /\ server = "runs" /\ turned = <<>> /\ powers > 0
    /\ powers' = powers - 1
    /\ power' = [power EXCEPT !.lit = on] /\ turned' = <<on>> /\ lost' = lost \ {"late"}
    /\ ButServer /\ UNCHANGED <<server, change, interrupted, keepOff, delayed>>

(* ... then what the controller remembers, and setRestoreDisplayPower().   *)
SetRestoreDisplayPower ==
    /\ server = "runs" /\ turned # <<>>
    /\ keepOff' = ~turned[1]
    /\ change' = <<~turned[1]>> /\ turned' = <<>>
    /\ ButServer /\ UNCHANGED <<power, server, interrupted, delayed, lost, powers>>

(* A key that wakes the device, or BACK when its screen is off: the display *)
(* is to be turned off again, 200 ms later.                                *)
PowerKey ==
    /\ server = "runs" /\ turned = <<>> /\ keepOff /\ powers > 0
    /\ delayed' = delayed + 1 /\ powers' = powers - 1
    /\ ButServer
    /\ UNCHANGED <<power, server, change, interrupted, turned, keepOff, lost>>

(* The last that was asked of the display.                                 *)
WantedOff == IF turned # <<>> THEN turned = <<FALSE>> ELSE keepOff

(* scheduleDisplayPowerOff(): the task, on its own thread.                 *)
ForceOff ==
    /\ server = "runs" /\ delayed > 0 /\ delayed' = delayed - 1
    /\ power' = [power EXCEPT !.lit = FALSE]
    /\ lost' = lost \cup (IF WantedOff THEN {} ELSE {"late"})
    /\ ButServer /\ UNCHANGED <<server, change, interrupted, turned, keepOff, powers>>

(* The device: the key, its user or its timeout changes the screen, and its *)
(* display with it; what comes after the end of the process is not of it.  *)
ScreenChanges(on) ==
    /\ child.pc # "done" /\ powers > 0 /\ powers' = powers - 1
    /\ power' = [lit |-> on, awake |-> on] /\ lost' = lost \ {"late"}
    /\ ButServer /\ UNCHANGED <<server, change, interrupted, turned, keepOff, delayed>>

(* Mutation: the thread itself is interrupted.                             *)
InterruptCleanUp_Thread ==
    /\ server = "runs" /\ ~interrupted /\ interrupted' = TRUE
    /\ cleaner' = [cleaner EXCEPT !.pc = "ended"]
    /\ UNCHANGED <<asked, value, power, server, change, pipe, child, turned, keepOff, delayed,
                   lost, powers>>

(* The main loop ends: CleanUp.interrupt().                                *)
InterruptCleanUp ==
    /\ server = "runs" /\ ~interrupted /\ interrupted' = TRUE
    /\ ButServer
    /\ UNCHANGED <<power, server, change, turned, keepOff, delayed, lost, powers>>

(* The server dies, with what the thread has not written yet.              *)
Dies(untold) ==
    /\ server = "runs" /\ server' = "dead"
    /\ lost' = lost \cup untold
                    \cup (IF turned \o change \o cleaner.local # <<>> THEN {"power"} ELSE {})
    /\ ButServer
    /\ UNCHANGED <<power, change, interrupted, turned, keepOff, delayed, powers>>

(* By itself, when the threads have been joined (main(), System.exit())... *)
ServerExits == interrupted /\ cleaner.pc = "ended" /\ turned = <<>> /\ Dies({})
(* ... or it is killed, at any point.                                      *)
ServerIsKilled == Dies(IF child.pc = "none" THEN {"settings", "power"} ELSE {})

--------------------------------------------------------------------------------
(* The process: main()                                                     *)

ButChild == UNCHANGED <<asked, server, cleaner, change, interrupted, turned, keepOff, delayed,
                        powers>>

(* Its input: the last byte is what counts, until the end.                 *)
ChildReads ==
    /\ child.pc = "reads" /\ pipe # <<>>
    /\ pipe' = Tail(pipe) /\ child' = [child EXCEPT !.power = Head(pipe)]
    /\ ButChild /\ UNCHANGED <<value, power, lost>>

ChildSeesEnd ==
    /\ child.pc = "reads" /\ pipe = <<>> /\ server = "dead"
    /\ child' = [child EXCEPT !.pc = "restores"]
    /\ ButChild /\ UNCHANGED <<value, power, pipe, lost>>

(* Each setting on its own: one that cannot be restored is only logged.    *)
ChildRestores ==
    LET i == child.next
        old == child.restore[i] IN
    /\ child.pc = "restores" /\ i <= Count
    /\ \/ /\ value' = IF old = "none" THEN value ELSE [value EXCEPT ![i] = old]
          /\ child' = [child EXCEPT !.next = i + 1]
       \/ /\ old # "none"
          /\ child' = [child EXCEPT !.next = i + 1, !.failed = @ \cup {i}]
          /\ UNCHANGED value
    /\ ButChild /\ UNCHANGED <<power, pipe, lost>>

(* The screen, if it is on: off on close, or its display as it was.  No    *)
(* result is looked at.                                                    *)
ChildEnds ==
    /\ child.pc = "restores" /\ child.next > Count
    /\ child' = [child EXCEPT !.pc = "done"]
    /\ \/ /\ power' = IF ~power.awake THEN power
                      ELSE IF asked.powerOff THEN [lit |-> FALSE, awake |-> FALSE]
                      ELSE [power EXCEPT !.lit = @ \/ child.power]
          /\ UNCHANGED lost
       \/ /\ power.awake /\ (asked.powerOff \/ child.power)
          /\ lost' = lost \cup {"power"} /\ UNCHANGED power
    /\ ButChild /\ UNCHANGED <<value, pipe>>

ChildProcess == ChildReads \/ ChildSeesEnd \/ ChildRestores \/ ChildEnds

CleanUpNext ==
    \/ CleanUpThread \/ ChildProcess
    \/ \E on \in BOOLEAN : TurnDisplay(on) \/ ScreenChanges(on)
    \/ SetRestoreDisplayPower \/ PowerKey \/ ForceOff \/ InterruptCleanUp \/ ServerExits \/ ServerIsKilled

--------------------------------------------------------------------------------
CleanUpTypeOK ==
    /\ value \in [1..Count -> {"wanted", "other", "unset"}]
    /\ cleaner.pc \in {"settings", "wait", "write", "ended"}
    /\ child.pc \in {"none", "reads", "restores", "done"} /\ child.failed \subseteq 1..Count
    /\ Len(change) <= 1 /\ Len(turned) <= 1 /\ Len(pipe) <= MaxPowers
    /\ delayed \in 0..MaxPowers

(* A setting is as before (for a text, off), if the old value was readable.*)
Restored(i) == \/ value[i] = Old(i)
               \/ Old(i) = "unset" /\ (Kind(i) = "text" => value[i] = "other")

(* The clean up is done "even if the main process is killed" (CleanUp.java:*)
(* 19): when the server has died, each setting is as before if the device  *)
(* lets it be restored, the screen off if it was asked for, and the        *)
(* display of a screen that is on lit -- but for what the process could    *)
(* not do or be told of: it was not started, the display was turned on or  *)
(* off just before the end, or a delayed task has turned it off after it   *)
(* was turned on.  And a server that ends is cleaned up.                   *)
SettingsAreRestored ==
    /\ (server = "dead") ~>
          \/ "settings" \in lost
          \/ /\ child.pc = "done"
             /\ \A i \in 1..Count : i \in child.failed \/ Restored(i)
             /\ asked.powerOff => ~power.awake \/ "power" \in lost
             /\ power.awake => power.lit \/ lost \cap {"power", "late"} # {}
    /\ interrupted ~> (server = "dead")

(* scrcpy.1:399: by default, scrcpy "restores the device state (show       *)
(* touches, stay awake and power mode) on exit": a process that was told   *)
(* of everything, and refused nothing, leaves no display dark under a      *)
(* screen that is on.                                                      *)
PowerModeIsRestored ==
    child.pc = "done" /\ lost \cap {"settings", "power"} = {} => (power.awake => power.lit)
================================================================================
