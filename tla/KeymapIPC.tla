------------------------------- MODULE KeymapIPC ------------------------------
(***************************************************************************)
(* How the control panel (scrcpy_gui.py) and the client share keymap.cfg   *)
(* and keymap.cmd.  Three threads run here: the panel writes both files; a *)
(* timer thread of the client (km_ipc_timer_cb) polls them every 100 ms    *)
(* and posts tasks; the main thread of the client runs the tasks in order, *)
(* and saves keymap.cfg when edit mode ends.                               *)
(*                                                                         *)
(* A configuration is reduced to two version numbers: of the positions,    *)
(* that are edited in the client, and of the keys, edited in the panel.    *)
(* Opening a file for writing truncates it; what is written becomes        *)
(* visible when it is closed (both sides buffer less than a block), or     *)
(* flushed (keymap.cmd).  When both sides write at once, the last one to   *)
(* close wins.  The effect of the commands other than TOGGLE_EDIT is in    *)
(* Keymapper.tla.                                                          *)
(***************************************************************************)
EXTENDS Integers, Sequences

CONSTANTS
    MaxClock,        \* bound: seconds, the resolution of st_mtime
    MaxEdits,        \* bound: edits of each side
    MaxCommands,     \* bound: commands sent by the panel
    MaxPresses,      \* bound: presses of F12
    MaxTasks         \* bound: tasks posted and not yet run

ASSUME IPCConstantsOK ==
    /\ MaxClock \in Nat \ {0} /\ MaxEdits \in Nat /\ MaxCommands \in Nat
    /\ MaxPresses \in Nat /\ MaxTasks \in Nat

VARIABLES
    removesOpenFile, \* whether remove() works on a file the panel has open:
                     \*   TRUE on POSIX, FALSE on Windows
    clock,        \* the current second
    cfg,          \* content of keymap.cfg; Empty while it is truncated
    mtime,        \* its modification time
    cmd,          \* content of keymap.cmd: NoFile, Blank or a command
    \* the control panel
    gui,          \* "idle", "edited" or "writing" keymap.cfg
    mappings,     \* self.mappings
    sender,       \* "idle", "opened" or "flushed": in send_cmd()
    sending,      \* the command in send_cmd()
    \* the timer thread
    timer,        \* "cfg", "cmd" or "remove": where the callback is
    lastCfgTime,  \* its static last_cfg_time
    tasks,        \* tasks posted to the main thread, in order
    \* the main thread
    main,         \* "idle" or "saving"
    loaded,       \* state.bindings
    editMode,     \* state.edit_mode
    \* histories
    onDisk,       \* the content last loaded or saved by the client
    lastRun,      \* the last command run
    presses,      \* how often F12 was pressed
    issued,       \* how many commands were sent
    posEdits,     \* how many edits the client made
    keyEdits,     \* how many edits the panel made
    undetectable  \* the last write left a time the timer cannot tell from
                  \*   the one it has already seen

guiVars   == <<gui, mappings, keyEdits>>
sendVars  == <<sender, sending, issued>>
timerVars == <<timer, lastCfgTime>>
mainVars  == <<main, loaded, editMode, onDisk, lastRun, presses, posEdits>>
fileVars  == <<cfg, mtime, undetectable>>
ipcVars == <<removesOpenFile, clock, fileVars, cmd, guiVars, sendVars, timerVars, tasks, mainVars>>

Empty  == [pos |-> 0, key |-> 0]
NoFile == 0
Blank  == -1
Reload == 0   \* a task: reload; the others are command numbers

(* Command n is TOGGLE_EDIT when n is odd, another command when even.      *)
IsToggleEdit(n) == n % 2 = 1

IpcInit ==
    /\ removesOpenFile \in BOOLEAN
    /\ clock = 1
    /\ cfg = [pos |-> 1, key |-> 1]
    /\ mtime = 1
    /\ undetectable = FALSE
    /\ cmd = NoFile
    /\ gui = "idle"
    /\ mappings = cfg
    /\ keyEdits = 0
    /\ sender = "idle"
    /\ sending = NoFile
    /\ issued = 0
    /\ timer = "cfg"
    /\ lastCfgTime = 0
    /\ tasks = <<>>
    /\ main = "idle"
    /\ loaded = cfg
    /\ editMode = FALSE
    /\ onDisk = cfg
    /\ lastRun = NoFile
    /\ presses = 0
    /\ posEdits = 0

Tick ==
    /\ clock < MaxClock
    /\ clock' = clock + 1
    /\ UNCHANGED <<removesOpenFile, fileVars, cmd, guiVars, sendVars,
                   timerVars, tasks, mainVars>>

(* Truncating or closing a file gives it the current time.                 *)
WriteFile(content) ==
    /\ cfg' = content
    /\ mtime' = clock
    /\ undetectable' = (lastCfgTime = 0 \/ clock <= lastCfgTime)

-------------------------------------------------------------------------------
(* The control panel.  Its handlers run on one thread, but the client      *)
(* works on the files between any two of its system calls.                 *)

(* update_list(), and the first line of add_mapping(), remove_item() and   *)
(* of the sensitivity, radius and macro editors: _read_file().             *)
ReadMappings ==
    /\ gui = "idle"
    /\ mappings' = cfg
    /\ UNCHANGED <<removesOpenFile, clock, fileVars, cmd, gui, keyEdits,
                   sendVars, timerVars, tasks, mainVars>>

(* An edit of self.mappings.  Nothing obliges it to follow ReadMappings at *)
(* once: _on_key_press() and _set_mouse_btn() edit the list as it is.      *)
EditMappings ==
    /\ gui = "idle"
    /\ keyEdits < MaxEdits
    /\ keyEdits' = keyEdits + 1
    /\ mappings' = [mappings EXCEPT !.key = keyEdits' + 1]
    /\ gui' = "edited"
    /\ UNCHANGED <<removesOpenFile, clock, fileVars, cmd, sendVars, timerVars,
                   tasks, mainVars>>

(* save_and_reload(): open for writing, then close.                        *)
OpenMappings ==
    /\ gui = "edited"
    /\ WriteFile(Empty)
    /\ gui' = "writing"
    /\ UNCHANGED <<removesOpenFile, clock, cmd, mappings, keyEdits, sendVars,
                   timerVars, tasks, mainVars>>

CloseMappings ==
    /\ gui = "writing"
    /\ WriteFile(mappings)
    /\ gui' = "idle"
    /\ UNCHANGED <<removesOpenFile, clock, cmd, mappings, keyEdits, sendVars,
                   timerVars, tasks, mainVars>>

(* send_cmd(): open, write and flush, close.                               *)
OpenCommand ==
    /\ sender = "idle"
    /\ issued < MaxCommands
    /\ issued' = issued + 1
    /\ sending' = issued'
    /\ cmd' = Blank
    /\ sender' = "opened"
    /\ UNCHANGED <<removesOpenFile, clock, fileVars, guiVars, timerVars, tasks,
                   mainVars>>

(* If the file was removed since it was opened, nobody sees what is        *)
(* written to it.                                                          *)
FlushCommand ==
    /\ sender = "opened"
    /\ cmd' = IF cmd = NoFile THEN NoFile ELSE sending
    /\ sender' = "flushed"
    /\ UNCHANGED <<removesOpenFile, clock, fileVars, guiVars, sending, issued,
                   timerVars, tasks, mainVars>>

CloseCommand ==
    /\ sender = "flushed"
    /\ sender' = "idle"
    /\ sending' = NoFile
    /\ UNCHANGED <<removesOpenFile, clock, fileVars, cmd, guiVars, issued,
                   timerVars, tasks, mainVars>>

-------------------------------------------------------------------------------
(* The timer thread: km_ipc_timer_cb()                                     *)

(* Mutation: the next second is recorded.                                  *)
PollConfig_NextSecond ==
    /\ timer = "cfg"
    /\ Len(tasks) < MaxTasks
    /\ timer' = "cmd"
    /\ lastCfgTime' = IF mtime > lastCfgTime THEN mtime + 1 ELSE lastCfgTime
    /\ tasks' = IF lastCfgTime # 0 /\ mtime > lastCfgTime
                THEN Append(tasks, Reload) ELSE tasks
    /\ UNCHANGED <<removesOpenFile, clock, fileVars, cmd, guiVars, sendVars,
                   mainVars>>

(* Mutation: the reload is not posted.                                     *)
PollConfig_NoReload ==
    /\ timer = "cfg"
    /\ Len(tasks) < MaxTasks
    /\ timer' = "cmd"
    /\ lastCfgTime' = IF mtime > lastCfgTime THEN mtime ELSE lastCfgTime
    /\ UNCHANGED <<removesOpenFile, clock, fileVars, cmd, guiVars, sendVars,
                   tasks, mainVars>>

(* The first call only records the time of the file.                       *)
PollConfig ==
    /\ timer = "cfg"
    /\ Len(tasks) < MaxTasks
    /\ timer' = "cmd"
    /\ lastCfgTime' = IF mtime > lastCfgTime THEN mtime ELSE lastCfgTime
    /\ tasks' = IF lastCfgTime # 0 /\ mtime > lastCfgTime
                THEN Append(tasks, Reload) ELSE tasks
    /\ UNCHANGED <<removesOpenFile, clock, fileVars, cmd, guiVars, sendVars,
                   mainVars>>

(* Mutation: the command is put before the tasks that are waiting.         *)
PollCommand_First ==
    /\ timer = "cmd"
    /\ Len(tasks) < MaxTasks
    /\ timer' = IF cmd = NoFile THEN "cfg" ELSE "remove"
    /\ tasks' = IF cmd \in 1..MaxCommands THEN <<cmd>> \o tasks ELSE tasks
    /\ UNCHANGED <<removesOpenFile, clock, fileVars, cmd, guiVars, sendVars,
                   lastCfgTime, mainVars>>

(* Read the first line, if there is one, and post its task.                *)
PollCommand ==
    /\ timer = "cmd"
    /\ Len(tasks) < MaxTasks
    /\ timer' = IF cmd = NoFile THEN "cfg" ELSE "remove"
    /\ tasks' = IF cmd \in 1..MaxCommands THEN Append(tasks, cmd) ELSE tasks
    /\ UNCHANGED <<removesOpenFile, clock, fileVars, cmd, guiVars, sendVars,
                   lastCfgTime, mainVars>>

(* remove(), of whatever the file is by now.                               *)
RemoveCommand ==
    /\ timer = "remove"
    /\ timer' = "cfg"
    /\ cmd' = IF sender # "idle" /\ ~removesOpenFile THEN cmd ELSE NoFile
    /\ UNCHANGED <<removesOpenFile, clock, fileVars, guiVars, sendVars,
                   lastCfgTime, tasks, mainVars>>

-------------------------------------------------------------------------------
(* The main thread of the client                                           *)

(* Mutation: what is being edited is not overwritten by a reload.          *)
LoadConfig_KeepsEdits ==
    IF editMode THEN UNCHANGED <<loaded, onDisk>>
                ELSE loaded' = cfg /\ onDisk' = cfg

(* km_load_config(): a truncated file has no bindings.                     *)
LoadConfig ==
    /\ loaded' = cfg
    /\ onDisk' = cfg

(* km_toggle_edit(): leaving the mode starts to save.                      *)
ToggleEdit ==
    /\ editMode' = ~editMode
    /\ IF editMode
       THEN main' = "saving" /\ WriteFile(Empty)
       ELSE UNCHANGED <<main, fileVars>>

RunTask ==
    /\ main = "idle"
    /\ tasks # <<>>
    /\ tasks' = Tail(tasks)
    /\ IF Head(tasks) = Reload
       THEN /\ LoadConfig
            /\ UNCHANGED <<main, editMode, lastRun, fileVars>>
       ELSE /\ lastRun' = Head(tasks)
            /\ IF IsToggleEdit(Head(tasks))
               THEN ToggleEdit
               ELSE UNCHANGED <<main, editMode, fileVars>>
            /\ UNCHANGED <<loaded, onDisk>>
    /\ UNCHANGED <<removesOpenFile, clock, cmd, guiVars, sendVars, timerVars,
                   presses, posEdits>>

(* F12 and F5.                                                             *)
PressF12 ==
    /\ main = "idle"
    /\ presses < MaxPresses
    /\ presses' = presses + 1
    /\ ToggleEdit
    /\ UNCHANGED <<removesOpenFile, clock, cmd, guiVars, sendVars, timerVars,
                   tasks, loaded, onDisk, lastRun, posEdits>>

PressF5 ==
    /\ main = "idle"
    /\ LoadConfig
    /\ UNCHANGED <<removesOpenFile, clock, fileVars, cmd, guiVars, sendVars,
                   timerVars, tasks, main, editMode, lastRun, presses,
                   posEdits>>

(* km_save_config(), second half.                                          *)
CloseSave ==
    /\ main = "saving"
    /\ WriteFile(loaded)
    /\ onDisk' = loaded
    /\ main' = "idle"
    /\ UNCHANGED <<removesOpenFile, clock, cmd, guiVars, sendVars, timerVars,
                   tasks, loaded, editMode, lastRun, presses, posEdits>>

(* Dragging a binding in edit mode.                                        *)
Drag ==
    /\ main = "idle"
    /\ editMode
    /\ loaded # Empty
    /\ posEdits < MaxEdits
    /\ posEdits' = posEdits + 1
    /\ loaded' = [loaded EXCEPT !.pos = posEdits' + 1]
    /\ UNCHANGED <<removesOpenFile, clock, fileVars, cmd, guiVars, sendVars,
                   timerVars, tasks, main, editMode, onDisk, lastRun, presses>>

IpcNext ==
    \/ Tick
    \/ ReadMappings \/ EditMappings \/ OpenMappings \/ CloseMappings
    \/ OpenCommand \/ FlushCommand \/ CloseCommand
    \/ PollConfig \/ PollCommand \/ RemoveCommand
    \/ RunTask \/ PressF12 \/ PressF5 \/ CloseSave \/ Drag

IpcSpec == IpcInit /\ [][IpcNext]_ipcVars

(* The timer keeps firing, the main thread runs its tasks, and writers     *)
(* finish what they began.                                                 *)
IpcFairness ==
    /\ WF_ipcVars(PollConfig \/ PollCommand \/ RemoveCommand)
    /\ WF_ipcVars(RunTask \/ CloseSave)
    /\ WF_ipcVars(OpenMappings \/ CloseMappings)
    /\ WF_ipcVars(FlushCommand \/ CloseCommand)

IpcFairSpec == IpcSpec /\ IpcFairness

-------------------------------------------------------------------------------
(* Properties                                                              *)

Content == [pos : Nat, key : Nat]

(* Every variable keeps its type.                                          *)
IpcTypeOK ==
    /\ removesOpenFile \in BOOLEAN
    /\ clock \in 1..MaxClock /\ mtime \in 1..clock /\ lastCfgTime \in 0..clock
    /\ cfg \in Content /\ mappings \in Content
    /\ loaded \in Content /\ onDisk \in Content
    /\ cmd \in {NoFile, Blank} \cup 1..MaxCommands
    /\ sending \in 0..MaxCommands /\ issued \in 0..MaxCommands
    /\ gui \in {"idle", "edited", "writing"}
    /\ sender \in {"idle", "opened", "flushed"}
    /\ timer \in {"cfg", "cmd", "remove"}
    /\ main \in {"idle", "saving"}
    /\ editMode \in BOOLEAN /\ undetectable \in BOOLEAN
    /\ tasks \in Seq(0..MaxCommands)
    /\ lastRun \in 0..MaxCommands /\ presses \in 0..MaxPresses
    /\ posEdits \in 0..MaxEdits /\ keyEdits \in 0..MaxEdits

(* Commands run in the order in which they were sent, whatever the timer   *)
(* and the panel do to the file at the same time: one may be lost, and on  *)
(* Windows one may run twice, but none runs after a later one.             *)
CommandsInOrder ==
    LET Precedes(m, n) == IF removesOpenFile THEN m < n ELSE m <= n
        commands == {i \in DOMAIN tasks : tasks[i] # Reload}
    IN /\ \A i \in commands : Precedes(lastRun, tasks[i])
       /\ \A i, j \in commands : i < j => Precedes(tasks[i], tasks[j])

(* Nothing is being written, seen or loaded.                               *)
Quiescent ==
    /\ gui # "writing" /\ main = "idle"
    /\ mtime <= lastCfgTime
    /\ tasks = <<>>

(* Once everything has settled, what the client last loaded or saved is    *)
(* what the file contains, even if it read a file that was being written,  *)
(* unless the last write came too soon after the timer looked.             *)
FreshWhenDetectable == Quiescent /\ ~undetectable => onDisk = cfg

(* The client follows the panel: its commands in their order, and the      *)
(* mappings that it wrote (keymapper.c, scrcpy_gui.py).                    *)
PanelIsFollowed == CommandsInOrder /\ FreshWhenDetectable

(* When the users of both programs stop, the client ends up with what the *)
(* file contains, unless the last write came too soon after the timer      *)
(* looked.                                                                 *)
Settles == <>[](~undetectable => onDisk = cfg)
===============================================================================
