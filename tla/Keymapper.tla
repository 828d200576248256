------------------------------- MODULE Keymapper ------------------------------
(***************************************************************************)
(* The keymapper of the client (app/src/keymapper.c) and the hooks that    *)
(* call it in app/src/input_manager.c: keys and buttons become touches,    *)
(* relative mouse motion becomes swipes of an "aim" finger, and bindings   *)
(* can be edited, saved and reloaded while keys are held.                  *)
(*                                                                         *)
(* Everything here runs on the main thread, one event or task at a time.   *)
(* Tasks posted by the timer thread (KeymapIPC.tla) are actions that may   *)
(* come between any two input events.  A touch goes to                     *)
(* sc_controller_push_msg(), which may refuse it when its queue is full    *)
(* and whose result the hooks ignore; accepted touches reach the device in *)
(* order (ControlChannel.tla), so that the fingers that are down there     *)
(* once it has caught up are those left down by the accepted touches.      *)
(* The mouse is one of the fingers there: its clicks and motions that the  *)
(* hooks let pass are touches of SC_POINTER_ID_MOUSE (mouse_sdk.c), which  *)
(* is also the id of the binding in the first line of the file.            *)
(***************************************************************************)
EXTENDS KeymapConfig

CONSTANTS
    F5, F10, F11, F12, PageUp, PageDown, Delete,  \* SDLK_F5...
    Files,      \* contents that something other than the client may write
    MayRefuse,  \* whether the controller's queue can be full
    MaxHeld     \* bound: keys and buttons held at once

ASSUME KeymapperConstantsOK ==
    /\ \A f \in Files : f \in Seq(Line)
    /\ MayRefuse \in BOOLEAN
    /\ Unknown \notin {F5, F10, F11, F12, PageUp, PageDown, Delete}

VARIABLES
    bindings,     \* state.bindings[0..count-1]
    count,        \* state.count
    editMode,     \* state.edit_mode
    fpsMode,      \* state.fps_mode
    aimFingerDown,\* state.aim_finger_down
    capture,      \* whether the mouse is locked ("on", "off"), or "unknown"
                  \*   as long as state.window is NULL (it is not locked)
    dragging,     \* state.dragging
    selected,     \* state.selected
    buttonsState, \* im->mouse_buttons_state
    file,         \* the lines of keymap.cfg
    heldKeys,     \* the keys the user holds down
    heldButtons,  \* the mouse buttons the user holds down
    down,         \* the pointer ids the accepted touches leave down
    disturbed,    \* history: "touch" if the meaning of held input changed or
                  \*   a touch was refused, "click" if FPS mode or its
                  \*   bindings changed while a button was held, "mouse" if
                  \*   the mouse was used as such
    aimOrphaned   \* history: FPS mode toggled by a command with the aim
                  \*   finger down, a refusal, or a touch while a binding
                  \*   has the id of the aim finger

kmVars    == <<bindings, count, editMode, fpsMode, aimFingerDown, capture,
               dragging, selected>>
inputVars == <<heldKeys, heldButtons>>
vars == <<kmVars, inputVars, buttonsState, file, down, disturbed, aimOrphaned>>

None == -1
Index == 0..(MaxBindings - 1)

(* km_init(): nothing selected, the modes off, no window (sc_screen_init() *)
(* gave it one, but calls km_init() later), and the configuration read.    *)
Init ==
    /\ file \in Files
    /\ bindings = Load(file)
    /\ count = Len(bindings)
    /\ editMode = FALSE
    /\ fpsMode = FALSE
    /\ aimFingerDown = FALSE
    /\ capture = "unknown"
    /\ dragging = None
    /\ selected = None
    /\ buttonsState = {}
    /\ heldKeys = {}
    /\ heldButtons = {}
    /\ down = {}
    /\ disturbed = {}
    /\ aimOrphaned = FALSE

-------------------------------------------------------------------------------
(* Pushing touches                                                         *)

Touch(action, pid) == [action |-> action, pid |-> pid]

(* The fingers that are down after touches of which some were refused: the *)
(* last DOWN or UP of a pointer decides.                                   *)
After(fingers, touches, refused) ==
    LET taken == {n \in 1..Len(touches) :
                     n \notin refused /\ touches[n].action # "MOVE"}
        last  == {n \in taken :
                     \A m \in taken : m > n => touches[m].pid # touches[n].pid}
    IN  {f \in fingers : \A n \in taken : touches[n].pid # f}
        \cup {touches[n].pid : n \in {m \in last : touches[m].action = "DOWN"}}

When(condition, kinds) == IF condition THEN kinds ELSE {}

(* The id of a binding added by hand, or of a line far down in the file,   *)
(* may be the one of the aim finger.                                       *)
AimShared == \E n \in 1..Len(bindings) : bindings[n].pid = AimPid

(* Push several touches in a row; the controller may refuse any of them.   *)
(* `changed` tells for what the event changes the meaning of held input.   *)

Push(touches, changed) ==
    \E refused \in IF MayRefuse THEN SUBSET (1..Len(touches)) ELSE {{}} :
        /\ down' = After(down, touches, refused)
        /\ disturbed' = disturbed \cup changed \cup When(refused # {}, {"touch"})
        /\ aimOrphaned' = (aimOrphaned \/ refused # {} \/ AimShared)

NoTouch(changed) ==
    /\ disturbed' = disturbed \cup changed
    /\ UNCHANGED <<down, aimOrphaned>>

(* A click or a motion of the mouse as such: a shortcut, a pause or another*)
(* mouse than the SDK one takes it, or it is a touch.  On the device the   *)
(* pointer is down as long as some button is (Controller.injectTouch()).   *)
SendMouse(buttons) ==
    \/ NoTouch({})
    \/ Push(<<Touch(IF buttons = {} THEN "UP" ELSE "DOWN", MousePid)>>, {"mouse"})

Holding == heldKeys # {} \/ heldButtons # {}

MayHoldMore == Cardinality(heldKeys) + Cardinality(heldButtons) < MaxHeld

-------------------------------------------------------------------------------
(* Keyboard: sc_input_manager_process_key()                                *)

Keyboard == Key \cup {Unknown}

Press(k) ==
    /\ k \in Keyboard \ heldKeys /\ MayHoldMore
    /\ heldKeys' = heldKeys \cup {k}
    /\ UNCHANGED heldButtons
Repeat(k) == k \in heldKeys /\ UNCHANGED inputVars
Posted == UNCHANGED inputVars      \* no key: a task of the timer thread

(* Keys whose press is taken for the keymapper itself, or the overlay, with*)
(* or without a binding; and those whose repetitions are taken as well.    *)
(* Their releases never are.                                               *)
Opacity   == {PageUp, PageDown}
Shortcuts == {F5, F10, F11, F12} \cup Opacity

Deletes(k) == editMode /\ k = Delete /\ selected # None

(* The overlay is shown, hidden or made more or less opaque: drawing only. *)
Overlay ==
    /\ Press(F11) \/ \E k \in Opacity : Press(k) \/ Repeat(k)
    /\ UNCHANGED <<kmVars, buttonsState, file, down, disturbed, aimOrphaned>>

(* A key without a binding goes on to the shortcuts of the input manager   *)
(* and to the keyboard processor, that do not touch this state.            *)
MapKey(k, action) ==
    IF ~editMode /\ FindKey(bindings, k) # {}
    THEN \E b \in FindKey(bindings, k) : Push(<<Touch(action, b.pid)>>, {})
    ELSE NoTouch({})

KeyDown(k) ==
    /\ k \notin Shortcuts /\ ~Deletes(k)
    /\ Press(k)
    /\ MapKey(k, "DOWN")
    /\ UNCHANGED <<kmVars, buttonsState, file>>

(* The lookup does not test event->repeat: it finds the function keys too. *)
KeyRepeat(k) ==
    /\ k \notin Opacity /\ ~Deletes(k)
    /\ Repeat(k)
    /\ MapKey(k, "DOWN")
    /\ UNCHANGED <<kmVars, buttonsState, file>>

(* Mutation: the shortcuts are taken when they are released as well.       *)
KeyUp_Taken(k) ==
    /\ k \in heldKeys
    /\ heldKeys' = heldKeys \ {k}
    /\ IF k \in Shortcuts THEN NoTouch({}) ELSE MapKey(k, "UP")
    /\ UNCHANGED <<kmVars, heldButtons, buttonsState, file>>

KeyUp(k) ==
    /\ k \in heldKeys
    /\ heldKeys' = heldKeys \ {k}
    /\ MapKey(k, "UP")
    /\ UNCHANGED <<kmVars, heldButtons, buttonsState, file>>

-------------------------------------------------------------------------------
(* Modes and configuration                                                 *)

(* km_toggle_edit(), on F12 or on the command TOGGLE_EDIT.  Leaving the    *)
(* mode saves, unless the file cannot be opened.                           *)
ToggleEdit ==
    /\ editMode' = ~editMode
    /\ IF editMode
       THEN /\ dragging' = None
            /\ selected' = None
            /\ file' \in {file, Save(bindings)}
       ELSE UNCHANGED <<dragging, selected, file>>
    /\ NoTouch(When(Holding, {"touch"}))
    /\ UNCHANGED <<bindings, count, fpsMode, aimFingerDown, capture, buttonsState>>

(* km_toggle_fps(), with or without a window.                              *)
ToggleFps(window) ==
    /\ fpsMode' = ~fpsMode
    /\ aimFingerDown' = FALSE
    /\ capture' = IF capture = "unknown" /\ ~window THEN capture
                  ELSE IF fpsMode' THEN "on" ELSE "off"

FpsChange == When(heldButtons # {}, {"touch", "click"})

(* Mutation: F10 does not lift the aim finger.                             *)
FpsKey_NoUp ==
    /\ ToggleFps(TRUE)
    /\ NoTouch(FpsChange)
    /\ UNCHANGED <<bindings, count, editMode, dragging, selected, buttonsState, file>>

(* F10: lift the aim finger, then km_toggle_fps() with the window.         *)
FpsKey ==
    /\ ToggleFps(TRUE)
    /\ IF fpsMode /\ aimFingerDown
       THEN Push(<<Touch("UP", AimPid)>>, FpsChange)
       ELSE NoTouch(FpsChange)
    /\ UNCHANGED <<bindings, count, editMode, dragging, selected, buttonsState, file>>

(* The command TOGGLE_FPS: km_toggle_fps(state.window) alone.              *)
FpsCommand ==
    /\ ToggleFps(FALSE)
    /\ disturbed' = disturbed \cup FpsChange
    /\ aimOrphaned' = (aimOrphaned \/ aimFingerDown)
    /\ UNCHANGED <<bindings, count, editMode, dragging, selected, inputVars,
                   buttonsState, file, down>>

(* km_reload_config(), on F5 or when the timer saw the file change.        *)
Reload ==
    /\ bindings' = Load(file)
    /\ count' = Len(bindings')
    /\ NoTouch(When(Holding, {"touch"})
               \cup When(fpsMode /\ heldButtons # {}, {"click"}))
    /\ UNCHANGED <<editMode, fpsMode, aimFingerDown, capture, dragging, selected,
                   buttonsState, file>>

(* The control panel, or the user, rewrites keymap.cfg.                    *)
RewriteFile ==
    /\ file' \in Files
    /\ UNCHANGED <<kmVars, inputVars, buttonsState, down, disturbed,
                   aimOrphaned>>

-------------------------------------------------------------------------------
(* Editing                                                                 *)

(* Close the gap at index i, as the loops that shift bindings[i+1..] do:   *)
(* they do nothing for an index past the end, but count is decremented.    *)
RemoveBinding(i) ==
    /\ count' = count - 1
    /\ bindings' = IF i < count THEN RemoveAt(bindings, i + 1)
                   ELSE IF count > 0 THEN Front(bindings)
                   ELSE bindings
    /\ selected' = None

DeleteSelected ==
    /\ Deletes(Delete)
    /\ RemoveBinding(selected)
    /\ UNCHANGED <<editMode, fpsMode, aimFingerDown, capture, dragging, buttonsState,
                   file, down, disturbed, aimOrphaned>>

(* km_handle_edit_mouse().  The binding under the cursor is any of them.   *)
EditLeftDown ==
    \/ \E i \in 0..(count - 1) : dragging' = i /\ selected' = i
    \/ dragging' = dragging /\ selected' = None

EditRightDown ==
    /\ \/ \E i \in 0..(count - 1) : RemoveBinding(i)
       \/ UNCHANGED <<bindings, count, selected>>
    /\ UNCHANGED dragging

(* Mutation: one binding too many.                                         *)
EditMiddleDown_OffByOne ==
    /\ \/ /\ count <= MaxBindings
          /\ \E pos \in Pos :
                bindings' = IF count >= 0
                            THEN Append(bindings, Blank(pos, count))
                            ELSE bindings
          /\ count' = count + 1
          /\ selected' = IF count >= 0 THEN count ELSE None
       \/ UNCHANGED <<bindings, count, selected>>
    /\ UNCHANGED dragging

(* With count = -1 the new binding is written in front of the array.       *)
EditMiddleDown ==
    /\ \/ /\ count < MaxBindings
          /\ \E pos \in Pos :
                bindings' = IF count >= 0
                            THEN Append(bindings, Blank(pos, count))
                            ELSE bindings
          /\ count' = count + 1
          /\ selected' = IF count >= 0 THEN count ELSE None
       \/ UNCHANGED <<bindings, count, selected>>
    /\ UNCHANGED dragging

EditButtonDown(button) ==
    /\ editMode
    /\ button \notin heldButtons /\ MayHoldMore
    /\ heldButtons' = heldButtons \cup {button}
    /\ CASE button = Left    -> EditLeftDown /\ UNCHANGED <<bindings, count>>
         [] button = Right   -> EditRightDown
         [] OTHER            -> EditMiddleDown
    /\ UNCHANGED <<editMode, fpsMode, aimFingerDown, capture, heldKeys, buttonsState,
                   file, down, disturbed, aimOrphaned>>

(* Mutation: edit mode consumes every release, as it does every press.     *)
EditButtonUp_Consumed(button) ==
    /\ editMode
    /\ button \in heldButtons
    /\ heldButtons' = heldButtons \ {button}
    /\ dragging' = IF button = Left THEN None ELSE dragging
    /\ UNCHANGED <<bindings, count, editMode, fpsMode, aimFingerDown, capture, selected,
                   heldKeys, buttonsState, file, down, disturbed, aimOrphaned>>

(* Releasing the left button ends a drag; any other release goes on to the *)
(* mouse processor.                                                        *)
EditButtonUp(button) ==
    /\ editMode
    /\ button \in heldButtons
    /\ heldButtons' = heldButtons \ {button}
    /\ IF button = Left /\ dragging # None
       THEN /\ dragging' = None
            /\ NoTouch({})
            /\ UNCHANGED buttonsState
       ELSE /\ buttonsState' = buttonsState \ {button}
            /\ SendMouse(buttonsState')
            /\ UNCHANGED dragging
    /\ UNCHANGED <<bindings, count, editMode, fpsMode, aimFingerDown, capture, selected,
                   heldKeys, file>>

(* A motion while dragging moves the binding at that index, if there still *)
(* is one: past the end, it writes to an unused entry.                     *)
Drag ==
    /\ editMode
    /\ dragging # None
    /\ \E pos \in Pos :
          bindings' = [n \in 1..Len(bindings) |->
                          IF n = dragging + 1
                          THEN [bindings[n] EXCEPT !.pos = pos]
                          ELSE bindings[n]]
    /\ UNCHANGED <<count, editMode, fpsMode, aimFingerDown, capture, dragging, selected,
                   inputVars, buttonsState, file, down, disturbed, aimOrphaned>>

-------------------------------------------------------------------------------
(* Mouse buttons and motion outside of a drag                              *)

(* A bound button is a touch in FPS mode; otherwise the click goes to the  *)
(* mouse processor with the set of buttons that are down, unless a press   *)
(* is itself a shortcut (Back, Home, ...).                                 *)
Bound(button) == fpsMode /\ FindMouse(bindings, button) # {}

PushBound(button, action) ==
    /\ \E b \in FindMouse(bindings, button) : Push(<<Touch(action, b.pid)>>, {})
    /\ UNCHANGED buttonsState

Click(buttons) == buttonsState' = buttons /\ SendMouse(buttons)

ButtonDown(button) ==
    /\ ~editMode
    /\ button \notin heldButtons /\ MayHoldMore
    /\ heldButtons' = heldButtons \cup {button}
    /\ IF Bound(button) THEN PushBound(button, "DOWN")
       ELSE \/ Click(buttonsState \cup {button})
            \/ NoTouch({}) /\ UNCHANGED buttonsState
    /\ UNCHANGED <<kmVars, heldKeys, file>>

ButtonUp(button) ==
    /\ ~editMode
    /\ button \in heldButtons
    /\ heldButtons' = heldButtons \ {button}
    /\ IF Bound(button) THEN PushBound(button, "UP")
       ELSE Click(buttonsState \ {button})
    /\ UNCHANGED <<kmVars, heldKeys, file>>

(* A motion that neither drags nor aims; with no button down, it hovers.   *)
MouseMotion ==
    /\ ~(editMode /\ dragging # None)
    /\ ~(fpsMode /\ FindAim(bindings) # {})
    /\ SendMouse(buttonsState)
    /\ UNCHANGED <<kmVars, inputVars, buttonsState, file>>

(* FPS aim: put the finger down on the anchor if it is not, move it, and   *)
(* when it leaves the circle around the anchor, lift it and put it back.   *)
AimMotion ==
    /\ ~(editMode /\ dragging # None)
    /\ fpsMode
    /\ FindAim(bindings) # {}
    /\ LET start == IF aimFingerDown THEN <<>> ELSE <<Touch("DOWN", AimPid)>>
           move  == <<Touch("MOVE", AimPid)>>
           back  == <<Touch("UP", AimPid), Touch("DOWN", AimPid)>>
       IN  \E reachedLimit \in BOOLEAN :
              Push(start \o move \o (IF reachedLimit THEN back ELSE <<>>), {})
    /\ aimFingerDown' = TRUE
    /\ UNCHANGED <<bindings, count, editMode, fpsMode, capture, dragging, selected,
                   inputVars, buttonsState, file>>

Next ==
    \/ \E k \in Keyboard : KeyDown(k) \/ KeyRepeat(k) \/ KeyUp(k)
    \/ Overlay
    \/ ToggleEdit /\ (Press(F12) \/ Posted)
    \/ FpsKey /\ Press(F10)
    \/ Reload /\ (Press(F5) \/ Posted)
    \/ FpsCommand \/ RewriteFile
    \/ DeleteSelected /\ (Press(Delete) \/ Repeat(Delete))
    \/ Drag
    \/ \E b \in Button : EditButtonDown(b) \/ EditButtonUp(b)
    \/ \E b \in Button : ButtonDown(b) \/ ButtonUp(b)
    \/ MouseMotion \/ AimMotion

Spec == Init /\ [][Next]_vars

-------------------------------------------------------------------------------
(* Properties                                                              *)

(* The bindings in use are the first `count` ones, unless count was taken  *)
(* below zero by deleting a selection that no longer exists.               *)
TypeOK ==
    /\ bindings \in Seq(Binding)
    /\ Len(bindings) <= MaxBindings
    /\ count \in Int
    /\ count = Len(bindings) \/ (count < 0 /\ bindings = <<>>)
    /\ editMode \in BOOLEAN /\ fpsMode \in BOOLEAN /\ aimFingerDown \in BOOLEAN
    /\ capture \in {"unknown", "off", "on"}
    /\ dragging \in Index \cup {None}
    /\ selected \in Index \cup {None}
    /\ buttonsState \subseteq Button
    /\ file \in Seq(Line)
    /\ heldKeys \subseteq Keyboard
    /\ heldButtons \subseteq Button
    /\ down \subseteq Nat
    /\ disturbed \subseteq {"touch", "click", "mouse"}
    /\ aimOrphaned \in BOOLEAN

(* The fingers of the held buttons and of some keys, in the current mode.  *)
Fingers(keys) ==
    IF editMode THEN {}
    ELSE {b.pid : b \in UNION {FindKey(bindings, k) : k \in keys}}
         \cup IF fpsMode
              THEN {b.pid : b \in UNION {FindMouse(bindings, m) : m \in heldButtons}}
              ELSE {}

(* Two fingers are not the bindings' own: the aim, and the mouse once used.*)
Others == {AimPid} \cup IF "mouse" \in disturbed THEN {MousePid} ELSE {}

(* The ids of the lines of the file do not reach those of the placeholders.*)
IsPlaceholder(b) == b.type = "KEY" /\ b.code = Unknown

IdsAreOwn ==
    \A n \in 1..Len(bindings) :
        IsPlaceholder(bindings[n]) \/ bindings[n].pid < BlankBase

(* No touch gets stuck, through any sequence of loads, edits and mode      *)
(* changes, as long as none of these happens while input is held and no    *)
(* touch is refused: each is that of a held input.  And none is missing,   *)
(* as no two held inputs share a finger, as long as the file is not longer *)
(* than BlankBase; only the keys whose press is taken before the lookup    *)
(* may have none, until they are repeated.                                 *)
NoStuckTouch ==
    "touch" \notin disturbed =>
        /\ down \ Others \subseteq Fingers(heldKeys)
        /\ IdsAreOwn => Fingers(heldKeys \ Shortcuts) \ Others \subseteq down

(* aim_finger_down tells whether the aim finger is down, unless FPS mode   *)
(* was toggled by a command while it was down, a touch was refused, or a   *)
(* binding has the id of the aim finger.                                   *)
AimFlagExact == ~aimOrphaned => (aimFingerDown <=> AimPid \in down)

(* Every button that motion events report as pressed is held by the user,  *)
(* although edit mode, drags and FPS bindings consume presses or releases  *)
(* and edit mode may begin or end between the two, as long as FPS mode and *)
(* its bindings do not change while a button is held.                      *)
ButtonsStateHeld == "click" \notin disturbed => buttonsState \subseteq heldButtons

(* Saving and reloading changes no binding that can be triggered.          *)
RoundTrip == Survives(bindings)

(* README.md: a KEY binding is "Tecla -> Toque na tela": as long as a bound*)
(* key is held, other than a shortcut of the keymapper itself, and nothing *)
(* else disturbs it, its finger stays down.                                *)
HeldKeyTouches ==
    "touch" \notin disturbed /\ ~editMode =>
        \A k \in heldKeys \ Shortcuts : \A b \in FindKey(bindings, k) : b.pid \in down
===============================================================================
