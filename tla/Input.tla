--------------------------------- MODULE Input ---------------------------------
(***************************************************************************)
(* What the user types, clicks and touches in the window of the client,    *)
(* and the messages it becomes: the capture of the mouse (mouse_capture.c) *)
(* and the input manager (input_manager.c), both on the main thread, and   *)
(* the keyboard and mouse of the SDK mode (keyboard_sdk.c, mouse_sdk.c).   *)
(*                                                                         *)
(* The keymapper is idle here (module Keymapper has its hooks), and what   *)
(* the shortcuts do to the screen is in module Screen.  A message is its   *)
(* type and what the properties tell apart; coordinates are left out.  The *)
(* queue of the controller may refuse any message (module Controller).     *)
(***************************************************************************)
EXTENDS Integers, Sequences, FiniteSets

CONSTANTS
    Configs,     \* the options: records [control, camera, hover, repeats, legacyPaste,
                 \*   autosync : BOOLEAN, keyboard : {"none", "sdk", "uhid", "aoa"},
                 \*   mouse : {"none", "sdk", "relative"}, gamepad : BOOLEAN,
                 \*   mode : {"mixed", "text", "raw"}, click : binding -> what it does,
                 \*   keys, mods : the keys and
                 \*   the sets of modifiers that are used]
    MaxSequence  \* bound: clipboards sent with a sequence number

ASSUME InputOK ==
    /\ MaxSequence \in Nat
    /\ \A c \in Configs :
          /\ {c.control, c.camera, c.hover, c.repeats, c.legacyPaste, c.autosync,
              c.gamepad} \subseteq BOOLEAN
          /\ c.keyboard \in {"none", "sdk", "uhid", "aoa"}
          /\ c.mouse \in {"none", "sdk", "relative"} /\ c.mode \in {"mixed", "text", "raw"}
          /\ c.click \in [BOOLEAN -> {"click", "disabled", "BACK_OR_SCREEN_ON", "HOME",
                                     "APP_SWITCH", "panel"}]

VARIABLES
    config,      \* the one of this session
    im,          \* struct sc_input_manager, and whether the screen is paused
    repeat,      \* keyboard_sdk: the repetitions of the last key
    capture,     \* mouse_capture: [active, pressed]
    out,         \* what the last event became: the messages that were accepted
    finger,      \* the device: whether it has the virtual finger down
    physical     \* the mouse of the user: the buttons that are down

inputVars == <<config, im, repeat, capture, out, finger, physical>>

Mods == {"mod", "ctrl", "shift", "num"}      \* "mod": the shortcut modifier
Buttons == {"left", "right"}
Msg(type, arg) == [type |-> type, arg |-> arg]

InputInit ==
    /\ config \in Configs
    /\ im = [vfinger |-> FALSE, buttons |-> {}, last |-> <<>>, again |-> 0, sequence |-> 1,
             disconnected |-> FALSE, paused |-> FALSE]
    /\ repeat = 0
    /\ capture = [active |-> FALSE, pressed |-> "none"]
    /\ out = <<>>
    /\ finger = FALSE
    /\ physical = {}

(* sc_controller_push_msg(): each message is accepted or refused.          *)
Accepted(msgs) ==
    LET after[n \in 0..Len(msgs)] ==
            IF n = 0 THEN {<<>>}
            ELSE after[n - 1] \cup {Append(sent, msgs[n]) : sent \in after[n - 1]}
    IN after[Len(msgs)]
Sends(msgs) == out' \in Accepted(msgs)

--------------------------------------------------------------------------------
(* The shortcuts.  A row: the keys, whether shift may or must be down,     *)
(* whether the release is sent too, whether repetitions are, whether a     *)
(* keyboard is needed, and the message.                                    *)

Row(keys, shift, up, repeats, keyboard, msg) ==
    [keys |-> keys, shift |-> shift, up |-> up, repeats |-> repeats,
     keyboard |-> keyboard, msg |-> msg]

(* action_home() and the like: the press and the release of a key.         *)
KeycodeShortcuts ==
    {Row({"H"}, {FALSE}, TRUE, FALSE, TRUE, "HOME"),
     Row({"B", "BACKSPACE"}, {FALSE}, TRUE, FALSE, TRUE, "BACK"),
     Row({"S"}, {FALSE}, TRUE, FALSE, TRUE, "APP_SWITCH"),
     Row({"M"}, {FALSE}, TRUE, FALSE, TRUE, "MENU"),
     Row({"P"}, {FALSE}, TRUE, FALSE, TRUE, "POWER"),
     Row({"DOWN"}, {FALSE}, TRUE, TRUE, TRUE, "VOLUME_DOWN"),
     Row({"UP"}, {FALSE}, TRUE, TRUE, TRUE, "VOLUME_UP")}

PanelShortcuts(again) ==
    {Row({"N"}, {TRUE}, FALSE, FALSE, FALSE, "COLLAPSE_PANELS"),
     Row({"N"}, {FALSE}, FALSE, FALSE, FALSE,
         IF again = 0 THEN "EXPAND_NOTIFICATION_PANEL" ELSE "EXPAND_SETTINGS_PANEL")}

(* An empty clipboard of the computer is not pasted as text.               *)
ClipboardShortcuts ==
    {Row({"C"}, {FALSE}, FALSE, FALSE, TRUE, "GET_CLIPBOARD_COPY"),
     Row({"X"}, {FALSE}, FALSE, FALSE, TRUE, "GET_CLIPBOARD_CUT"),
     Row({"V"}, {TRUE}, FALSE, FALSE, TRUE, "INJECT_TEXT"),
     Row({"V"}, {FALSE}, FALSE, FALSE, TRUE,
         IF config.legacyPaste THEN "INJECT_TEXT" ELSE "SET_CLIPBOARD_PASTE")}

DeviceShortcuts ==
    {Row({"O"}, BOOLEAN, FALSE, FALSE, FALSE, "SET_DISPLAY_POWER"),
     Row({"R"}, {FALSE}, FALSE, FALSE, FALSE, "ROTATE_DEVICE")}
    \cup (IF config.keyboard \in {"aoa", "uhid"}
          THEN {Row({"K"}, {FALSE}, FALSE, FALSE, TRUE, "OPEN_HARD_KEYBOARD_SETTINGS")}
          ELSE {})

CameraShortcuts ==
    {Row({"T"}, BOOLEAN, FALSE, FALSE, FALSE, "CAMERA_SET_TORCH"),
     Row({"DOWN"}, {FALSE}, FALSE, TRUE, FALSE, "CAMERA_ZOOM_OUT"),
     Row({"UP"}, {FALSE}, FALSE, TRUE, FALSE, "CAMERA_ZOOM_IN")}

Shortcuts(again) ==
    {Row({"R"}, {TRUE}, FALSE, FALSE, FALSE, "RESET_VIDEO")}
    \cup IF config.camera THEN CameraShortcuts
         ELSE KeycodeShortcuts \cup PanelShortcuts(again) \cup ClipboardShortcuts \cup DeviceShortcuts

(* The shortcuts of the client itself, that are handled first, also when   *)
(* the device is disconnected.                                             *)
IsLocal(e) == \/ e.key \in {"Z", "LEFT", "RIGHT", "F", "W", "G", "I", "Q"}
              \/ e.key \in {"UP", "DOWN"} /\ "shift" \in e.mods

IsShortcut(e) == "mod" \in e.mods \/ e.key = "MOD"

(* How a press is counted: the same keys again, or others.                 *)
KeyCounted(e) ==
    LET pressed == <<e.key, e.mods>> IN
    IF ~e.down \/ e.repeat \/ im.disconnected THEN im
    ELSE IF im.last = pressed THEN [im EXCEPT !.again = 1]      \* 1: once or more
    ELSE [im EXCEPT !.again = 0, !.last = pressed]

(* The messages of a shortcut: one or none.                                *)
ShortcutMessages(e) ==
    LET fits(row) == /\ e.key \in row.keys /\ ("shift" \in e.mods) \in row.shift
                     /\ e.down \/ row.up
                     /\ ~e.repeat \/ row.repeats
                     /\ row.keyboard => config.keyboard # "none"
                     /\ ~im.paused \/ row.msg = "CAMERA_SET_TORCH"
    IN IF ~config.control \/ im.disconnected \/ IsLocal(e) THEN {}
       ELSE {Msg(row.msg, e.down) : row \in {r \in Shortcuts(KeyCounted(e).again) : fits(r)}}

--------------------------------------------------------------------------------
(* The keyboard of the SDK mode                                            *)

Class(key) == CASE key \in {"UP", "DOWN", "BACKSPACE"} -> "special"
                [] key \in {"KP_1"} -> "keypad"
                [] key \in {"1"} -> "number"
                [] key \in {"SPACE"} -> "space"
                [] key \in {"N", "V", "H", "Z", "R", "O", "T", "K"} -> "letter"
                [] OTHER -> "unknown"

(* convert_keycode(): whether a key of this class is injected as a key.    *)
ConvertKeycode(class, mods, mode) ==
    \/ class = "special"
    \/ class = "keypad" /\ mods \cap {"num", "shift"} = {}
    \/ /\ mode = "text" => "ctrl" \in mods
       /\ class \in {"letter", "space"} \/ (mode = "raw" /\ class \in {"number", "keypad"})

(* Mutation: the space is injected as a text in mixed mode.                *)
InjectsText_Space(class, mode) ==
    mode # "raw" /\ ~(mode = "mixed" /\ class = "letter")

(* sc_key_processor_process_text(): whether a text that begins with a      *)
(* character of this class is injected as a text.                          *)
InjectsText(class, mode) ==
    mode # "raw" /\ ~(mode = "mixed" /\ class \in {"letter", "space"})

(* sc_key_processor_process_key(); 1 stands for one repetition or more.    *)
SdkKey(e, before) ==
    LET ignored == e.repeat /\ ~config.repeats
        n == IF e.repeat THEN 1 ELSE 0
    IN /\ repeat' = IF ignored THEN repeat ELSE n
       /\ IF ~ignored /\ ConvertKeycode(Class(e.key), e.mods, config.mode)
          THEN Sends(before \o <<Msg("INJECT_KEYCODE", [key |-> e.key, down |-> e.down,
                                                       repeat |-> n])>>)
          ELSE out' = before

(* sc_input_manager_process_text_input().                                  *)
TextInput(class, mods) ==
    /\ IF \/ config.camera \/ config.keyboard # "sdk" \/ im.paused \/ im.disconnected
          \/ "mod" \in mods
          \/ ~InjectsText(class, config.mode)
       THEN out' = <<>>
       ELSE Sends(<<Msg("INJECT_TEXT", class)>>)
    /\ UNCHANGED <<config, im, repeat, capture, finger, physical>>

--------------------------------------------------------------------------------
(* sc_input_manager_process_key()                                          *)

IsCtrlV(e) == e.key = "V" /\ "ctrl" \in e.mods /\ "shift" \notin e.mods /\ e.down /\ ~e.repeat

(* Mutation: the key is given to the keyboard although the request failed. *)
ClipboardRefused_PastesAnyway(e) ==
    /\ im' = KeyCounted(e) /\ UNCHANGED repeat
    /\ out' = IF config.keyboard = "aoa" THEN <<Msg("HID_KEY", im.sequence)>> ELSE <<>>

ClipboardRefused(e) == im' = KeyCounted(e) /\ out' = <<>> /\ UNCHANGED repeat

(* A key that is not a shortcut.  Before Ctrl+v, the clipboard of the      *)
(* device is set; with the AOA keyboard, that is not serialized with the   *)
(* messages, the key waits for the acknowledgement of that request.        *)
KeyToDevice(e) ==
    \/ /\ ~(config.autosync /\ IsCtrlV(e))
       /\ im' = KeyCounted(e)
       /\ IF config.keyboard = "sdk" THEN SdkKey(e, <<>>)
          ELSE out' = <<Msg("HID_KEY", 0)>> /\ UNCHANGED repeat
    \/ /\ config.autosync /\ IsCtrlV(e) /\ config.legacyPaste
       /\ im' = KeyCounted(e)
       /\ Sends(<<Msg("INJECT_TEXT", "clipboard")>>)
       /\ UNCHANGED repeat
    \/ /\ config.autosync /\ IsCtrlV(e) /\ ~config.legacyPaste
       /\ im.sequence <= MaxSequence
       /\ LET sequence == IF config.keyboard = "aoa" THEN im.sequence ELSE 0
              clip == <<Msg("SET_CLIPBOARD", sequence)>>
          IN \/ ClipboardRefused(e)
             \/ /\ im' = [KeyCounted(e) EXCEPT !.sequence = @ + IF sequence > 0 THEN 1 ELSE 0]
                /\ IF config.keyboard = "sdk" THEN SdkKey(e, clip)
                   ELSE out' = clip \o <<Msg("HID_KEY", sequence)>> /\ UNCHANGED repeat

ProcessKey(e) ==
    /\ IF IsShortcut(e)
       THEN /\ im' = IF e.key = "Z" /\ e.down /\ ~e.repeat
                     THEN [KeyCounted(e) EXCEPT !.paused = "shift" \notin e.mods]
                     ELSE KeyCounted(e)
            /\ LET msgs == ShortcutMessages(e)
               IN out' \in {<<>>} \cup {<<m>> : m \in msgs}
            /\ UNCHANGED repeat
       ELSE IF config.keyboard = "none" \/ im.paused
       THEN im' = KeyCounted(e) /\ out' = <<>> /\ UNCHANGED repeat
       ELSE KeyToDevice(e)
    /\ UNCHANGED <<config, finger, physical>>

--------------------------------------------------------------------------------
(* The mouse                                                               *)

Pointer(isFinger) == IF isFinger THEN "finger" ELSE "mouse"
MouseIgnored == config.camera \/ config.mouse = "none" \/ im.paused \/ im.disconnected

(* sc_input_manager_process_mouse_motion(), then mouse_sdk.c: a motion     *)
(* without a button is a hover; the virtual finger follows.                *)
MouseMotion ==
    /\ LET motion == IF im.buttons = {} /\ ~config.hover /\ config.mouse = "sdk" THEN <<>>
                     ELSE <<Msg(IF im.buttons = {} THEN "HOVER_MOVE" ELSE "MOVE",
                                Pointer(im.vfinger))>>
           virtual == IF im.vfinger THEN <<Msg("MOVE", "virtual")>> ELSE <<>>
       IN IF MouseIgnored THEN out' = <<>> ELSE Sends(motion \o virtual)
    /\ UNCHANGED <<config, im, repeat, finger, physical>>

(* sc_input_manager_get_binding(), of the primary or secondary set.        *)
Binding(button, shift) == IF button = "left" THEN "click" ELSE config.click[shift]

(* What the button does when it is not a click: the messages.              *)
BoundMessages(binding, down, twice) ==
    CASE binding = "disabled" -> <<>>
      [] binding \in {"BACK_OR_SCREEN_ON", "HOME", "APP_SWITCH"} ->
            IF config.keyboard # "none" THEN <<Msg(binding, down)>> ELSE <<>>
      [] binding = "panel" ->
            IF ~down THEN <<>>
            ELSE <<Msg(IF twice THEN "EXPAND_SETTINGS_PANEL" ELSE "EXPAND_NOTIFICATION_PANEL",
                       TRUE)>>

(* Mutation: the button is marked as released when its click is sent.      *)
ReleasedOr_Late(button, down) == IF im.paused THEN im.buttons ELSE im.buttons \ {button}

(* A release is noted whatever becomes of the event.                       *)
ReleasedOr(button, down) == IF down THEN im.buttons ELSE im.buttons \ {button}

(* Mutation: the virtual finger is up although the message was refused.    *)
VirtualFinger_Assumed(down, buttons, click) ==
    \E ok \in BOOLEAN :
       /\ finger' = IF ok THEN down ELSE finger
       /\ im' = [im EXCEPT !.buttons = buttons, !.vfinger = down]
       /\ out' \in {c \o (IF ok THEN <<Msg(IF down THEN "DOWN" ELSE "UP", "virtual")>>
                         ELSE <<>>) : c \in Accepted(click)}

(* simulate_virtual_finger(): the flag changes if the message is accepted. *)
VirtualFinger(down, buttons, click) ==
    \E ok \in BOOLEAN :
       /\ finger' = IF ok THEN down ELSE finger
       /\ im' = [im EXCEPT !.buttons = buttons, !.vfinger = IF ok THEN down ELSE @]
       /\ out' \in {c \o (IF ok THEN <<Msg(IF down THEN "DOWN" ELSE "UP", "virtual")>>
                         ELSE <<>>) : c \in Accepted(click)}

(* sc_input_manager_process_mouse_button(), then mouse_sdk.c.  A double    *)
(* click on the black borders ("border") resizes the window; one in the    *)
(* content is "again".                                                     *)
ProcessButton(button, down, mods, place) ==
    LET buttons == ReleasedOr(button, down)
        binding == Binding(button, "shift" \in mods)
        bound == config.control /\ ~im.paused /\ binding # "click"
        onBorder == button = "left" /\ place = "border" /\ config.mouse # "relative"
        changes == /\ button = "left" /\ config.mouse = "sdk"
                   /\ \/ down /\ ~im.vfinger /\ mods \cap {"ctrl", "shift"} # {}
                      \/ ~down /\ im.vfinger
        pressed == IF down THEN buttons \cup {button} ELSE buttons
        click == <<Msg(IF down THEN "DOWN" ELSE "UP", Pointer(im.vfinger \/ changes))>>
    IN /\ IF config.camera \/ im.disconnected THEN out' = <<>> /\ UNCHANGED <<im, finger>>
          ELSE IF bound \/ onBorder \/ config.mouse = "none" \/ im.paused
          THEN /\ im' = [im EXCEPT !.buttons = buttons]
               /\ IF bound THEN Sends(BoundMessages(binding, down, place # "inside")) ELSE out' = <<>>
               /\ UNCHANGED finger
          ELSE IF changes THEN VirtualFinger(down, pressed, click)
          ELSE im' = [im EXCEPT !.buttons = pressed] /\ Sends(click) /\ UNCHANGED finger
       /\ UNCHANGED <<config, repeat>>

(* sc_input_manager_process_mouse_wheel(): the test is about the keyboard, *)
(* so a keyboard without a mouse dereferences NULL, which is left out.     *)
MouseWheel ==
    /\ config.mouse = "none" => config.keyboard = "none"
    /\ IF config.camera \/ config.keyboard = "none" \/ im.paused \/ im.disconnected
       THEN out' = <<>> ELSE Sends(<<Msg("SCROLL", im.buttons)>>)
    /\ UNCHANGED <<config, im, repeat, finger, physical>>

(* sc_input_manager_process_touch(): only the SDK mouse supports it.       *)
Touch(action) ==
    /\ IF MouseIgnored \/ config.mouse # "sdk" THEN out' = <<>> ELSE Sends(<<Msg(action, "touch")>>)
    /\ UNCHANGED <<config, im, repeat, capture, finger, physical>>

--------------------------------------------------------------------------------
(* sc_mouse_capture_handle_event(), in relative mode only                  *)

Relative == config.mouse = "relative"
IgnoredEvent == out' = <<>> /\ UNCHANGED <<config, im, repeat, finger>>

(* A capture key that is pressed then released alone toggles the capture;  *)
(* it is never given to the device.                                        *)
CaptureKey(down) ==
    /\ capture' = IF down THEN [capture EXCEPT !.pressed = IF @ = "none" THEN "MOD" ELSE "none"]
                  ELSE [active |-> IF capture.pressed = "MOD" THEN ~capture.active
                                   ELSE capture.active,
                        pressed |-> "none"]
    /\ IgnoredEvent /\ UNCHANGED physical

Key(e) ==
    IF ~Relative THEN ProcessKey(e) /\ UNCHANGED capture
    ELSE IF e.key = "MOD" THEN CaptureKey(e.down)
    ELSE /\ ProcessKey(e)
         /\ capture' = IF e.down THEN capture ELSE [capture EXCEPT !.pressed = "none"]

(* The first click in the window captures the mouse.                       *)
Button(button, down, mods, place) ==
    /\ (button \in physical) # down
    /\ physical' = IF down THEN physical \cup {button} ELSE physical \ {button}
    /\ IF Relative /\ ~capture.active
       THEN IgnoredEvent /\ capture' = [capture EXCEPT !.active = ~down]
       ELSE ProcessButton(button, down, mods, place) /\ UNCHANGED capture

Pointing(action) ==
    /\ IF Relative /\ ~capture.active THEN IgnoredEvent /\ UNCHANGED physical ELSE action
    /\ UNCHANGED capture

FocusLost ==
    /\ Relative
    /\ capture' = [capture EXCEPT !.active = FALSE]
    /\ IgnoredEvent /\ UNCHANGED physical

--------------------------------------------------------------------------------
(* The other events                                                        *)

(* Gamepads are added and removed even if the screen is paused.            *)
Gamepad(type) ==
    /\ type \in {"ADDED", "REMOVED", "AXIS", "BUTTON"}
    /\ IF \/ config.camera \/ ~config.gamepad \/ im.disconnected
          \/ im.paused /\ type \in {"AXIS", "BUTTON"}
       THEN out' = <<>> ELSE Sends(<<Msg("GAMEPAD", type)>>)
    /\ UNCHANGED <<config, im, repeat, capture, finger, physical>>

(* sc_input_manager_process_file(): a request to the file pusher.          *)
DropFile(apk) ==
    /\ IF config.camera \/ ~config.control \/ im.disconnected THEN out' = <<>>
       ELSE Sends(<<Msg("FILE", IF apk THEN "install" ELSE "push")>>)
    /\ UNCHANGED <<config, im, repeat, capture, finger, physical>>

OnDeviceDisconnected ==
    /\ ~im.disconnected
    /\ im' = [im EXCEPT !.disconnected = TRUE]
    /\ out' = <<>>
    /\ UNCHANGED <<config, repeat, capture, finger, physical>>

InputNext ==
    \/ \E key \in config.keys, down, again \in BOOLEAN, mods \in config.mods :
          Key([key |-> key, down |-> down, repeat |-> again /\ down, mods |-> mods])
    \/ \E class \in {"letter", "space", "number", "other"}, mods \in SUBSET {"mod"} :
          TextInput(class, mods)
    \/ \E button \in Buttons, down \in BOOLEAN, mods \in {{}, {"ctrl"}, {"shift"}} :
          \E place \in {"inside", IF button = "left" THEN "border" ELSE "again"} :
             Button(button, down, mods, place)
    \/ Pointing(MouseMotion) \/ Pointing(MouseWheel)
    \/ \E action \in {"DOWN", "MOVE", "UP"} : Touch(action)
    \/ FocusLost
    \/ \E type \in {"ADDED", "REMOVED", "AXIS", "BUTTON"} : Gamepad(type)
    \/ \E apk \in BOOLEAN : DropFile(apk)
    \/ OnDeviceDisconnected

--------------------------------------------------------------------------------
(* Properties                                                              *)

InputTypeOK ==
    /\ config \in Configs
    /\ im.sequence \in 1..(MaxSequence + 1)
    /\ repeat \in 0..1
    /\ physical \subseteq Buttons
    /\ \A i \in DOMAIN out : out[i].type = "HID_KEY" => config.keyboard # "sdk"
    /\ Relative => ~im.vfinger               \* input_manager.c:969

(* The virtual finger that simulates a pinch is down on the device exactly *)
(* when the input manager thinks so, although messages may be refused; and *)
(* without relative mode, a button that it holds is held by the user, so   *)
(* no motion drags by itself, whatever pauses and bindings came between.   *)
MouseStateIsTrue ==
    /\ finger = im.vfinger
    /\ ~Relative /\ ~im.disconnected => im.buttons \subseteq physical

(* A paste that waits for an acknowledgement waits for that of the request *)
(* that was just accepted, and no two requests have the same number.       *)
PasteFollowsClipboard ==
    \A i \in DOMAIN out :
       /\ out[i].type = "HID_KEY" /\ out[i].arg > 0 =>
             /\ i > 1 /\ out[i - 1] = Msg("SET_CLIPBOARD", out[i].arg)
             /\ out[i].arg = im.sequence - 1
       /\ out[i].type = "SET_CLIPBOARD" /\ out[i].arg > 0 => out[i].arg = im.sequence - 1

(* What is typed arrives once: as a key or as a text, never both, in each  *)
(* mode; without NumLock the numbers of the keypad move the cursor, and    *)
(* SDL gives no text for them.                                             *)
TypedOnce ==
    \A mode \in {"mixed", "text", "raw"}, class \in {"letter", "space", "number", "keypad"},
       mods \in SUBSET {"shift", "num"} :
          LET text == class = "keypad" => mods # {}
              asText == text /\ InjectsText(IF class = "keypad" THEN "number" ELSE class, mode)
          IN ConvertKeycode(class, mods, mode) # asText
================================================================================
