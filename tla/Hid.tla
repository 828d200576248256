---------------------------------- MODULE Hid ----------------------------------
(***************************************************************************)
(* The HID devices that the client simulates: the keyboard, the mouse and  *)
(* the gamepads (hid/*.c) become open, input and close events, that an AOA *)
(* thread sends over USB (usb/aoa_hid.c, usb/*_aoa.c), or UHID messages    *)
(* for the server (uhid/*.c), in the queue of the controller.              *)
(*                                                                         *)
(* A Ctrl+v over USB is not in the order of the control messages: it waits *)
(* for the acknowledgement of the clipboard (util/acksync.c), that the     *)
(* receiver gets (receiver.c) from the device.  The device is modelled     *)
(* from Controller.java, DeviceMessageSender.java and UhidManager.java;    *)
(* its clipboard manager exists.  Texts and reports are numbers, and the   *)
(* only lock of the keyboard is Caps Lock: a report of the keyboard over   *)
(* UHID is reduced to whether Caps Lock is among the keys pressed, and the *)
(* system of the device toggles its lock on one of the two edges.          *)
(***************************************************************************)
EXTENDS Integers, Sequences, FiniteSets

CONSTANTS
    Gamepads,    \* the gamepads that the user has
    Slots,       \* SC_MAX_GAMEPADS
    QueueLimit,  \* SC_AOA_EVENT_QUEUE_LIMIT
    SenderLimit, \* what DeviceMessageSender holds
    HidSetups    \* the options: records [transport : {"aoa", "uhid"}, keyboard,
                 \*   mouse, gamepad : BOOLEAN, inputs : bound, what the user does,
                 \*   locks : {"press", "release"}, the edge that toggles Caps Lock]

ASSUME HidAssumption ==
    /\ Slots \in Nat \ {0} /\ QueueLimit \in Nat /\ SenderLimit \in Nat \ {0}
    /\ "none" \notin Gamepads

VARIABLES
    modes,       \* the options of this session
    slots,       \* struct sc_hid_gamepad: the gamepad of each slot
    plugged,     \* the gamepads that SDL has announced
    aoa,         \* struct sc_aoa: [thread, queue, stopped, event, open]
    acksync,     \* [ack, stopped]
    wire,        \* the control messages on their way to the device
    back,        \* the device messages on their way to the client
    device,      \* [owner, reported : by HID id, pressed, caps, clip]; pressed: its last
                 \* report of the keyboard has Caps Lock
    caps,        \* Caps Lock: [host, known, held, answered]: on the host, device_mod of the
                 \* keyboard, its key; history: known was last set by the device
    sequence,    \* next_sequence of the input manager
    hidPast      \* history: [inputs, closeFailed, refused]

hidVars == <<modes, slots, plugged, aoa, acksync, wire, back, device, caps, sequence, hidPast>>

None == "none"
Keyboard == 1                        \* the HID ids: hid_keyboard.h, hid_mouse.h, and
Mouse == 2                           \* SC_HID_ID_GAMEPAD_FIRST + the slot
GamepadIds == 3..(2 + Slots)
Ids == {Keyboard, Mouse} \cup GamepadIds
Open(id, owner) == [type |-> "open", id |-> id, owner |-> owner, ack |-> 0]
Close(id) == [type |-> "close", id |-> id, owner |-> None, ack |-> 0]
Report(id, owner, ack) == [type |-> "input", id |-> id, owner |-> owner, ack |-> ack]
(* A report of the keyboard, with Caps Lock pressed or not.                *)
Caps == [type |-> "caps", id |-> Keyboard, owner |-> "keyboard", ack |-> 0]
Keys == [type |-> "keys", id |-> Keyboard, owner |-> "keyboard", ack |-> 0]

Aoa == modes.transport = "aoa"

(* The keyboard and the mouse are opened first (usb/*_aoa.c, uhid/*.c).    *)
Opens == (IF modes.keyboard THEN <<Open(Keyboard, "keyboard")>> ELSE <<>>)
         \o (IF modes.mouse THEN <<Open(Mouse, "mouse")>> ELSE <<>>)

HidInit ==
    /\ modes \in HidSetups
    /\ slots = [i \in GamepadIds |-> None]
    /\ plugged = {}
    /\ aoa = [thread |-> IF Aoa THEN "ready" ELSE "none", stopped |-> FALSE,
              queue |-> IF Aoa THEN Opens ELSE <<>>, event |-> <<>>, open |-> {}]
    /\ acksync = [ack |-> 0, stopped |-> FALSE]
    /\ wire = IF Aoa THEN <<>> ELSE Opens
    /\ back = <<>>
    /\ device = [owner |-> [id \in Ids |-> None], reported |-> [id \in Ids |-> None],
                 pressed |-> FALSE, caps |-> FALSE, clip |-> 0]
    /\ \E host \in BOOLEAN :
          caps = [host |-> host, known |-> FALSE, held |-> FALSE, answered |-> TRUE]
    /\ sequence = 1
    /\ hidPast = [inputs |-> 0, closeFailed |-> FALSE, refused |-> FALSE]

--------------------------------------------------------------------------------
(* Sending, on the main thread                                             *)

(* Mutation: an open is dropped like an input when the queue is full.      *)
PushAoa_DropsOpen(event) ==
    /\ aoa' = IF Len(aoa.queue) >= QueueLimit THEN aoa
              ELSE [aoa EXCEPT !.queue = Append(@, event),
                               !.thread = IF @ = "waiting" THEN "ready" ELSE @]

(* sc_aoa_push_input_with_ack_to_wait(), sc_aoa_push_open() and close():   *)
(* only inputs are dropped above the limit; the thread is signalled when   *)
(* the queue was empty.                                                    *)
PushAoa(event) ==
    /\ aoa' = IF event.type = "input" /\ Len(aoa.queue) >= QueueLimit THEN aoa
              ELSE [aoa EXCEPT !.queue = Append(@, event),
                               !.thread = IF @ = "waiting" /\ aoa.queue = <<>> THEN "ready"
                                          ELSE @]

(* sc_controller_push_msg(): a UHID input may be refused.                  *)
PushUhid(event) ==
    \/ wire' = Append(wire, event) /\ hidPast' = [hidPast EXCEPT !.inputs = @ + 1]
    \/ /\ event.type \notin {"open", "close"}
       /\ UNCHANGED wire
       /\ hidPast' = [hidPast EXCEPT !.inputs = @ + 1, !.refused = TRUE]

Send(event) ==
    IF Aoa
    THEN /\ PushAoa(event)
         /\ hidPast' = [hidPast EXCEPT !.inputs = @ + 1]
         /\ UNCHANGED wire
    ELSE PushUhid(event) /\ UNCHANGED aoa

User == hidPast.inputs < modes.inputs /\ ~aoa.stopped

--------------------------------------------------------------------------------
(* The gamepads (hid_gamepad.c)                                            *)

SlotsOf(g) == {i \in GamepadIds : slots[i] = g}
First(s) == {i \in s : \A j \in s : i <= j}

(* Mutation: a gamepad too many takes the first slot.                      *)
GenerateOpen_AnySlot(g) ==
    IF SlotsOf(None) = {} THEN First(GamepadIds) ELSE First(SlotsOf(None))

(* sc_hid_gamepad_generate_open(): the first free slot, if there is one.   *)
GenerateOpen(g) == First(SlotsOf(None))

GamepadAdded(g) ==
    /\ User /\ modes.gamepad /\ g \notin plugged
    /\ plugged' = plugged \cup {g}
    /\ IF GenerateOpen(g) = {} THEN UNCHANGED <<slots, aoa, wire, hidPast>>
       ELSE \E i \in GenerateOpen(g) :
               slots' = [slots EXCEPT ![i] = g] /\ Send(Open(i, g))
    /\ UNCHANGED <<modes, acksync, back, device, caps, sequence>>

(* A gamepad that has no slot is ignored.                                  *)
GamepadRemoved(g) ==
    /\ User /\ g \in plugged
    /\ plugged' = plugged \ {g}
    /\ IF SlotsOf(g) = {} THEN UNCHANGED <<slots, aoa, wire, hidPast>>
       ELSE \E i \in First(SlotsOf(g)) :
               slots' = [slots EXCEPT ![i] = None] /\ Send(Close(i))
    /\ UNCHANGED <<modes, acksync, back, device, caps, sequence>>

(* An axis or a button.  Mutation: always the first slot.                  *)
GamepadInput_FirstSlot(g) ==
    /\ User /\ g \in plugged
    /\ \E i \in First(GamepadIds) : Send(Report(i, g, 0))
    /\ UNCHANGED <<modes, slots, plugged, acksync, back, device, caps, sequence>>

GamepadInput(g) ==
    /\ User /\ g \in plugged
    /\ \E i \in First(SlotsOf(g)) : Send(Report(i, g, 0))
    /\ UNCHANGED <<modes, slots, plugged, acksync, back, device, caps, sequence>>

--------------------------------------------------------------------------------
(* The mouse and the keyboard                                              *)

MouseInput ==
    /\ User /\ modes.mouse
    /\ Send(Report(Mouse, "mouse", 0))
    /\ UNCHANGED <<modes, slots, plugged, acksync, back, device, caps, sequence>>

(* keyboard_aoa.c: Ctrl+v, after sc_input_manager_process_key() has set    *)
(* the clipboard of the device; the number is taken if that was accepted.  *)
Paste ==
    /\ User /\ Aoa /\ modes.keyboard
    /\ wire' = Append(wire, [type |-> "clipboard", id |-> None, owner |-> None,
                             ack |-> sequence])
    /\ sequence' = sequence + 1
    /\ PushAoa(Report(Keyboard, "keyboard", sequence))
    /\ hidPast' = [hidPast EXCEPT !.inputs = @ + 1]
    /\ UNCHANGED <<modes, slots, plugged, acksync, back, device, caps>>

(* keyboard_uhid.c: the key of Caps Lock.  The host toggles when it is     *)
(* pressed, device_mod when it is pressed and again when it is released.   *)
UhidCapsPress ==
    /\ User /\ ~Aoa /\ modes.keyboard /\ ~caps.held
    /\ caps' = [host |-> ~caps.host, known |-> ~caps.known, held |-> TRUE, answered |-> FALSE]
    /\ PushUhid(Caps)
    /\ UNCHANGED <<modes, slots, plugged, aoa, acksync, back, device, sequence>>

UhidCapsRelease ==
    /\ ~aoa.stopped /\ ~Aoa /\ modes.keyboard /\ caps.held
    /\ caps' = [caps EXCEPT !.known = ~@, !.held = FALSE, !.answered = FALSE]
    /\ PushUhid(Keys)
    /\ UNCHANGED <<modes, slots, plugged, aoa, acksync, back, device, sequence>>

(* Another key, pressed or released.  sc_keyboard_uhid_synchronize_mod():  *)
(* if the host has another lock, a report presses Caps Lock alone; the     *)
(* report of the key follows, with what is held.  Each may be refused.     *)
UhidKey ==
    /\ User /\ ~Aoa /\ modes.keyboard
    /\ caps' = IF caps.host = caps.known THEN caps
               ELSE [caps EXCEPT !.known = caps.host, !.answered = FALSE]
    /\ LET mods == IF caps.host = caps.known THEN <<>> ELSE <<Caps>>
           report == <<IF caps.held THEN Caps ELSE Keys>> IN
       \E first \in {<<>>, mods}, second \in {<<>>, report} :
          /\ wire' = wire \o first \o second
          /\ hidPast' = [hidPast EXCEPT !.inputs = @ + 1,
                                        !.refused = @ \/ <<first, second>> # <<mods, report>>]
    /\ UNCHANGED <<modes, slots, plugged, aoa, acksync, back, device, sequence>>

(* sc_aoa_stop(): the thread is told, then its wait is interrupted.        *)
StopAoa ==
    /\ Aoa /\ ~aoa.stopped
    /\ aoa' = [aoa EXCEPT !.stopped = TRUE, !.thread = IF @ = "waiting" THEN "ready" ELSE @]
    /\ UNCHANGED <<modes, slots, plugged, acksync, wire, back, device, caps, sequence, hidPast>>
InterruptAcksync ==
    /\ aoa.stopped /\ ~acksync.stopped
    /\ acksync' = [acksync EXCEPT !.stopped = TRUE]
    /\ UNCHANGED <<modes, slots, plugged, aoa, wire, back, device, caps, sequence, hidPast>>

--------------------------------------------------------------------------------
(* The AOA thread                                                          *)

OnlyAoa == UNCHANGED <<modes, slots, plugged, acksync, wire, back, caps, sequence>>

AoaTake ==
    /\ aoa.thread = "ready"
    /\ aoa' = IF aoa.stopped THEN [aoa EXCEPT !.thread = "closing"]
              ELSE IF aoa.queue = <<>> THEN [aoa EXCEPT !.thread = "waiting"]
              ELSE [aoa EXCEPT !.thread = Head(aoa.queue).type, !.queue = Tail(@),
                               !.event = <<Head(aoa.queue)>>]
    /\ OnlyAoa /\ UNCHANGED <<device, hidPast>>

AoaSpuriousWakeup ==
    /\ aoa.thread = "waiting"
    /\ aoa' = [aoa EXCEPT !.thread = "ready"]
    /\ OnlyAoa /\ UNCHANGED <<device, hidPast>>

(* libusb_control_transfer(): the device does it, or it fails.             *)
Sent(event) == [device EXCEPT !.reported[event.id] = IF device.owner[event.id] = None THEN @
                                                     ELSE event.owner]
Opened(event) == [device EXCEPT !.owner[event.id] = event.owner, !.reported[event.id] = None]
Closed(id) == [device EXCEPT !.owner[id] = None, !.reported[id] = None]

Processed == [aoa EXCEPT !.thread = "ready", !.event = <<>>]

(* Mutation: an older acknowledgement is enough.                           *)
AckReceived_Any(ack) == acksync.ack > 0

AckReceived(ack) == acksync.ack >= ack

(* The input of a paste waits for its acknowledgement, at most 500 ms; it  *)
(* is discarded when they end, and the thread stops when it is told so.    *)
AoaInput ==
    /\ aoa.thread = "input"
    /\ LET event == aoa.event[1] IN
       \/ /\ event.ack = 0 \/ (~acksync.stopped /\ AckReceived(event.ack))
          /\ aoa' = Processed
          /\ \/ device' = Sent(event)
             \/ UNCHANGED device
       \/ /\ event.ack > 0 /\ ~acksync.stopped /\ ~AckReceived(event.ack)     \* timeout
          /\ aoa' = Processed
          /\ UNCHANGED device
       \/ /\ event.ack > 0 /\ acksync.stopped
          /\ aoa' = [aoa EXCEPT !.thread = "closing", !.event = <<>>]
          /\ UNCHANGED device
    /\ OnlyAoa /\ UNCHANGED hidPast

(* sc_aoa_setup_hid(): the registration or the descriptor may fail; in the *)
(* latter case the device is unregistered, which may fail too.             *)
AoaOpen ==
    /\ aoa.thread = "open"
    /\ LET event == aoa.event[1] IN
       \/ device' = Opened(event) /\ UNCHANGED hidPast
          /\ aoa' = [Processed EXCEPT !.open = @ \cup {event.id}]
       \/ UNCHANGED <<device, hidPast>> /\ aoa' = Processed
       \/ device' = Closed(event.id) /\ UNCHANGED hidPast /\ aoa' = Processed
       \/ /\ device' = Opened(event) /\ aoa' = Processed
          /\ hidPast' = [hidPast EXCEPT !.closeFailed = TRUE]
    /\ OnlyAoa

AoaClose ==
    /\ aoa.thread = "close"
    /\ LET id == aoa.event[1].id IN
       \/ /\ device' = Closed(id) /\ UNCHANGED hidPast
          /\ aoa' = [Processed EXCEPT !.open = @ \ {id}]
       \/ /\ aoa' = Processed
          /\ hidPast' = [hidPast EXCEPT !.closeFailed = TRUE]
          /\ UNCHANGED device
    /\ OnlyAoa

(* What is open is unregistered before the thread ends.                    *)
AoaUnregister ==
    /\ aoa.thread = "closing"
    /\ IF aoa.open = {} THEN aoa' = [aoa EXCEPT !.thread = "ended"] /\ UNCHANGED <<device, hidPast>>
       ELSE \E id \in aoa.open :
              /\ aoa' = [aoa EXCEPT !.open = @ \ {id}]
              /\ \/ device' = Closed(id) /\ UNCHANGED hidPast
                 \/ hidPast' = [hidPast EXCEPT !.closeFailed = TRUE] /\ UNCHANGED device
    /\ OnlyAoa

--------------------------------------------------------------------------------
(* The device, and the receiver of the client                              *)

(* Mutation: the acknowledgement is sent before the clipboard is set.      *)
DeviceReceives_AckFirst ==
    /\ wire # <<>> /\ Head(wire).type = "clipboard" /\ Len(back) < SenderLimit
    /\ Head(wire).ack > device.clip
    /\ back' = Append(back, [type |-> "ack", value |-> Head(wire).ack])
    /\ \/ UNCHANGED <<wire, device>>
       \/ device' = [device EXCEPT !.clip = Head(wire).ack] /\ wire' = Tail(wire)
    /\ UNCHANGED <<modes, slots, plugged, aoa, acksync, caps, sequence, hidPast>>

(* The lock of the device, and its lights, are toggled by one edge.        *)
IsKeyboardReport(event) == event.type \in {"caps", "keys"}
Toggles(event) ==
    /\ IsKeyboardReport(event) /\ (event.type = "caps") # device.pressed
    /\ event.type = IF modes.locks = "press" THEN "caps" ELSE "keys"

(* Controller.java: the clipboard is set, then acknowledged; a UHID device *)
(* is created, destroyed or given its input; it reports its lights.  A     *)
(* message is dropped when as many wait for the sender.                    *)
DeviceReceives ==
    /\ wire # <<>>
    /\ wire' = Tail(wire)
    /\ LET event == Head(wire)
           answer == CASE event.type = "clipboard" -> <<[type |-> "ack", value |-> event.ack]>>
                       [] Toggles(event) -> <<[type |-> "leds", value |-> ~device.caps]>>
                       [] OTHER -> <<>>
           dropped == answer # <<>> /\ Len(back) >= SenderLimit
       IN /\ device' = CASE event.type = "clipboard" -> [device EXCEPT !.clip = event.ack]
                         [] IsKeyboardReport(event) ->
                               [device EXCEPT !.pressed = (event.type = "caps"),
                                              !.caps = @ # Toggles(event)]
                         [] event.type = "open" -> Opened(event)
                         [] event.type = "close" -> Closed(event.id)
                         [] event.type = "input" -> Sent(event)
          /\ back' = IF dropped THEN back ELSE back \o answer
          /\ hidPast' = [hidPast EXCEPT !.refused = @ \/ (dropped /\ Toggles(event))]
    /\ UNCHANGED <<modes, slots, plugged, aoa, acksync, caps, sequence>>

(* Mutation: the lights are ignored while Caps Lock is held.               *)
Receive_NotHeld ==
    /\ back # <<>>
    /\ back' = Tail(back)
    /\ IF Head(back).type = "ack"
       THEN acksync' = [acksync EXCEPT !.ack = Head(back).value] /\ UNCHANGED caps
       ELSE /\ caps' = [caps EXCEPT !.known = IF caps.held THEN @ ELSE Head(back).value,
                                    !.answered = TRUE]
            /\ UNCHANGED acksync
    /\ UNCHANGED <<modes, slots, plugged, aoa, wire, device, sequence, hidPast>>

(* process_msg() of receiver.c: acknowledgements are monotonic, which      *)
(* sc_acksync_ack() asserts; the lights go to the keyboard, by a task of   *)
(* the main thread.                                                        *)
Receive ==
    /\ back # <<>>
    /\ back' = Tail(back)
    /\ IF Head(back).type = "ack"
       THEN acksync' = [acksync EXCEPT !.ack = Head(back).value] /\ UNCHANGED caps
       ELSE /\ caps' = [caps EXCEPT !.known = Head(back).value, !.answered = TRUE]
            /\ UNCHANGED acksync
    /\ UNCHANGED <<modes, slots, plugged, aoa, wire, device, sequence, hidPast>>

HidNext ==
    \/ \E g \in Gamepads : GamepadAdded(g) \/ GamepadRemoved(g) \/ GamepadInput(g)
    \/ MouseInput \/ Paste \/ UhidCapsPress \/ UhidCapsRelease \/ UhidKey
    \/ StopAoa \/ InterruptAcksync
    \/ AoaTake \/ AoaSpuriousWakeup \/ AoaInput \/ AoaOpen \/ AoaClose \/ AoaUnregister
    \/ DeviceReceives \/ Receive

HidSpec == HidInit /\ [][HidNext]_hidVars

--------------------------------------------------------------------------------
(* Properties                                                              *)

HidTypeOK ==
    /\ slots \in [GamepadIds -> Gamepads \cup {None}]
    /\ plugged \subseteq Gamepads
    /\ aoa.thread \in {"none", "ready", "waiting", "open", "input", "close", "closing", "ended"}
    /\ aoa.open \subseteq Ids
    /\ sequence > acksync.ack
    \* the assertion of sc_acksync_ack()
    /\ \A i \in DOMAIN back : back[i].type = "ack" => back[i].value >= acksync.ack

(* A Ctrl+v that the AOA thread sends finds in the clipboard of the device *)
(* the text that was copied before it, or a later one, whatever was        *)
(* delayed, dropped or discarded before; no wait of that thread forgets    *)
(* the queue or the stop.                                                  *)
PasteIsNew ==
    /\ aoa.thread = "input" /\ aoa.event[1].ack > 0 /\ AckReceived(aoa.event[1].ack)
       => device.clip >= aoa.event[1].ack
    /\ aoa.thread = "waiting" => aoa.queue = <<>> /\ ~aoa.stopped

(* A device only gets the reports of the gamepad it was opened for, also   *)
(* when gamepads come and go and a slot is used again, and inputs are      *)
(* dropped; two gamepads never share a slot; and nothing stays registered. *)
(* Once its messages are handled, if none was lost, the keyboard knows the *)
(* lock of the device if the device had the last word, as it has at the    *)
(* end of every stroke when the lock toggles on the release: a toggle of   *)
(* device_mod in advance (keyboard_uhid.c:78, 48) never stays wrong.       *)
ReportsReachTheirDevice ==
    /\ ~hidPast.closeFailed => \A id \in Ids : device.reported[id] \in {None, device.owner[id]}
    /\ \A g \in Gamepads : Cardinality(SlotsOf(g)) <= 1 /\ (SlotsOf(g) # {} => g \in plugged)
    /\ aoa.thread = "ended" /\ ~hidPast.closeFailed => \A id \in Ids : device.owner[id] = None
    /\ /\ wire = <<>> /\ back = <<>> /\ ~hidPast.refused
       /\ caps.answered \/ (modes.locks = "release" /\ ~caps.held)
       => caps.known = device.caps
================================================================================
