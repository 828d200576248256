--------------------------------- MODULE Touch ---------------------------------
(***************************************************************************)
(* The touches on the device: what Controller.java makes of the touch      *)
(* messages of the client, with the pointers that PointersState.java       *)
(* remembers, and what the events that it injects mean for the application *)
(* that receives them.                                                     *)
(*                                                                         *)
(* The client is a set of fingers (of the keymapper, of a touch screen,    *)
(* virtual) and a mouse, each sent in order; a message may be lost (the    *)
(* queue of the client is full) or ignored (the device was rotated since). *)
(* Positions, pressure and times are left out; the application is external.*)
(***************************************************************************)
EXTENDS Integers, Sequences, FiniteSets, SequencesExt, FiniteSetsExt

CONSTANTS
    Finger,        \* pointer ids of the client other than the mouse
    Mouse,         \* POINTER_ID_MOUSE
    MaxPointers    \* MAX_POINTERS

ASSUME TouchOK == Mouse \notin Finger /\ MaxPointers \in Nat \ {0}

VARIABLES
    held,       \* client: the fingers that are down
    buttons,    \* client: the buttons of the mouse that are down
    pointers,   \* device: PointersState.pointers, [id, local, up]
    tools,      \* device: the tool type in each element of pointerProperties
    app,        \* application: [touch: its pointers, mouse: the buttons, legal]
    last,       \* history: the action of the last message used, for each id
    excused     \* history: whether the application may be confused

touchVars == <<held, buttons, pointers, tools, app, last, excused>>

Pointer == Finger \cup {Mouse}
MouseButton == {"primary", "secondary"}
LocalIds(list) == {list[i].local : i \in DOMAIN list}

TouchInit ==
    /\ held = {} /\ buttons = {}
    /\ pointers = <<>>
    /\ tools = [i \in 1..MaxPointers |-> "finger"]
    /\ app = [touch |-> {}, mouse |-> {}, down |-> FALSE, legal |-> TRUE]
    /\ last = [id \in Pointer |-> "up"]
    /\ excused = FALSE

--------------------------------------------------------------------------------
(* PointersState                                                           *)

(* Mutation: the number of pointers is taken for a free local id.          *)
NextUnusedLocalId_Size == Len(pointers)

(* nextUnusedLocalId(): the smallest.                                      *)
NextUnusedLocalId ==
    LET free == (0..MaxPointers - 1) \ LocalIds(pointers)
    IN IF free = {} THEN -1 ELSE Min(free)

(* getPointerIndex(): the list with the pointer in it, and its index, 0 if *)
(* there is no room.                                                       *)
Known(id) == SelectInSeq(pointers, LAMBDA p : p.id = id)
WithPointer(id) ==
    IF Known(id) # 0 \/ Len(pointers) >= MaxPointers THEN pointers
    ELSE Append(pointers, [id |-> id, local |-> NextUnusedLocalId, up |-> FALSE])
PointerIndex(id) ==
    IF Known(id) # 0 THEN Known(id)
    ELSE IF Len(pointers) >= MaxPointers THEN 0 ELSE Len(pointers) + 1

(* Mutation: the pointers that are up are forgotten by the next event.     *)
CleanUpPointers_Late(list) == IF Len(list) > 1 THEN list
                              ELSE SelectSeq(list, LAMBDA p : ~p.up)

(* cleanUp(), at the end of update(), when the event is already filled:    *)
(* what is left of the list when its last n pointers have been looked at.  *)
CleanUpPointers(list) ==
    LET left[n \in 0..Len(list)] ==
            IF n = 0 THEN list
            ELSE LET i == Len(list) - n + 1
                 IN IF left[n - 1][i].up THEN RemoveAt(left[n - 1], i) ELSE left[n - 1]
    IN left[Len(list)]

--------------------------------------------------------------------------------
(* The application                                                         *)

(* An injected event: its source, action, pointers and their tools, the    *)
(* one it is about, and the button.                                        *)
Event(source, action, list, index, button) ==
    [source |-> source, action |-> action, ids |-> LocalIds(list), count |-> Len(list),
     tools |-> [i \in DOMAIN list |-> tools'[i]], id |-> list[index].local,
     button |-> button]

(* A gesture begins with one finger, fingers come and go, the last one ends*)
(* it; a mouse goes down with its first button and up with its last.       *)
LegalEvent(a, e) ==
    /\ e.count = Cardinality(e.ids)
    /\ \A i \in 1..e.count : e.tools[i] = e.source
    /\ IF e.source = "finger"
       THEN /\ ~a.down
            /\ CASE e.action = "DOWN" -> a.touch = {} /\ e.ids = {e.id}
                 [] e.action = "POINTER_DOWN" -> e.id \notin a.touch /\ a.touch # {}
                                                 /\ e.ids = a.touch \cup {e.id}
                 [] e.action = "POINTER_UP" -> e.ids = a.touch /\ Cardinality(a.touch) > 1
                 [] e.action = "UP" -> a.touch = {e.id} /\ e.ids = {e.id}
                 [] OTHER -> e.ids = a.touch
       ELSE /\ a.touch = {} /\ e.count = 1
            /\ CASE e.action = "DOWN" -> ~a.down
                 [] e.action = "BUTTON_PRESS" -> a.down /\ e.button \notin a.mouse
                 [] e.action = "BUTTON_RELEASE" -> e.button \in a.mouse
                 [] e.action = "UP" -> a.down /\ a.mouse = {}
                 [] e.action = "HOVER_MOVE" -> ~a.down
                 [] e.action = "MOVE" -> a.down
                 [] OTHER -> FALSE

Receives(a, e) ==
    [touch |-> IF e.source # "finger" THEN a.touch
               ELSE IF e.action \in {"DOWN", "POINTER_DOWN"} THEN a.touch \cup {e.id}
               ELSE IF e.action \in {"UP", "POINTER_UP"} THEN a.touch \ {e.id} ELSE a.touch,
     mouse |-> IF e.action = "BUTTON_PRESS" THEN a.mouse \cup {e.button}
               ELSE IF e.action = "BUTTON_RELEASE" THEN a.mouse \ {e.button} ELSE a.mouse,
     down |-> IF e.source = "finger" THEN a.down
              ELSE IF e.action = "DOWN" THEN TRUE ELSE IF e.action = "UP" THEN FALSE ELSE a.down,
     legal |-> a.legal /\ LegalEvent(a, e)]

(* What it is when it has received the events, in order.                   *)
ReceivesAll(a, events) ==
    LET after[n \in 0..Len(events)] ==
            IF n = 0 THEN a ELSE Receives(after[n - 1], events[n])
    IN after[Len(events)]

--------------------------------------------------------------------------------
(* Controller.injectTouch()                                                *)

(* The action of the first event: secondary pointers have their own.       *)
Masked(action, count) ==
    IF count > 1 /\ action \in {"DOWN", "UP"} THEN IF action = "DOWN" THEN "POINTER_DOWN"
                                                   ELSE "POINTER_UP"
    ELSE action

(* Mutation: the last button released ends nothing.                        *)
MouseActions_NoUp(action, button, pressed) ==
    IF action = "DOWN"
    THEN (IF pressed = {button} THEN <<"DOWN">> ELSE <<>>) \o <<"BUTTON_PRESS">>
    ELSE <<"BUTTON_RELEASE">>

(* A mouse has several events for a button.                                *)
MouseActions(action, button, pressed) ==
    IF action = "DOWN"
    THEN (IF pressed = {button} THEN <<"DOWN">> ELSE <<>>) \o <<"BUTTON_PRESS">>
    ELSE <<"BUTTON_RELEASE">> \o (IF pressed = {} THEN <<"UP">> ELSE <<>>)

(* The message is about a pointer, with the button that changes and those  *)
(* that are down.  A mouse with no more than its primary button is a       *)
(* finger.                                                                 *)
Inject(action, id, button, pressed) ==
    LET index == PointerIndex(id)
        isMouse == id = Mouse /\ (action = "HOVER_MOVE"
                                  \/ ({button} \cup pressed) \cap {"secondary"} # {})
        source == IF isMouse THEN "mouse" ELSE "finger"
        up == IF isMouse THEN pressed = {} ELSE action = "UP"
        list == [WithPointer(id) EXCEPT ![index].up = up]
        masked == Masked(action, Len(list))
        actions == IF isMouse /\ masked \in {"DOWN", "UP"}
                   THEN MouseActions(masked, button, pressed) ELSE <<masked>>
        mixed == \/ isMouse /\ app.touch # {}
                 \/ ~isMouse /\ app.down
                 \/ isMouse /\ Len(list) > 1
    IN
    IF index = 0
    THEN /\ excused' = TRUE
         /\ UNCHANGED <<pointers, tools, app, last>>
    ELSE /\ tools' = [tools EXCEPT ![index] = source]
         /\ pointers' = CleanUpPointers(list)
         /\ excused' = (excused \/ mixed)
         /\ app' = IF excused' THEN app
                   ELSE ReceivesAll(app, [n \in DOMAIN actions |->
                                     Event(source, actions[n], list, index, button)])
         /\ last' = [last EXCEPT ![id] = IF up THEN "up" ELSE "down"]

(* The message is used, or is lost or ignored, without a trace.            *)
Touch(action, id, button, pressed) ==
    \/ Inject(action, id, button, pressed)
    \/ /\ excused' = TRUE
       /\ UNCHANGED <<pointers, tools, app, last>>

(* The client: a finger is put down, moved, lifted.                        *)
FingerDown(f) ==
    /\ f \notin held /\ held' = held \cup {f}
    /\ Touch("DOWN", f, "none", {})
    /\ UNCHANGED buttons
FingerMove(f) ==
    /\ f \in held
    /\ Touch("MOVE", f, "none", {})
    /\ UNCHANGED <<held, buttons>>
FingerUp(f) ==
    /\ f \in held /\ held' = held \ {f}
    /\ Touch("UP", f, "none", {})
    /\ UNCHANGED buttons

(* The mouse.                                                              *)
ButtonDown(b) ==
    /\ b \notin buttons /\ buttons' = buttons \cup {b}
    /\ Touch("DOWN", Mouse, b, buttons')
    /\ UNCHANGED held
ButtonUp(b) ==
    /\ b \in buttons /\ buttons' = buttons \ {b}
    /\ Touch("UP", Mouse, b, buttons')
    /\ UNCHANGED held
MouseMove ==
    /\ Touch(IF buttons = {} THEN "HOVER_MOVE" ELSE "MOVE", Mouse, "none", buttons)
    /\ UNCHANGED <<held, buttons>>

TouchNext ==
    \/ \E f \in Finger : FingerDown(f) \/ FingerMove(f) \/ FingerUp(f)
    \/ \E b \in MouseButton : ButtonDown(b) \/ ButtonUp(b)
    \/ MouseMove

--------------------------------------------------------------------------------
TouchTypeOK ==
    /\ held \subseteq Finger /\ buttons \subseteq MouseButton
    /\ Len(pointers) <= MaxPointers
    /\ \A i \in DOMAIN pointers :
          /\ pointers[i].id \in Pointer /\ ~pointers[i].up
          /\ pointers[i].local \in 0..MaxPointers - 1
    /\ tools \in [1..MaxPointers -> {"finger", "mouse"}]

(* No two pointers share an id, theirs or the local one, and one is kept   *)
(* exactly as long as the last message that was used about it did not lift *)
(* it, whatever was lost (PointersState.java).                             *)
PointersAreTheLastSeen ==
    /\ IsInjective([i \in DOMAIN pointers |-> pointers[i].id])
    /\ Cardinality(LocalIds(pointers)) = Len(pointers)
    /\ {pointers[i].id : i \in DOMAIN pointers} = {id \in Pointer : last[id] = "down"}

(* The application receives gestures: what is down begins and ends once,   *)
(* with the pointers that are down and no other (Controller.java:562-568,  *)
(* "the first button pressed must first generate ACTION_DOWN", and 554,     *)
(* "secondary pointers must use ACTION_POINTER_*"), as long as no message  *)
(* is lost or refused and the buttons of the mouse are not mixed with      *)
(* fingers.                                                                *)
GesturesAreLegal == ~excused => app.legal
================================================================================
