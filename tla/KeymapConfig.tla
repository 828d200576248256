----------------------------- MODULE KeymapConfig -----------------------------
(***************************************************************************)
(* The key bindings of the keymapper (app/src/keymapper.c) as values: what *)
(* a line of keymap.cfg is parsed to, what is written back, and the lookup *)
(* functions.  A line is reduced to its type, the key or button it names   *)
(* and a position; a line that is not a binding has type "BAD".  The types *)
(* DPAD, SCROLL and MACRO, that no input handler looks up, are "OTHER".    *)
(***************************************************************************)
EXTENDS Integers, Sequences, SequencesExt

CONSTANTS
    Key,          \* keycodes whose name km_name_to_keycode() knows
    Button,       \* mouse buttons: km_name_to_mouse()
    Left,         \* SDL_BUTTON_LEFT: selects and drags; an unknown button is
                  \*   saved as this one
    Right,        \* SDL_BUTTON_RIGHT: removes
    Unknown,      \* SDLK_UNKNOWN, or mouse button 0
    Pos,          \* positions on the screen
    MaxBindings,  \* KM_MAX_BINDINGS
    BlankBase,    \* 100: offset of the pointer ids of bindings added by hand
    AimPid,       \* 200: SC_POINTER_ID_AIM_FINGER
    MousePid      \* 1: SC_POINTER_ID_MOUSE, as the ids are 64 bits that wrap

ASSUME ConfigConstantsOK ==
    /\ Unknown \notin Key \cup Button
    /\ Left \in Button /\ Right \in Button /\ Left # Right
    /\ Pos # {}
    /\ MaxBindings \in Nat \ {0}
    /\ BlankBase \in Nat
    /\ AimPid \in Nat
    /\ MousePid \in Nat \ {AimPid}

Code == Key \cup Button \cup {Unknown}
BindingType == {"KEY", "MOUSE", "AIM", "OTHER"}
Line == [type : BindingType \cup {"BAD"}, code : Code, pos : Pos]
Binding == [type : BindingType, code : Code, pos : Pos, pid : Nat]

(* Mutation: the pointer id is not incremented.                            *)
Parsed_SamePid(line, n) ==
    [type |-> line.type, code |-> line.code, pos |-> line.pos, pid |-> 1]

(* Pointer ids are relative to SC_POINTER_ID_GENERIC_FINGER.  Every line   *)
(* that is neither a comment nor empty uses one up, binding or not.        *)
Parsed(line, n) ==
    [type |-> line.type, code |-> line.code, pos |-> line.pos, pid |-> n]

IsBinding(line) == line.type \in BindingType

(* km_load_config(): the array after one more line, unless it is full.     *)
Grow(bindings, line, n) ==
    IF IsBinding(line) /\ Len(bindings) < MaxBindings
    THEN Append(bindings, Parsed(line, n))
    ELSE bindings

(* The array after each line, and after the last one.                      *)
Loaded(lines) ==
    LET loaded[n \in 0..Len(lines)] ==
            IF n = 0 THEN <<>> ELSE Grow(loaded[n - 1], lines[n], n)
    IN  loaded

Load(lines) == Loaded(lines)[Len(lines)]

(* Mutation: a middle button is written "left", as an unknown one is.      *)
Written_OnlyRight(b) ==
    LET code == IF b.type = "MOUSE" /\ b.code # Right THEN Left ELSE b.code
    IN  [type |-> b.type, code |-> code, pos |-> b.pos]

(* km_save_config(), binding by binding.  A key without a name leaves an   *)
(* empty field, and the line does not parse any more; an unknown mouse     *)
(* button is written "left"; AIM and OTHER are written with a fixed name   *)
(* that is no key (except that a MACRO keeps its key, that nothing uses).  *)
Written(b) ==
    LET type == IF b.type = "KEY" /\ b.code = Unknown THEN "BAD" ELSE b.type
        code == CASE b.type = "MOUSE" /\ b.code = Unknown -> Left
                  [] b.type \in {"AIM", "OTHER"} -> Unknown
                  [] OTHER -> b.code
    IN  [type |-> type, code |-> code, pos |-> b.pos]

Save(bindings) == [n \in 1..Len(bindings) |-> Written(bindings[n])]

(* km_find_key(), km_find_mouse_binding(), km_find_aim(): the first match, *)
(* as a set of at most one binding.                                        *)
FirstMatch(bindings, Test(_)) ==
    {bindings[n] : n \in {i \in 1..Len(bindings) :
                             /\ Test(bindings[i])
                             /\ \A j \in 1..(i - 1) : ~Test(bindings[j])}}

FindKey(bindings, k) ==
    FirstMatch(bindings, LAMBDA b : b.type = "KEY" /\ b.code = k)

FindMouse(bindings, button) ==
    FirstMatch(bindings, LAMBDA b : b.type = "MOUSE" /\ b.code = button)

FindAim(bindings) == FirstMatch(bindings, LAMBDA b : b.type = "AIM")

(* The placeholder that a middle click adds.                               *)
Blank(pos, count) ==
    [type |-> "KEY", code |-> Unknown, pos |-> pos, pid |-> BlankBase + count]

(* Bindings survive being saved and loaded: every key, and the aim, is     *)
(* found at the same place; so is every button unless a button with an     *)
(* unknown name was saved as "left".                                       *)
PlaceOf(b) == [type |-> b.type, pos |-> b.pos]
Place(found) == {PlaceOf(b) : b \in found}

Survives(bindings) ==
    LET reloaded == Load(Save(bindings))
        namedButtons == \A n \in 1..Len(bindings) :
                            bindings[n].type = "MOUSE" => bindings[n].code # Unknown
    IN  /\ \A k \in Key : Place(FindKey(reloaded, k)) = Place(FindKey(bindings, k))
        /\ Place(FindAim(reloaded)) = Place(FindAim(bindings))
        /\ namedButtons =>
              \A m \in Button :
                  Place(FindMouse(reloaded, m)) = Place(FindMouse(bindings, m))
===============================================================================
