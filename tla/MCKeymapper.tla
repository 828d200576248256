----------------------------- MODULE MCKeymapper -----------------------------
(* Small instances of Keymapper: a key, one without a name, keys that are     *)
(* shortcuts as well, the three mouse buttons, and files with a line that     *)
(* does not parse, an unknown button, a shortcut and more bindings than fit.  *)
(* F11 and Page Down, not pressed, are as Page Up.                            *)
EXTENDS Keymapper, TLC

CONSTANTS a, f5, f10, f11, f12, pageUp, pageDown, delete, left, right, middle, unknown, p, q

MCKey == {a, f5, f10, f12, pageUp, delete}
MCButton == {left, right, middle}
MCPos == {p, q}

L(type, code, pos) == [type |-> type, code |-> code, pos |-> pos]

MCFiles == {
    <<L("BAD", unknown, p), L("AIM", unknown, p), L("KEY", f10, q)>>,
    <<L("KEY", a, p), L("MOUSE", middle, q), L("KEY", a, q)>>,
    <<L("MOUSE", unknown, q)>> }

(* A behaviour is followed as long as one of NoStuckTouch and                 *)
(* ButtonsStateHeld has something to say.                                     *)
Undisturbed == ~({"touch", "click"} \subseteq disturbed)

(* Once the touches are disturbed, only the aim finger is of interest, unless *)
(* it is excused as well, and how many keys are held.  Until then, the keys   *)
(* that no file binds are alike.  Positions are only copied and decide        *)
(* nothing, nor do they tell two bindings apart: what these files load to     *)
(* never names a key or a button twice.  The capture decides nothing.         *)
Shape(list) == [i \in DOMAIN list |-> [list[i] EXCEPT !.pos = p]]
Unbound == {f5, f12, pageUp}

View ==
    <<count, editMode, fpsMode, aimFingerDown, dragging, selected, heldButtons,
      Cardinality(heldKeys), buttonsState, Shape(file), aimOrphaned,
      IF "touch" \in disturbed
      THEN <<disturbed \ {"mouse"}, Shape(bindings),
             IF aimOrphaned THEN {} ELSE down \cap {AimPid}>>
      ELSE <<disturbed, Shape(bindings), heldKeys \ Unbound, down>> >>
==============================================================================
