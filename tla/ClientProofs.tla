------------------------------ MODULE ClientProofs ------------------------------
(***************************************************************************)
(* Proofs about the client (MCClient), for any configurations, any number  *)
(* of clipboards, gamepads, slots and inputs, any setups and sizes of the  *)
(* video, any sizes of the sound: what the device has down is what the     *)
(* input manager thinks (Input), a report only reaches the device that was *)
(* opened for its gamepad (Hid), a paste does not overtake its clipboard   *)
(* (both); the frames reach the screen in order, the window fits what it   *)
(* displays, and the sound is played in order (Video, Screen, Audio; their *)
(* steps are in PlaybackProofs); a command line that is accepted means the *)
(* same to the program and to the device (Options).                        *)
(***************************************************************************)
EXTENDS MCClient, PlaybackProofs

(***************************************************************************)
(* The input manager                                                       *)
(***************************************************************************)

PressedKeys == {<<>>} \cup (config.keys \X config.mods)
ImState == [vfinger : BOOLEAN, buttons : SUBSET Buttons, last : PressedKeys, again : {0, 1},
            sequence : 1..(MaxSequence + 1), disconnected : BOOLEAN, paused : BOOLEAN]

(* A message that no paste waits for and that waits for no clipboard.      *)
Unordered(m) == m.type # "HID_KEY" /\ (m.type = "SET_CLIPBOARD" => m.arg = 0)
AllUnordered(msgs) == \A i \in DOMAIN msgs : Unordered(msgs[i])

MouseInv ==
    /\ finger = im.vfinger /\ (Relative => ~im.vfinger)
    /\ ~Relative /\ ~im.disconnected => im.buttons \subseteq physical
    /\ config.camera => im.buttons = {}
OutInv == /\ PasteFollowsClipboard
          /\ \A i \in DOMAIN out : out[i].type = "HID_KEY" => config.keyboard # "sdk"
InputTypes == config \in Configs /\ im \in ImState /\ repeat \in 0..1 /\ physical \subseteq Buttons
InputInv == InputTypes /\ MouseInv /\ OutInv

LEMMA ConfigIs ==
    ASSUME config \in Configs
    PROVE  /\ config.keyboard \in {"none", "sdk", "uhid", "aoa"}
           /\ config.mouse \in {"none", "sdk", "relative"}
           /\ \A shift \in BOOLEAN :
                 config.click[shift] \in {"click", "disabled", "BACK_OR_SCREEN_ON", "HOME",
                                          "APP_SWITCH", "panel"}
  BY InputOK DEF InputOK

--------------------------------------------------------------------------------
(* What the controller accepts of one or two messages                      *)

LEMMA Appended ==
    ASSUME NEW m1, NEW m2
    PROVE  Append(<<>>, m1) = <<m1>> /\ Append(<<m1>>, m2) = <<m1, m2>>
<1>1. Append(<<>>, m1) = <<m1>>
  OBVIOUS
<1>2. Append(<<m1>>, m2) = <<m1, m2>>
  <2>1. <<m1>> \in Seq({m1, m2}) /\ <<m1, m2>> \in Seq({m1, m2}) /\ Len(<<m1, m2>>) = 2
    OBVIOUS
  <2>2. /\ Append(<<m1>>, m2) \in Seq({m1, m2}) /\ Len(Append(<<m1>>, m2)) = 2
        /\ Append(<<m1>>, m2)[1] = m1 /\ Append(<<m1>>, m2)[2] = m2
    BY <2>1, AppendProperties
  <2>3. \A i \in 1..2 : Append(<<m1>>, m2)[i] = <<m1, m2>>[i]
    BY <2>2
  <2> QED BY <2>1, <2>2, <2>3, SeqEqual
<1> QED BY <1>1, <1>2

LEMMA Concatenated ==
    ASSUME NEW m1, NEW m2
    PROVE  <<>> \o <<m1>> = <<m1>> /\ <<m1>> \o <<m2>> = <<m1, m2>>
<1>0. <<m1>> \in Seq({m1, m2}) /\ <<m2>> \in Seq({m1, m2}) /\ <<m1, m2>> \in Seq({m1, m2})
  OBVIOUS
<1>1. <<>> \o <<m1>> = <<m1>>
  BY <1>0, ConcatEmptySeq
<1>2. <<m1>> \o <<m2>> = <<m1, m2>>
  <2>1. /\ <<m1>> \o <<m2>> \in Seq({m1, m2}) /\ Len(<<m1>> \o <<m2>>) = 2
        /\ (<<m1>> \o <<m2>>)[1] = m1 /\ (<<m1>> \o <<m2>>)[2] = m2
    BY <1>0, ConcatProperties
  <2>2. Len(<<m1, m2>>) = 2 /\ \A i \in 1..2 : (<<m1>> \o <<m2>>)[i] = <<m1, m2>>[i]
    BY <2>1
  <2> QED BY <1>0, <2>1, <2>2, SeqEqual
<1> QED BY <1>1, <1>2

LEMMA AcceptedNone == Accepted(<<>>) = {<<>>}
<1> DEFINE f == [n \in {0} |-> {<<>>}]
           Step(g) == [n \in 0..Len(<<>>) |->
                         IF n = 0 THEN {<<>>}
                         ELSE g[n - 1] \cup {Append(sent, <<>>[n]) : sent \in g[n - 1]}]
<1>1. Len(<<>>) = 0 /\ 0..0 = {0}
  OBVIOUS
<1>2. f = Step(f)
  BY <1>1
<1> DEFINE g == CHOOSE g : g = Step(g)
<1>3. g = Step(g)
  BY <1>2
<1>4. g[0] = {<<>>}
  BY <1>1, <1>3
<1>5. Accepted(<<>>) = g[Len(<<>>)]
  BY DEF Accepted
<1> QED BY <1>1, <1>4, <1>5

LEMMA AcceptedOne ==
    ASSUME NEW m
    PROVE  Accepted(<<m>>) = {<<>>, <<m>>}
<1> DEFINE msgs == <<m>>
           Step(g) == [n \in 0..Len(msgs) |->
                         IF n = 0 THEN {<<>>}
                         ELSE g[n - 1] \cup {Append(sent, msgs[n]) : sent \in g[n - 1]}]
           f == [n \in 0..1 |-> IF n = 0 THEN {<<>>} ELSE {<<>>, <<m>>}]
<1>1. Len(msgs) = 1 /\ msgs[1] = m /\ Append(<<>>, m) = <<m>>
  OBVIOUS
<1>2. f = Step(f)
  <2>1. {Append(sent, msgs[1]) : sent \in f[0]} = {<<m>>}
    BY <1>1
  <2>2. f[1] = f[1 - 1] \cup {Append(sent, msgs[1]) : sent \in f[1 - 1]}
    BY <2>1
  <2>3. \A n \in 0..1 : n = 0 \/ n = 1
    OBVIOUS
  <2> QED BY <1>1, <2>2, <2>3
<1> DEFINE g == CHOOSE g : g = Step(g)
<1>3. g = Step(g)
  BY <1>2
<1> HIDE DEF g, msgs
<1>3a. g = [n \in 0..1 |-> IF n = 0 THEN {<<>>}
                          ELSE g[n - 1] \cup {Append(sent, msgs[n]) : sent \in g[n - 1]}]
  BY <1>1, <1>3
<1>4. g[0] = {<<>>}
  BY <1>3a
<1>5. g[1] = g[0] \cup {Append(sent, m) : sent \in g[0]}
  <2>1. g[1] = g[1 - 1] \cup {Append(sent, msgs[1]) : sent \in g[1 - 1]}
    <3>1. 1 \in 0..1 /\ 1 # 0
      OBVIOUS
    <3> QED BY <1>3a, <3>1, Zenon
  <2> QED BY <1>1, <2>1
<1>6. Accepted(msgs) = g[Len(msgs)]
  BY DEF Accepted, g
<1> QED BY <1>1, <1>4, <1>5, <1>6 DEF msgs

LEMMA AcceptedTwo ==
    ASSUME NEW m1, NEW m2
    PROVE  Accepted(<<m1, m2>>) = {<<>>, <<m1>>, <<m2>>, <<m1, m2>>}
<1> DEFINE msgs == <<m1, m2>>
           Step(g) == [n \in 0..Len(msgs) |->
                         IF n = 0 THEN {<<>>}
                         ELSE g[n - 1] \cup {Append(sent, msgs[n]) : sent \in g[n - 1]}]
           one == {<<>>, <<m1>>}
           two == {<<>>, <<m1>>, <<m2>>, <<m1, m2>>}
           f == [n \in 0..2 |-> IF n = 0 THEN {<<>>} ELSE IF n = 1 THEN one ELSE two]
<1>1. Len(msgs) = 2 /\ msgs[1] = m1 /\ msgs[2] = m2
  OBVIOUS
<1>a. /\ Append(<<>>, m1) = <<m1>> /\ Append(<<>>, m2) = <<m2>>
      /\ Append(<<m1>>, m2) = <<m1, m2>>
  BY Appended
<1>2. {<<>>} \cup {Append(sent, m1) : sent \in {<<>>}} = one
  BY <1>a
<1>3. one \cup {Append(sent, m2) : sent \in one} = two
  BY <1>a
<1>4. f = Step(f)
  <2>1. f[0] = {<<>>} /\ f[1] = one /\ f[2] = two
    OBVIOUS
  <2> HIDE DEF f, one, two, msgs
  <2>2. f[1] = f[1 - 1] \cup {Append(sent, msgs[1]) : sent \in f[1 - 1]}
    <3>1. f[1 - 1] = {<<>>} /\ msgs[1] = m1
      BY <1>1, <2>1
    <3> QED BY <1>2, <2>1, <3>1
  <2>3. f[2] = f[2 - 1] \cup {Append(sent, msgs[2]) : sent \in f[2 - 1]}
    BY <1>1, <1>3, <2>1
  <2>4. \A n \in 0..2 : n = 0 \/ n = 1 \/ n = 2
    OBVIOUS
  <2>5. \A n \in 0..2 : f[n] = IF n = 0 THEN {<<>>}
                                ELSE f[n - 1] \cup {Append(sent, msgs[n]) : sent \in f[n - 1]}
    BY <2>1, <2>2, <2>3, <2>4
  <2>6. DOMAIN f = 0..2 /\ f = [n \in 0..2 |-> f[n]]
    BY DEF f
  <2> QED BY <1>1, <2>5, <2>6
<1> DEFINE g == CHOOSE g : g = Step(g)
<1>5. g = Step(g)
  BY <1>4
<1> HIDE DEF g, msgs
<1>5a. g = [n \in 0..2 |-> IF n = 0 THEN {<<>>}
                          ELSE g[n - 1] \cup {Append(sent, msgs[n]) : sent \in g[n - 1]}]
  BY <1>1, <1>5
<1>6. g[0] = {<<>>}
  BY <1>5a
<1>7. g[1] = g[0] \cup {Append(sent, m1) : sent \in g[0]}
  <2>1. g[1] = g[1 - 1] \cup {Append(sent, msgs[1]) : sent \in g[1 - 1]}
    <3>1. 1 \in 0..2 /\ 1 # 0
      OBVIOUS
    <3> QED BY <1>5a, <3>1, Zenon
  <2> QED BY <1>1, <2>1
<1>8. g[2] = g[1] \cup {Append(sent, m2) : sent \in g[1]}
  <2>1. g[2] = g[2 - 1] \cup {Append(sent, msgs[2]) : sent \in g[2 - 1]}
    <3>1. 2 \in 0..2 /\ 2 # 0
      OBVIOUS
    <3> QED BY <1>5a, <3>1, Zenon
  <2> QED BY <1>1, <2>1
<1>9. Accepted(msgs) = g[Len(msgs)]
  BY DEF Accepted, g
<1> HIDE DEF one, two
<1>10. g[2] = two
  BY <1>2, <1>3, <1>6, <1>7, <1>8
<1> QED BY <1>1, <1>9, <1>10 DEF two, msgs

(* What is sent when nothing waits for anything.                           *)
LEMMA UnorderedOut ==
    ASSUME AllUnordered(out')
    PROVE  OutInv'
  BY DEF AllUnordered, Unordered, OutInv, PasteFollowsClipboard

LEMMA SendsNone == ASSUME Sends(<<>>) PROVE AllUnordered(out')
  BY AcceptedNone DEF Sends, AllUnordered

LEMMA SendsOne ==
    ASSUME NEW m, Unordered(m), Sends(<<m>>)
    PROVE  AllUnordered(out')
<1>1. out' \in {<<>>, <<m>>}
  BY AcceptedOne DEF Sends
<1> QED BY <1>1 DEF AllUnordered

LEMMA SendsTwo ==
    ASSUME NEW m1, NEW m2, Unordered(m1), Unordered(m2), Sends(<<m1, m2>>)
    PROVE  AllUnordered(out')
<1>1. out' \in {<<>>, <<m1>>, <<m2>>, <<m1, m2>>}
  BY AcceptedTwo DEF Sends
<1> QED BY <1>1 DEF AllUnordered

LEMMA SendsNothing == ASSUME out' = <<>> PROVE AllUnordered(out')
  BY DEF AllUnordered

--------------------------------------------------------------------------------
(* The keys                                                                *)

(* Counting a key changes nothing of the mouse nor of the clipboard.       *)
LEMMA KeyCountedIs ==
    ASSUME InputTypes, NEW e, e.key \in config.keys, e.mods \in config.mods
    PROVE  /\ KeyCounted(e) \in ImState
           /\ KeyCounted(e).vfinger = im.vfinger /\ KeyCounted(e).buttons = im.buttons
           /\ KeyCounted(e).sequence = im.sequence
           /\ KeyCounted(e).disconnected = im.disconnected
<1>1. im \in ImState
  BY DEF InputTypes
<1>2. <<e.key, e.mods>> \in PressedKeys
  BY DEF PressedKeys
<1> QED BY <1>1, <1>2 DEF KeyCounted, ImState

(* A step that does not concern the mouse.                                 *)
LEMMA MouseKept ==
    ASSUME MouseInv, UNCHANGED <<config, finger, physical>>,
           im'.vfinger = im.vfinger, im'.buttons = im.buttons,
           im'.disconnected = im.disconnected \/ im'.disconnected
    PROVE  MouseInv'
  BY DEF MouseInv, Relative

LEMMA RowMsg ==
    \A keys, shift, up, repeats, keyboard, msg :
       Row(keys, shift, up, repeats, keyboard, msg).msg = msg
  BY DEF Row

(* No shortcut sends a HID report, nor a clipboard that a paste waits for. *)
LEMMA ShortcutIs ==
    ASSUME NEW again, NEW row \in Shortcuts(again)
    PROVE  row.msg \notin {"HID_KEY", "SET_CLIPBOARD"}
<1> DEFINE IsRow(msgs) == \E msg \in msgs : \E keys, shift, up, repeats, keyboard :
                              row = Row(keys, shift, up, repeats, keyboard, msg)
           Names == {"RESET_VIDEO", "CAMERA_SET_TORCH", "CAMERA_ZOOM_OUT", "CAMERA_ZOOM_IN",
                     "HOME", "BACK", "APP_SWITCH", "MENU", "POWER", "VOLUME_DOWN", "VOLUME_UP",
                     "COLLAPSE_PANELS", "EXPAND_NOTIFICATION_PANEL", "EXPAND_SETTINGS_PANEL",
                     "GET_CLIPBOARD_COPY", "GET_CLIPBOARD_CUT", "INJECT_TEXT",
                     "SET_CLIPBOARD_PASTE", "SET_DISPLAY_POWER", "ROTATE_DEVICE",
                     "OPEN_HARD_KEYBOARD_SETTINGS"}
<1>1. CASE row = Row({"R"}, {TRUE}, FALSE, FALSE, FALSE, "RESET_VIDEO")
  <2>1. IsRow(Names)
    BY <1>1, Zenon
  <2> QED BY <2>1, RowMsg
<1>2. CASE row \in CameraShortcuts
  <2>1. IsRow(Names)
    BY <1>2, Zenon DEF CameraShortcuts
  <2> QED BY <2>1, RowMsg
<1>3. CASE row \in KeycodeShortcuts
  <2>1. IsRow(Names)
    BY <1>3, Zenon DEF KeycodeShortcuts
  <2> QED BY <2>1, RowMsg
<1>4. CASE row \in PanelShortcuts(again)
  <2>1. IsRow(Names)
    BY <1>4, Zenon DEF PanelShortcuts
  <2> QED BY <2>1, RowMsg
<1>5. CASE row \in ClipboardShortcuts
  <2>1. IsRow(Names)
    BY <1>5, Zenon DEF ClipboardShortcuts
  <2> QED BY <2>1, RowMsg
<1>6. CASE row \in DeviceShortcuts
  <2>1. IsRow(Names)
    BY <1>6, Zenon DEF DeviceShortcuts
  <2> QED BY <2>1, RowMsg
<1> QED BY <1>1, <1>2, <1>3, <1>4, <1>5, <1>6 DEF Shortcuts

(* The keyboard of the SDK, alone or after the clipboard without number.   *)
LEMMA SdkKeyIs ==
    ASSUME InputTypes, NEW e, NEW before, SdkKey(e, before),
           before = <<>> \/ before = <<Msg("SET_CLIPBOARD", 0)>>
    PROVE  repeat' \in 0..1 /\ AllUnordered(out')
<1>1. repeat' \in 0..1
  BY DEF SdkKey, InputTypes
<1> DEFINE m == Msg("INJECT_KEYCODE", [key |-> e.key, down |-> e.down,
                                      repeat |-> IF e.repeat THEN 1 ELSE 0])
           clip == Msg("SET_CLIPBOARD", 0)
<1>2. Sends(before \o <<m>>) \/ out' = before
  BY DEF SdkKey
<1>3. Unordered(m) /\ Unordered(clip)
  BY DEF Unordered, Msg
<1> HIDE DEF m, clip
<1>4. <<>> \o <<m>> = <<m>> /\ <<clip>> \o <<m>> = <<clip, m>>
  BY Concatenated
<1>5. CASE out' = before
  <2>1. out' = <<>> \/ out' = <<clip>>
    BY <1>5 DEF clip
  <2>2. DOMAIN <<clip>> = {1} /\ <<clip>>[1] = clip /\ DOMAIN <<>> = {}
    OBVIOUS
  <2> QED BY <1>1, <1>3, <2>1, <2>2, Zenon DEF AllUnordered
<1>6. CASE Sends(before \o <<m>>)
  <2>1. CASE before = <<>>
    <3>1. Sends(<<m>>)
      BY <1>4, <1>6, <2>1, Zenon
    <3> QED BY <1>1, <1>3, <3>1, SendsOne
  <2>2. CASE before = <<clip>>
    <3>1. Sends(<<clip, m>>)
      BY <1>4, <1>6, <2>2, Zenon
    <3> QED BY <1>1, <1>3, <3>1, SendsTwo
  <2> QED BY <2>1, <2>2 DEF clip
<1> QED BY <1>1, <1>2, <1>5, <1>6

(* A paste waits for the request just accepted.                            *)
LEMMA KeyToDeviceStep ==
    ASSUME InputTypes, NEW e, e.key \in config.keys, e.mods \in config.mods, UNCHANGED config,
           config.keyboard # "none", KeyToDevice(e)
    PROVE  /\ im' \in ImState /\ repeat' \in 0..1 /\ OutInv'
           /\ im'.vfinger = im.vfinger /\ im'.buttons = im.buttons
           /\ im'.disconnected = im.disconnected
<1> DEFINE counted == KeyCounted(e)
<1>0. /\ counted \in ImState
      /\ counted.vfinger = im.vfinger /\ counted.buttons = im.buttons
      /\ counted.sequence = im.sequence /\ counted.disconnected = im.disconnected
  BY KeyCountedIs
<1>t. /\ repeat \in 0..1 /\ im.sequence \in 1..(MaxSequence + 1) /\ MaxSequence \in Nat
  BY InputOK DEF InputTypes, ImState, InputOK
<1>1. CASE im' = counted /\ (IF config.keyboard = "sdk" THEN SdkKey(e, <<>>)
                             ELSE out' = <<Msg("HID_KEY", 0)>> /\ UNCHANGED repeat)
  <2>1. CASE config.keyboard = "sdk"
    BY <1>0, <1>1, <2>1, SdkKeyIs, UnorderedOut
  <2>2. CASE config.keyboard # "sdk"
    <3>1. out' = <<Msg("HID_KEY", 0)>> /\ UNCHANGED repeat
      BY <1>1, <2>2
    <3>2. OutInv'
      BY <2>2, <3>1 DEF OutInv, PasteFollowsClipboard, Msg
    <3> QED BY <1>0, <1>1, <1>t, <3>1, <3>2
  <2> QED BY <2>1, <2>2
<1>2. CASE im' = counted /\ Sends(<<Msg("INJECT_TEXT", "clipboard")>>) /\ UNCHANGED repeat
  <2>1. Unordered(Msg("INJECT_TEXT", "clipboard"))
    BY DEF Unordered, Msg
  <2> QED BY <1>0, <1>2, <1>t, <2>1, SendsOne, UnorderedOut
<1>3. CASE ClipboardRefused(e)
  BY <1>0, <1>3, <1>t, SendsNothing, UnorderedOut DEF ClipboardRefused
<1> DEFINE number == IF config.keyboard = "aoa" THEN im.sequence ELSE 0
           clip == <<Msg("SET_CLIPBOARD", number)>>
<1>4. CASE /\ im.sequence <= MaxSequence
           /\ im' = [counted EXCEPT !.sequence = counted.sequence + IF number > 0 THEN 1 ELSE 0]
           /\ IF config.keyboard = "sdk" THEN SdkKey(e, clip)
              ELSE out' = clip \o <<Msg("HID_KEY", number)>> /\ UNCHANGED repeat
  <2> HIDE DEF counted
  <2>1. /\ im' = [counted EXCEPT !.sequence = im'.sequence]
        /\ im'.sequence = im.sequence + IF number > 0 THEN 1 ELSE 0
    BY <1>0, <1>4 DEF ImState
  <2>2. im'.sequence \in 1..(MaxSequence + 1)
    BY <1>4, <1>t, <2>1
  <2>3. /\ im' \in ImState
        /\ im'.vfinger = im.vfinger /\ im'.buttons = im.buttons
        /\ im'.disconnected = im.disconnected
    BY <1>0, <2>1, <2>2 DEF ImState
  <2>4. CASE config.keyboard = "sdk"
    <3>1. clip = <<Msg("SET_CLIPBOARD", 0)>> /\ SdkKey(e, clip)
      BY <1>4, <2>4
    <3> QED BY <2>3, <3>1, SdkKeyIs, UnorderedOut
  <2>5. CASE config.keyboard # "sdk"
    <3>1. /\ out' = <<Msg("SET_CLIPBOARD", number), Msg("HID_KEY", number)>>
          /\ UNCHANGED repeat
      BY <1>4, <2>5
    <3>2. number \in Nat /\ (number > 0 => number = im'.sequence - 1)
      BY <1>t, <2>1
    <3> HIDE DEF number
    <3>3. PasteFollowsClipboard'
      <4>1. /\ DOMAIN out' = 1..2 /\ out'[1] = Msg("SET_CLIPBOARD", number)
            /\ out'[2] = Msg("HID_KEY", number)
        BY <3>1
      <4>2. /\ out'[1].type = "SET_CLIPBOARD" /\ out'[1].arg = number
            /\ out'[2].type = "HID_KEY" /\ out'[2].arg = number
        BY <4>1 DEF Msg
      <4>3. ASSUME NEW i \in 1..2
            PROVE  /\ out'[i].type = "HID_KEY" /\ out'[i].arg > 0 =>
                         /\ i > 1 /\ out'[i - 1] = Msg("SET_CLIPBOARD", out'[i].arg)
                         /\ out'[i].arg = im'.sequence - 1
                   /\ out'[i].type = "SET_CLIPBOARD" /\ out'[i].arg > 0 =>
                         out'[i].arg = im'.sequence - 1
        <5>1. CASE i = 1
          BY <3>2, <4>2, <5>1
        <5>2. CASE i = 2
          BY <3>2, <4>1, <4>2, <5>2
        <5> QED BY <5>1, <5>2
      <4> QED BY <4>1, <4>3 DEF PasteFollowsClipboard
    <3>4. OutInv'
      BY <2>5, <3>3 DEF OutInv
    <3> QED BY <1>t, <2>3, <3>1, <3>4
  <2> QED BY <2>4, <2>5
<1> QED BY <1>1, <1>2, <1>3, <1>4 DEF KeyToDevice

LEMMA KeyStep ==
    ASSUME InputInv, NEW e, e.key \in config.keys, e.mods \in config.mods, Key(e)
    PROVE  InputInv'
<1>0. InputTypes /\ MouseInv /\ OutInv
  BY DEF InputInv
<1>1. CASE CaptureKey(e.down)
  <2>1. out' = <<>> /\ UNCHANGED <<config, im, repeat, finger, physical>>
    BY <1>1 DEF CaptureKey, IgnoredEvent
  <2>2. OutInv'
    BY <2>1, SendsNothing, UnorderedOut
  <2>3. InputTypes'
    BY <1>0, <2>1 DEF InputTypes, ImState, PressedKeys
  <2> QED BY <1>0, <2>1, <2>2, <2>3, MouseKept DEF InputInv
<1>2. CASE ProcessKey(e)
  <2> DEFINE counted == KeyCounted(e)
  <2>0. /\ counted \in ImState
        /\ counted.vfinger = im.vfinger /\ counted.buttons = im.buttons
        /\ counted.sequence = im.sequence /\ counted.disconnected = im.disconnected
    BY <1>0, KeyCountedIs
  <2>1. UNCHANGED <<config, finger, physical>>
    BY <1>2 DEF ProcessKey
  <2>2. /\ im' \in ImState /\ repeat' \in 0..1 /\ OutInv'
        /\ im'.vfinger = im.vfinger /\ im'.buttons = im.buttons
        /\ im'.disconnected = im.disconnected
    <3>1. CASE IsShortcut(e)
      <4>1. /\ im' = counted \/ \E b \in BOOLEAN : im' = [counted EXCEPT !.paused = b]
            /\ UNCHANGED repeat
            /\ \/ out' = <<>>
               \/ \E m \in ShortcutMessages(e) : out' = <<m>>
        BY <1>2, <3>1 DEF ProcessKey
      <4>2. /\ im' \in ImState /\ im'.vfinger = im.vfinger /\ im'.buttons = im.buttons
            /\ im'.disconnected = im.disconnected
        <5> HIDE DEF counted
        <5> QED BY <2>0, <4>1 DEF ImState
      <4>3. ASSUME NEW m \in ShortcutMessages(e) PROVE Unordered(m)
        <5>1. PICK row \in Shortcuts(KeyCounted(e).again) : m = Msg(row.msg, e.down)
          BY DEF ShortcutMessages
        <5> QED BY <5>1, ShortcutIs DEF Unordered, Msg
      <4>4. AllUnordered(out')
        BY <4>1, <4>3 DEF AllUnordered
      <4> QED BY <1>0, <4>1, <4>2, <4>4, UnorderedOut DEF InputTypes
    <3>2. CASE ~IsShortcut(e) /\ (config.keyboard = "none" \/ im.paused)
      <4>1. im' = counted /\ out' = <<>> /\ UNCHANGED repeat
        BY <1>2, <3>2 DEF ProcessKey
      <4> QED BY <1>0, <2>0, <4>1, SendsNothing, UnorderedOut DEF InputTypes
    <3>3. CASE ~IsShortcut(e) /\ ~(config.keyboard = "none" \/ im.paused)
      <4>1. KeyToDevice(e)
        BY <1>2, <3>3 DEF ProcessKey
      <4> QED BY <1>0, <2>1, <3>3, <4>1, KeyToDeviceStep
    <3> QED BY <3>1, <3>2, <3>3
  <2>3. InputTypes'
    BY <1>0, <2>1, <2>2 DEF InputTypes, ImState, PressedKeys
  <2> QED BY <1>0, <2>1, <2>2, <2>3, MouseKept DEF InputInv
<1> QED BY <1>1, <1>2 DEF Key

--------------------------------------------------------------------------------
(* The mouse, and the other events                                         *)

(* An event that only sends.                                               *)
LEMMA SendsOnly ==
    ASSUME InputInv, UNCHANGED <<config, im, repeat, finger, physical>>, AllUnordered(out')
    PROVE  InputInv'
<1>1. InputTypes' /\ MouseInv'
  BY DEF InputInv, InputTypes, MouseInv, ImState, PressedKeys, Relative
<1> QED BY <1>1, UnorderedOut DEF InputInv

LEMMA BoundIs ==
    ASSUME NEW binding \in {"disabled", "BACK_OR_SCREEN_ON", "HOME", "APP_SWITCH", "panel"},
           NEW down, NEW twice, Sends(BoundMessages(binding, down, twice))
    PROVE  AllUnordered(out')
<1> DEFINE panel == Msg(IF twice THEN "EXPAND_SETTINGS_PANEL" ELSE "EXPAND_NOTIFICATION_PANEL",
                        TRUE)
<1>1. Unordered(panel)
  BY DEF Unordered, Msg
<1>2. binding \in {"BACK_OR_SCREEN_ON", "HOME", "APP_SWITCH"} => Unordered(Msg(binding, down))
  BY DEF Unordered, Msg
<1>3. CASE binding = "disabled"
  <2>1. BoundMessages(binding, down, twice) = <<>>
    BY <1>3 DEF BoundMessages
  <2> QED BY <2>1, SendsNone
<1>4. CASE binding \in {"BACK_OR_SCREEN_ON", "HOME", "APP_SWITCH"}
  <2>1. BoundMessages(binding, down, twice) \in {<<>>, <<Msg(binding, down)>>}
    BY <1>4 DEF BoundMessages
  <2> QED BY <1>2, <1>4, <2>1, SendsNone, SendsOne
<1>5. CASE binding = "panel"
  <2>1. BoundMessages(binding, down, twice) \in {<<>>, <<panel>>}
    BY <1>5 DEF BoundMessages
  <2> HIDE DEF panel
  <2> QED BY <1>1, <2>1, SendsNone, SendsOne
<1> QED BY <1>3, <1>4, <1>5

(* The flag of the virtual finger and the finger of the device change      *)
(* together, or not at all.                                                *)
LEMMA VirtualFingerIs ==
    ASSUME InputTypes, NEW down \in BOOLEAN, NEW pressed \in SUBSET Buttons, NEW c, Unordered(c),
           VirtualFinger(down, pressed, <<c>>)
    PROVE  /\ im' \in ImState /\ im'.buttons = pressed /\ im'.disconnected = im.disconnected
           /\ (im'.vfinger = im.vfinger /\ finger' = finger) \/ im'.vfinger = finger'
           /\ AllUnordered(out')
<1>1. PICK ok \in BOOLEAN :
         /\ finger' = IF ok THEN down ELSE finger
         /\ im' = [im EXCEPT !.buttons = pressed, !.vfinger = IF ok THEN down ELSE im.vfinger]
         /\ out' \in {sent \o (IF ok THEN <<Msg(IF down THEN "DOWN" ELSE "UP", "virtual")>>
                               ELSE <<>>) : sent \in Accepted(<<c>>)}
  BY DEF VirtualFinger, InputTypes, ImState
<1>2. /\ im' \in ImState /\ im'.buttons = pressed /\ im'.disconnected = im.disconnected
      /\ (im'.vfinger = im.vfinger /\ finger' = finger) \/ im'.vfinger = finger'
  <2>1. im \in ImState
    BY DEF InputTypes
  <2> QED BY <1>1, <2>1 DEF ImState
<1> DEFINE v == Msg(IF down THEN "DOWN" ELSE "UP", "virtual")
<1>3. Unordered(v)
  BY DEF Unordered, Msg
<1> HIDE DEF v
<1>4. PICK sent \in {<<>>, <<c>>} : out' = sent \o (IF ok THEN <<v>> ELSE <<>>)
  BY <1>1, AcceptedOne DEF v
<1>5. out' \in {<<>>, <<c>>, <<v>>, <<c, v>>}
  <2>1. <<>> \o <<v>> = <<v>> /\ <<c>> \o <<v>> = <<c, v>>
    BY Concatenated
  <2>2. <<>> \o <<>> = <<>> /\ <<c>> \o <<>> = <<c>>
    <3>1. <<c>> \in Seq({c}) /\ <<>> \in Seq({c})
      OBVIOUS
    <3> QED BY <3>1, ConcatEmptySeq
  <2>3. CASE ok
    BY <1>4, <2>1, <2>3
  <2>4. CASE ~ok
    BY <1>4, <2>2, <2>4
  <2> QED BY <2>3, <2>4
<1>6. AllUnordered(out')
  BY <1>3, <1>5 DEF AllUnordered
<1> QED BY <1>2, <1>6

LEMMA ButtonStep ==
    ASSUME InputInv, NEW button \in Buttons, NEW down \in BOOLEAN, NEW mods, NEW place,
           Button(button, down, mods, place)
    PROVE  InputInv'
<1>0. InputTypes /\ MouseInv /\ OutInv
  BY DEF InputInv
<1>t. /\ im \in ImState /\ config \in Configs /\ repeat \in 0..1 /\ physical \subseteq Buttons
      /\ im.buttons \subseteq Buttons
  BY <1>0 DEF InputTypes, ImState
<1>p. physical' = IF down THEN physical \cup {button} ELSE physical \ {button}
  BY DEF Button
<1>q. physical' \subseteq Buttons
  BY <1>p, <1>t
<1>1. CASE Relative /\ ~capture.active
  <2>1. out' = <<>> /\ UNCHANGED <<config, im, repeat, finger>>
    BY <1>1 DEF Button, IgnoredEvent
  <2>2. InputTypes'
    BY <1>0, <1>q, <2>1 DEF InputTypes, ImState, PressedKeys
  <2>3. MouseInv'
    BY <1>0, <1>1, <2>1 DEF MouseInv, Relative
  <2> QED BY <2>1, <2>2, <2>3, SendsNothing, UnorderedOut DEF InputInv
<1>2. CASE ProcessButton(button, down, mods, place)
  <2> DEFINE buttons == ReleasedOr(button, down)
             pressed == IF down THEN buttons \cup {button} ELSE buttons
             binding == Binding(button, "shift" \in mods)
             changes == /\ button = "left" /\ config.mouse = "sdk"
                        /\ \/ down /\ ~im.vfinger /\ mods \cap {"ctrl", "shift"} # {}
                           \/ ~down /\ im.vfinger
             click == Msg(IF down THEN "DOWN" ELSE "UP", Pointer(im.vfinger \/ changes))
  <2>1. UNCHANGED <<config, repeat>>
    BY <1>2 DEF ProcessButton
  <2>c. Unordered(click)
    BY DEF Unordered, Msg
  <2>b. /\ buttons \subseteq Buttons /\ pressed \subseteq Buttons
        /\ im.buttons \subseteq physical => pressed \subseteq physical' /\ buttons \subseteq physical'
    BY <1>p, <1>t DEF ReleasedOr
  <2>2. CASE config.camera \/ im.disconnected
    <3>1. out' = <<>> /\ UNCHANGED <<im, finger>>
      BY <1>2, <2>2 DEF ProcessButton
    <3>2. InputTypes'
      BY <1>0, <1>q, <2>1, <3>1 DEF InputTypes, ImState, PressedKeys
    <3>3. MouseInv'
      BY <1>0, <2>1, <2>2, <3>1 DEF MouseInv, Relative
    <3> QED BY <3>1, <3>2, <3>3, SendsNothing, UnorderedOut DEF InputInv
  <2>3. CASE /\ ~(config.camera \/ im.disconnected)
             /\ im' = [im EXCEPT !.buttons = buttons] /\ UNCHANGED finger
             /\ \/ out' = <<>>
                \/ binding # "click" /\ Sends(BoundMessages(binding, down, place # "inside"))
    <3> HIDE DEF buttons
    <3>1. /\ im' \in ImState /\ im'.vfinger = im.vfinger /\ im'.buttons = buttons
          /\ im'.disconnected = im.disconnected
      BY <1>t, <2>3, <2>b DEF ImState
    <3>2. InputTypes'
      BY <1>0, <1>q, <2>1, <3>1 DEF InputTypes, ImState, PressedKeys
    <3>3. MouseInv'
      BY <1>0, <2>1, <2>3, <2>b, <3>1 DEF MouseInv, Relative
    <3>4. AllUnordered(out')
      <4>1. binding # "click" => binding \in {"disabled", "BACK_OR_SCREEN_ON", "HOME",
                                              "APP_SWITCH", "panel"}
        <5>1. ("shift" \in mods) \in BOOLEAN
          OBVIOUS
        <5>2. \A shift \in BOOLEAN :
                 config.click[shift] \in {"click", "disabled", "BACK_OR_SCREEN_ON", "HOME",
                                          "APP_SWITCH", "panel"}
          BY <1>t, ConfigIs
        <5>3. config.click["shift" \in mods] \in {"click", "disabled", "BACK_OR_SCREEN_ON",
                                                 "HOME", "APP_SWITCH", "panel"}
          BY <5>1, <5>2, Zenon
        <5> QED BY <5>3 DEF Binding
      <4> HIDE DEF binding
      <4> QED BY <2>3, <4>1, BoundIs, SendsNothing
    <3> QED BY <3>2, <3>3, <3>4, UnorderedOut DEF InputInv
  <2>4. CASE ~(config.camera \/ im.disconnected) /\ changes /\ VirtualFinger(down, pressed, <<click>>)
    <3>0. config.mouse = "sdk"
      BY <2>4
    <3> HIDE DEF buttons, pressed, click, changes
    <3>1. /\ im' \in ImState /\ im'.buttons = pressed /\ im'.disconnected = im.disconnected
          /\ (im'.vfinger = im.vfinger /\ finger' = finger) \/ im'.vfinger = finger'
          /\ AllUnordered(out')
      BY <1>0, <2>4, <2>b, <2>c, VirtualFingerIs
    <3>2. InputTypes'
      BY <1>0, <1>q, <2>1, <3>1 DEF InputTypes, ImState, PressedKeys
    <3>3. MouseInv'
      BY <1>0, <2>1, <2>4, <2>b, <3>0, <3>1 DEF MouseInv, Relative
    <3> QED BY <3>1, <3>2, <3>3, UnorderedOut DEF InputInv
  <2>5. CASE /\ ~(config.camera \/ im.disconnected)
             /\ im' = [im EXCEPT !.buttons = pressed] /\ Sends(<<click>>) /\ UNCHANGED finger
    <3> HIDE DEF buttons, pressed, click
    <3>1. /\ im' \in ImState /\ im'.vfinger = im.vfinger /\ im'.buttons = pressed
          /\ im'.disconnected = im.disconnected
      BY <1>t, <2>5, <2>b DEF ImState
    <3>2. InputTypes'
      BY <1>0, <1>q, <2>1, <3>1 DEF InputTypes, ImState, PressedKeys
    <3>3. MouseInv'
      BY <1>0, <2>1, <2>5, <2>b, <3>1 DEF MouseInv, Relative
    <3> QED BY <2>5, <2>c, <3>2, <3>3, SendsOne, UnorderedOut DEF InputInv
  <2>6. QED
    BY <1>2, <2>2, <2>3, <2>4, <2>5 DEF ProcessButton
<1> QED BY <1>1, <1>2 DEF Button

LEMMA MotionStep ==
    ASSUME InputInv, MouseMotion
    PROVE  InputInv'
<1> DEFINE m == Msg(IF im.buttons = {} THEN "HOVER_MOVE" ELSE "MOVE", Pointer(im.vfinger))
           v == Msg("MOVE", "virtual")
           motion == IF im.buttons = {} /\ ~config.hover /\ config.mouse = "sdk" THEN <<>> ELSE <<m>>
           virtual == IF im.vfinger THEN <<v>> ELSE <<>>
<1>1. UNCHANGED <<config, im, repeat, finger, physical>> /\ (out' = <<>> \/ Sends(motion \o virtual))
  BY DEF MouseMotion
<1>2. Unordered(m) /\ Unordered(v)
  BY DEF Unordered, Msg
<1>3. motion \o virtual \in {<<>>, <<m>>, <<v>>, <<m, v>>}
  <2> HIDE DEF m, v
  <2>1. <<>> \o <<v>> = <<v>> /\ <<m>> \o <<v>> = <<m, v>>
    BY Concatenated
  <2>2. <<>> \o <<>> = <<>> /\ <<m>> \o <<>> = <<m>>
    <3>1. <<m>> \in Seq({m}) /\ <<>> \in Seq({m})
      OBVIOUS
    <3> QED BY <3>1, ConcatEmptySeq
  <2> QED BY <2>1, <2>2
<1> HIDE DEF m, v, motion, virtual
<1>4. AllUnordered(out')
  <2>1. CASE Sends(motion \o virtual)
    BY <1>2, <1>3, <2>1, SendsNone, SendsOne, SendsTwo
  <2> QED BY <1>1, <2>1, SendsNothing
<1> QED BY <1>1, <1>4, SendsOnly

LEMMA InputStep == InputInv /\ [InputNext]_inputVars => InputInv'
<1> SUFFICES ASSUME InputInv, [InputNext]_inputVars PROVE InputInv'
  OBVIOUS
<1>0. UNCHANGED <<config, im, repeat, finger, physical>> /\ out' = <<>> => InputInv'
  BY SendsNothing, SendsOnly
<1>1. CASE UNCHANGED inputVars
  BY <1>1 DEF inputVars, InputInv, InputTypes, ImState, PressedKeys, MouseInv,
      Relative, OutInv,
              PasteFollowsClipboard
<1>2. ASSUME NEW key \in config.keys, NEW down \in BOOLEAN, NEW again \in BOOLEAN,
             NEW mods \in config.mods,
             Key([key |-> key, down |-> down, repeat |-> again /\ down, mods |-> mods])
      PROVE  InputInv'
  <2> DEFINE e == [key |-> key, down |-> down, repeat |-> again /\ down, mods |-> mods]
  <2>1. e.key \in config.keys /\ e.mods \in config.mods /\ Key(e)
    BY <1>2
  <2> HIDE DEF e
  <2> QED BY <2>1, KeyStep
<1>3. ASSUME NEW class, NEW mods, TextInput(class, mods) PROVE InputInv'
  <2>1. UNCHANGED <<config, im, repeat, finger, physical>>
        /\ (out' = <<>> \/ Sends(<<Msg("INJECT_TEXT", class)>>))
    BY <1>3 DEF TextInput
  <2>2. Unordered(Msg("INJECT_TEXT", class))
    BY DEF Unordered, Msg
  <2> QED BY <1>0, <2>1, <2>2, SendsOne, SendsOnly
<1>4. ASSUME NEW button \in Buttons, NEW down \in BOOLEAN, NEW mods, NEW place,
             Button(button, down, mods, place)
      PROVE  InputInv'
  BY <1>4, ButtonStep
<1>5. CASE Pointing(MouseMotion)
  <2>1. CASE MouseMotion
    BY <2>1, MotionStep
  <2>2. CASE IgnoredEvent /\ UNCHANGED physical
    BY <1>0, <2>2 DEF IgnoredEvent
  <2> QED BY <1>5, <2>1, <2>2 DEF Pointing
<1>6. CASE Pointing(MouseWheel)
  <2>1. CASE MouseWheel
    <3>1. UNCHANGED <<config, im, repeat, finger, physical>>
          /\ (out' = <<>> \/ Sends(<<Msg("SCROLL", im.buttons)>>))
      BY <2>1 DEF MouseWheel
    <3>2. Unordered(Msg("SCROLL", im.buttons))
      BY DEF Unordered, Msg
    <3> QED BY <1>0, <3>1, <3>2, SendsOne, SendsOnly
  <2>2. CASE IgnoredEvent /\ UNCHANGED physical
    BY <1>0, <2>2 DEF IgnoredEvent
  <2> QED BY <1>6, <2>1, <2>2 DEF Pointing
<1>7. ASSUME NEW action \in {"DOWN", "MOVE", "UP"}, Touch(action) PROVE InputInv'
  <2>1. UNCHANGED <<config, im, repeat, finger, physical>>
        /\ (out' = <<>> \/ Sends(<<Msg(action, "touch")>>))
    BY <1>7 DEF Touch
  <2>2. Unordered(Msg(action, "touch"))
    BY DEF Unordered, Msg
  <2> QED BY <1>0, <2>1, <2>2, SendsOne, SendsOnly
<1>8. CASE FocusLost
  BY <1>0, <1>8 DEF FocusLost, IgnoredEvent
<1>9. ASSUME NEW type, Gamepad(type) PROVE InputInv'
  <2>1. UNCHANGED <<config, im, repeat, finger, physical>>
        /\ (out' = <<>> \/ Sends(<<Msg("GAMEPAD", type)>>))
    BY <1>9 DEF Gamepad
  <2>2. Unordered(Msg("GAMEPAD", type))
    BY DEF Unordered, Msg
  <2> QED BY <1>0, <2>1, <2>2, SendsOne, SendsOnly
<1>10. ASSUME NEW apk, DropFile(apk) PROVE InputInv'
  <2> DEFINE m == Msg("FILE", IF apk THEN "install" ELSE "push")
  <2>1. UNCHANGED <<config, im, repeat, finger, physical>> /\ (out' = <<>> \/ Sends(<<m>>))
    BY <1>10 DEF DropFile
  <2>2. Unordered(m)
    BY DEF Unordered, Msg
  <2> HIDE DEF m
  <2> QED BY <1>0, <2>1, <2>2, SendsOne, SendsOnly
<1>11. CASE OnDeviceDisconnected
  <2>1. /\ im' = [im EXCEPT !.disconnected = TRUE] /\ out' = <<>>
        /\ UNCHANGED <<config, repeat, finger, physical>>
    BY <1>11 DEF OnDeviceDisconnected
  <2>2. /\ im' \in ImState /\ im'.vfinger = im.vfinger /\ im'.buttons = im.buttons
        /\ im'.disconnected
    BY <2>1 DEF InputInv, InputTypes, ImState
  <2>3. InputTypes'
    BY <2>1, <2>2 DEF InputInv, InputTypes, ImState, PressedKeys
  <2>4. MouseInv'
    BY <2>1, <2>2, MouseKept DEF InputInv
  <2> QED BY <2>1, <2>3, <2>4, SendsNothing, UnorderedOut DEF InputInv
<1> QED BY <1>1, <1>2, <1>3, <1>4, <1>5, <1>6, <1>7, <1>8, <1>9, <1>10, <1>11
    DEF InputNext

LEMMA InputStarts == InputInit => InputInv
<1> SUFFICES ASSUME InputInit PROVE InputInv
  OBVIOUS
<1>1. im \in ImState
  BY InputOK DEF InputInit, ImState, PressedKeys, InputOK
<1>2. InputTypes
  BY <1>1 DEF InputInit, InputTypes
<1>3. MouseInv
  BY DEF InputInit, MouseInv
<1>4. OutInv
  BY DEF InputInit, OutInv, PasteFollowsClipboard
<1> QED BY <1>2, <1>3, <1>4 DEF InputInv

(* What is typed arrives once: the two conversions of keyboard_sdk.c agree. *)
LEMMA TypedIs == TypedOnce
<1>1. ASSUME NEW mode \in {"mixed", "text", "raw"},
             NEW class \in {"letter", "space", "number"},
             NEW mods \in SUBSET {"shift", "num"}
      PROVE  ConvertKeycode(class, mods, mode) # InjectsText(class, mode)
  BY DEF ConvertKeycode, InjectsText
<1>2. ASSUME NEW mode \in {"mixed", "text", "raw"}, NEW mods \in SUBSET {"shift", "num"}
      PROVE  ConvertKeycode("keypad", mods, mode) # (mods # {} /\ InjectsText("number", mode))
  <2>1. mods \cap {"num", "shift"} = mods /\ "ctrl" \notin mods
    OBVIOUS
  <2> QED BY <2>1 DEF ConvertKeycode, InjectsText
<1>3. ASSUME NEW mode \in {"mixed", "text", "raw"},
             NEW class \in {"letter", "space", "number", "keypad"},
             NEW mods \in SUBSET {"shift", "num"}
      PROVE  ConvertKeycode(class, mods, mode)
             # ((class = "keypad" => mods # {})
                /\ InjectsText(IF class = "keypad" THEN "number" ELSE class, mode))
  <2>1. CASE class = "keypad"
    BY <1>2, <2>1
  <2>2. CASE class # "keypad"
    <3>1. class \in {"letter", "space", "number"}
      BY <2>2
    <3>2. ConvertKeycode(class, mods, mode) # InjectsText(class, mode)
      BY <1>1, <3>1
    <3>3. InjectsText(class, mode) \in BOOLEAN
      BY DEF InjectsText
    <3> QED BY <2>2, <3>2, <3>3
  <2> QED BY <2>1, <2>2
<1> QED BY <1>3 DEF TypedOnce

LEMMA InputHolds ==
    InputInv => InputTypeOK /\ MouseStateIsTrue /\ TypedOnce /\ PasteFollowsClipboard
  BY TypedIs DEF InputInv, InputTypes, MouseInv, OutInv, ImState, InputTypeOK,
      MouseStateIsTrue

--------------------------------------------------------------------------------
(***************************************************************************)
(* The HID devices                                                         *)
(***************************************************************************)

Owner == Gamepads \cup {None, "keyboard", "mouse"}
HidEvent == [type : {"open", "close", "input"}, id : Ids, owner : Owner, ack : Nat]
CtrlEvent == [type : {"caps", "keys", "clipboard"}, id : Ids \cup {None}, owner : Owner, ack : Nat]
WireEvent == HidEvent \cup CtrlEvent
Answer == [type : {"ack"}, value : Nat] \cup [type : {"leds"}, value : BOOLEAN]
Handling == {"open", "input", "close"}

AoaState == [thread : {"none", "ready", "waiting", "closing", "ended"} \cup Handling,
             queue : Seq(HidEvent), stopped : BOOLEAN,
             event : {<<>>} \cup {<<e>> : e \in HidEvent}, open : SUBSET Ids]
DeviceState == [owner : [Ids -> Owner], reported : [Ids -> Owner], pressed : BOOLEAN,
                caps : BOOLEAN, clip : Nat]

PastState == [inputs : Nat, closeFailed : BOOLEAN, refused : BOOLEAN]
LockState == [host : BOOLEAN, known : BOOLEAN, held : BOOLEAN, answered : BOOLEAN]

(* The AOA thread has an event in hand exactly when it handles one.        *)
InHand == IF aoa.thread \in Handling
          THEN \E e \in HidEvent : aoa.event = <<e>> /\ e.type = aoa.thread
          ELSE aoa.event = <<>>

(* Over USB, only the clipboard goes through the controller.               *)
Routes ==
    /\ Aoa => \A i \in 1..Len(wire) : wire[i].type = "clipboard"
    /\ ~Aoa => aoa.thread = "none"

Types ==
    /\ slots \in [GamepadIds -> Gamepads \cup {None}]
    /\ plugged \subseteq Gamepads
    /\ aoa \in AoaState
    /\ acksync \in [ack : Nat, stopped : BOOLEAN]
    /\ wire \in Seq(WireEvent)
    /\ back \in Seq(Answer)
    /\ device \in DeviceState
    /\ caps \in LockState
    /\ sequence \in Nat \ {0}
    /\ hidPast \in PastState

TypeInv == Types /\ InHand /\ Routes

--------------------------------------------------------------------------------
(* The opens, closes and reports that are on their way                     *)

Events == IF Aoa THEN aoa.event \o aoa.queue ELSE wire

(* Whom each device is for, once they have arrived.                        *)
Holder == [id \in Ids |-> IF id = Keyboard THEN "keyboard"
                          ELSE IF id = Mouse THEN "mouse" ELSE slots[id]]

Sets(e, id) == e.type \in {"open", "close"} /\ e.id = id
Needed(e) == IF e.type = "open" THEN None ELSE e.owner

(* An open finds its device closed and a report finds it open for its      *)
(* owner, or closed if an open failed: by the last event before them that  *)
(* sets it, or by the state of the device if there is none.                *)
Orderly(s, owner) ==
    \A i \in 1..Len(s) : s[i].type \in {"open", "input"} =>
        /\ \A k \in 1..i - 1 :
              Sets(s[k], s[i].id) /\ (\A m \in k + 1..i - 1 : ~Sets(s[m], s[i].id))
              => s[k].owner = Needed(s[i])
        /\ (\A m \in 1..i - 1 : ~Sets(s[m], s[i].id)) => owner[s[i].id] \in {None, Needed(s[i])}

(* In the end, each device is that of its holder, or closed.               *)
Final(s, owner, holder) ==
    \A id \in Ids :
        /\ \A k \in 1..Len(s) :
              Sets(s[k], id) /\ (\A m \in k + 1..Len(s) : ~Sets(s[m], id))
              => s[k].owner = holder[id]
        /\ (\A m \in 1..Len(s) : ~Sets(s[m], id)) => owner[id] \in {None, holder[id]}

OwnerInv ==
    ~hidPast.closeFailed =>
        /\ Orderly(Events, device.owner)
        /\ Final(Events, device.owner, Holder)
        /\ \A id \in Ids : device.reported[id] \in {None, device.owner[id]}

(* A gamepad has one slot, while it is plugged.                            *)
SlotInv ==
    /\ \A i, j \in GamepadIds : slots[i] = slots[j] /\ slots[i] # None => i = j
    /\ \A i \in GamepadIds : slots[i] # None => slots[i] \in plugged

(* The AOA thread knows what is registered, and unregisters it.            *)
OpenInv ==
    /\ Aoa /\ ~hidPast.closeFailed =>
           \A id \in Ids : device.owner[id] # None => id \in aoa.open
    /\ aoa.thread = "ended" => aoa.open = {}

(* The last report of the lights is right.                                 *)
LightsInv ==
    \A i \in 1..Len(back) :
        /\ back[i].type = "leds"
        /\ \A j \in i + 1..Len(back) : back[j].type # "leds"
        => back[i].value = device.caps

NoLights == \A i \in 1..Len(back) : back[i].type # "leds"

(* Without one on its way, so is what the keyboard was last told.          *)
KnownInv == NoLights /\ caps.answered => caps.known = device.caps

(* The last report of the keyboard, sent or received, tells whether Caps   *)
(* Lock is held.                                                           *)
HeldInv ==
    \E k \in 0..Len(wire) :
        /\ k = 0 => (device.pressed <=> caps.held)
        /\ k > 0 => IsKeyboardReport(wire[k]) /\ (wire[k].type = "caps" <=> caps.held)
        /\ \A j \in k + 1..Len(wire) : ~IsKeyboardReport(wire[j])

(* A lock that toggles on the release still has a stroke to see, or lights *)
(* to report, when the keyboard had the last word and holds nothing.       *)
StrokeInv ==
    modes.locks = "release" /\ ~caps.answered /\ ~caps.held =>
        \/ ~NoLights \/ device.pressed
        \/ \E i \in 1..Len(wire) : wire[i].type = "caps"

CapsInv == ~hidPast.refused => LightsInv /\ KnownInv /\ HeldInv /\ StrokeInv

(* The numbers of the clipboards only grow on the way to the device and    *)
(* back.                                                                   *)
AckInv ==
    /\ acksync.ack <= device.clip /\ device.clip < sequence
    /\ \A i \in 1..Len(back) : back[i].type = "ack" => back[i].value <= device.clip
    /\ \A i \in 1..Len(wire) : wire[i].type = "clipboard" =>
          device.clip <= wire[i].ack /\ wire[i].ack < sequence
    /\ \A i, j \in 1..Len(wire) :
          i <= j /\ wire[i].type = "clipboard" /\ wire[j].type = "clipboard" =>
              wire[i].ack <= wire[j].ack

BackInv ==
    /\ \A i \in 1..Len(back) : back[i].type = "ack" => acksync.ack <= back[i].value
    /\ \A i, j \in 1..Len(back) :
          i <= j /\ back[i].type = "ack" /\ back[j].type = "ack" =>
              back[i].value <= back[j].value

(* The wait of the AOA thread is only interrupted when the queue was empty.*)
WaitInv == aoa.thread = "waiting" => aoa.queue = <<>> /\ ~aoa.stopped

--------------------------------------------------------------------------------
(* Sequences of events                                                     *)

(* A new event keeps the order if it fits the holders.                     *)
LEMMA AppendSound ==
    ASSUME NEW s \in Seq(WireEvent), NEW e \in WireEvent, NEW owner \in [Ids -> Owner],
           NEW holder \in [Ids -> Owner], NEW after \in [Ids -> Owner],
           Orderly(s, owner), Final(s, owner, holder),
           e.type \in {"open", "input"} => e.id \in Ids /\ holder[e.id] = Needed(e),
           \A id \in Ids : after[id] = IF Sets(e, id) THEN e.owner ELSE holder[id]
    PROVE  Orderly(Append(s, e), owner) /\ Final(Append(s, e), owner, after)
<1> DEFINE t == Append(s, e)
<1>1. Len(t) = Len(s) + 1 /\ t[Len(s) + 1] = e /\ \A i \in 1..Len(s) : t[i] = s[i]
  OBVIOUS
<1>2. Len(s) \in Nat
  OBVIOUS
<1> HIDE DEF t
<1>3. Orderly(t, owner)
  <2> SUFFICES ASSUME NEW i \in 1..Len(t), t[i].type \in {"open", "input"}
               PROVE  /\ \A k \in 1..i - 1 :
                            Sets(t[k], t[i].id) /\ (\A m \in k + 1..i - 1 : ~Sets(t[m], t[i].id))
                            => t[k].owner = Needed(t[i])
                      /\ (\A m \in 1..i - 1 : ~Sets(t[m], t[i].id))
                            => owner[t[i].id] \in {None, Needed(t[i])}
    BY DEF Orderly
  <2>1. CASE i \in 1..Len(s)
    <3>1. \A m \in 1..i : t[m] = s[m]
      BY <1>1, <1>2, <2>1
    <3>2. ASSUME NEW k \in 1..i - 1, Sets(t[k], t[i].id),
                 \A m \in k + 1..i - 1 : ~Sets(t[m], t[i].id)
          PROVE  t[k].owner = Needed(t[i])
      <4>1. t[i] = s[i] /\ t[k] = s[k] /\ \A m \in k + 1..i - 1 : t[m] = s[m]
        BY <3>1, <2>1
      <4>2. Sets(s[k], s[i].id) /\ \A m \in k + 1..i - 1 : ~Sets(s[m], s[i].id)
        BY <3>2, <4>1
      <4> QED
        BY <2>1, <4>1, <4>2 DEF Orderly
    <3>3. ASSUME \A m \in 1..i - 1 : ~Sets(t[m], t[i].id)
          PROVE  owner[t[i].id] \in {None, Needed(t[i])}
      <4>1. t[i] = s[i] /\ \A m \in 1..i - 1 : ~Sets(s[m], s[i].id)
        BY <3>1, <3>3, <2>1
      <4> QED
        BY <2>1, <4>1 DEF Orderly
    <3> QED
      BY <3>2, <3>3
  <2>2. CASE i = Len(s) + 1
    <3>1. t[i] = e /\ e.id \in Ids /\ holder[e.id] = Needed(e) /\ i - 1 = Len(s)
      BY <1>1, <1>2, <2>2
    <3>2. \A m \in 1..i - 1 : t[m] = s[m]
      BY <1>1, <3>1
    <3>3. ASSUME NEW k \in 1..i - 1, Sets(t[k], e.id),
                 \A m \in k + 1..i - 1 : ~Sets(t[m], e.id)
          PROVE  t[k].owner = Needed(e)
      <4>1. k \in 1..Len(s) /\ t[k] = s[k] /\ \A m \in k + 1..Len(s) : t[m] = s[m]
        BY <3>1, <3>2
      <4>2. Sets(s[k], e.id) /\ \A m \in k + 1..Len(s) : ~Sets(s[m], e.id)
        BY <3>1, <3>3, <4>1
      <4> QED
        BY <3>1, <4>1, <4>2 DEF Final
    <3>4. ASSUME \A m \in 1..i - 1 : ~Sets(t[m], e.id)
          PROVE  owner[e.id] \in {None, Needed(e)}
      BY <3>1, <3>2, <3>4 DEF Final
    <3> QED
      BY <3>1, <3>3, <3>4
  <2> QED
    BY <1>1, <1>2, <2>1, <2>2
<1>4. Final(t, owner, after)
  <2> SUFFICES ASSUME NEW id \in Ids
               PROVE  /\ \A k \in 1..Len(t) :
                            Sets(t[k], id) /\ (\A m \in k + 1..Len(t) : ~Sets(t[m], id))
                            => t[k].owner = after[id]
                      /\ (\A m \in 1..Len(t) : ~Sets(t[m], id)) => owner[id] \in {None, after[id]}
    BY DEF Final
  <2>1. CASE Sets(e, id)
    BY <1>1, <1>2, <2>1
  <2>2. CASE ~Sets(e, id)
    BY <1>1, <1>2, <2>2 DEF Final
  <2> QED
    BY <2>1, <2>2
<1> QED
  BY <1>3, <1>4 DEF t

(* So does handling the first one, even if an open fails.                  *)
LEMMA TailSound ==
    ASSUME NEW s \in Seq(WireEvent), s # <<>>, NEW owner \in [Ids -> Owner],
           NEW after \in [Ids -> Owner], NEW holder \in [Ids -> Owner],
           Orderly(s, owner), Final(s, owner, holder),
           \A id \in Ids : after[id] \in {None, IF Sets(s[1], id) THEN s[1].owner ELSE owner[id]},
           \A i \in 1..Len(s) : s[i].type \in {"open", "input"} => s[i].id \in Ids
    PROVE  Orderly(Tail(s), after) /\ Final(Tail(s), after, holder)
<1> DEFINE t == Tail(s)
<1>1. Len(t) = Len(s) - 1 /\ \A i \in 1..Len(t) : t[i] = s[i + 1]
  BY HeadTailProperties
<1>2. Len(s) \in Nat /\ Len(s) >= 1
  OBVIOUS
<1> HIDE DEF t
<1>3. Orderly(t, after)
  <2> SUFFICES ASSUME NEW i \in 1..Len(t), t[i].type \in {"open", "input"}
               PROVE  /\ \A k \in 1..i - 1 :
                            Sets(t[k], t[i].id) /\ (\A m \in k + 1..i - 1 : ~Sets(t[m], t[i].id))
                            => t[k].owner = Needed(t[i])
                      /\ (\A m \in 1..i - 1 : ~Sets(t[m], t[i].id))
                            => after[t[i].id] \in {None, Needed(t[i])}
    BY DEF Orderly
  <2>1. i + 1 \in 1..Len(s) /\ t[i] = s[i + 1] /\ t[i].id \in Ids
    BY <1>1, <1>2
  <2>2. ASSUME NEW k \in 1..i - 1, Sets(t[k], t[i].id),
               \A m \in k + 1..i - 1 : ~Sets(t[m], t[i].id)
        PROVE  t[k].owner = Needed(t[i])
    <3>1. k + 1 \in 1..(i + 1) - 1 /\ t[k] = s[k + 1]
      BY <1>1, <1>2, <2>1
    <3>2. ASSUME NEW m \in (k + 1) + 1..(i + 1) - 1 PROVE ~Sets(s[m], s[i + 1].id)
      <4>1. m - 1 \in k + 1..i - 1 /\ t[m - 1] = s[m]
        <5>1. m - 1 \in k + 1..i - 1 /\ m - 1 \in 1..Len(t) /\ (m - 1) + 1 = m
          BY <1>1, <1>2, <2>1
        <5> QED
          BY <1>1, <5>1
      <4> QED
        BY <2>1, <2>2, <4>1
    <3>3. Sets(s[k + 1], s[i + 1].id)
      BY <2>1, <2>2, <3>1
    <3>4. s[k + 1].owner = Needed(s[i + 1])
      BY <2>1, <3>1, <3>2, <3>3 DEF Orderly
    <3> QED
      BY <2>1, <3>1, <3>4
  <2>3. ASSUME \A m \in 1..i - 1 : ~Sets(t[m], t[i].id)
        PROVE  after[t[i].id] \in {None, Needed(t[i])}
    <3>1. ASSUME NEW m \in 2..(i + 1) - 1 PROVE ~Sets(s[m], s[i + 1].id)
      <4>1. m - 1 \in 1..i - 1 /\ t[m - 1] = s[m]
        BY <1>1, <1>2, <2>1
      <4> QED
        BY <2>1, <2>3, <4>1
    <3>2. CASE Sets(s[1], s[i + 1].id)
      <4>1. 1 \in 1..(i + 1) - 1 /\ (1 + 1) = 2
        BY <1>2
      <4>2. s[1].owner = Needed(s[i + 1])
        BY <2>1, <3>1, <3>2, <4>1 DEF Orderly
      <4> QED
        BY <2>1, <3>2, <4>2
    <3>3. CASE ~Sets(s[1], s[i + 1].id)
      <4>1. \A m \in 1..(i + 1) - 1 : ~Sets(s[m], s[i + 1].id)
        BY <3>1, <3>3
      <4>2. owner[s[i + 1].id] \in {None, Needed(s[i + 1])}
        BY <2>1, <4>1 DEF Orderly
      <4> QED
        BY <2>1, <3>3, <4>2
    <3> QED
      BY <3>2, <3>3
  <2> QED
    BY <2>2, <2>3
<1>4. Final(t, after, holder)
  <2> SUFFICES ASSUME NEW id \in Ids
               PROVE  /\ \A k \in 1..Len(t) :
                            Sets(t[k], id) /\ (\A m \in k + 1..Len(t) : ~Sets(t[m], id))
                            => t[k].owner = holder[id]
                      /\ (\A m \in 1..Len(t) : ~Sets(t[m], id)) => after[id] \in {None, holder[id]}
    BY DEF Final
  <2>1. ASSUME NEW k \in 1..Len(t), Sets(t[k], id), \A m \in k + 1..Len(t) : ~Sets(t[m], id)
        PROVE  t[k].owner = holder[id]
    <3>1. k + 1 \in 1..Len(s) /\ t[k] = s[k + 1]
      BY <1>1, <1>2
    <3>2. ASSUME NEW m \in (k + 1) + 1..Len(s) PROVE ~Sets(s[m], id)
      <4>1. m - 1 \in k + 1..Len(t) /\ t[m - 1] = s[m]
        BY <1>1, <1>2
      <4> QED
        BY <2>1, <4>1
    <3> QED
      BY <2>1, <3>1, <3>2 DEF Final
  <2>2. ASSUME \A m \in 1..Len(t) : ~Sets(t[m], id) PROVE after[id] \in {None, holder[id]}
    <3>1. ASSUME NEW m \in 2..Len(s) PROVE ~Sets(s[m], id)
      <4>1. m - 1 \in 1..Len(t) /\ t[m - 1] = s[m]
        BY <1>1, <1>2
      <4> QED
        BY <2>2, <4>1
    <3>2. CASE Sets(s[1], id)
      <4>1. s[1].owner = holder[id]
        BY <1>2, <3>1, <3>2 DEF Final
      <4> QED
        BY <3>2, <4>1
    <3>3. CASE ~Sets(s[1], id)
      BY <1>2, <3>1, <3>3 DEF Final
    <3> QED
      BY <3>2, <3>3
  <2> QED
    BY <2>1, <2>2
<1> QED
  BY <1>3, <1>4 DEF t

(* And so does closing a device.                                           *)
LEMMA FallSound ==
    ASSUME NEW s \in Seq(WireEvent), NEW owner \in [Ids -> Owner],
           NEW after \in [Ids -> Owner], NEW holder \in [Ids -> Owner],
           Orderly(s, owner), Final(s, owner, holder),
           \A id \in Ids : after[id] \in {None, owner[id]},
           \A i \in 1..Len(s) : s[i].type \in {"open", "input"} => s[i].id \in Ids
    PROVE  Orderly(s, after) /\ Final(s, after, holder)
<1>1. Orderly(s, after)
  BY DEF Orderly
<1>2. Final(s, after, holder)
  BY DEF Final
<1> QED
  BY <1>1, <1>2

(* Reports of the keyboard come after the others.                          *)
Keyed(s, t) ==
    /\ Len(t) \in Nat /\ Len(t) >= Len(s)
    /\ \A i \in 1..Len(s) : t[i] = s[i]
    /\ \A i \in Len(s) + 1..Len(t) : IsKeyboardReport(t[i])

(* They keep the order of the others, whatever their number.               *)
LEMMA KeyedSound ==
    ASSUME NEW s \in Seq(WireEvent), NEW t, Keyed(s, t), NEW owner, NEW holder,
           Orderly(s, owner), Final(s, owner, holder)
    PROVE  Orderly(t, owner) /\ Final(t, owner, holder)
<1>0. Len(s) \in Nat /\ Len(t) \in Nat /\ Len(t) >= Len(s)
  BY DEF Keyed
<1>1. /\ \A i \in 1..Len(s) : i \in 1..Len(t) /\ t[i] = s[i]
      /\ \A i \in 1..Len(t) : i \in 1..Len(s) \/ t[i].type \in {"caps", "keys"}
  BY <1>0 DEF Keyed, IsKeyboardReport
<1>2. Orderly(t, owner)
  <2> SUFFICES ASSUME NEW i \in 1..Len(t), t[i].type \in {"open", "input"}
               PROVE  /\ \A k \in 1..i - 1 :
                            Sets(t[k], t[i].id) /\ (\A m \in k + 1..i - 1 : ~Sets(t[m], t[i].id))
                            => t[k].owner = Needed(t[i])
                      /\ (\A m \in 1..i - 1 : ~Sets(t[m], t[i].id))
                            => owner[t[i].id] \in {None, Needed(t[i])}
    BY DEF Orderly
  <2>1. i \in 1..Len(s) /\ t[i] = s[i] /\ \A m \in 1..i - 1 : t[m] = s[m]
    BY <1>0, <1>1
  <2>2. \A k \in 1..i - 1 : \A m \in k + 1..i - 1 : t[m] = s[m]
    BY <2>1
  <2>3. /\ \A k \in 1..i - 1 :
              Sets(s[k], s[i].id) /\ (\A m \in k + 1..i - 1 : ~Sets(s[m], s[i].id))
              => s[k].owner = Needed(s[i])
        /\ (\A m \in 1..i - 1 : ~Sets(s[m], s[i].id)) => owner[s[i].id] \in {None, Needed(s[i])}
    BY <2>1 DEF Orderly
  <2> QED
    BY <2>1, <2>2, <2>3
<1>3. Final(t, owner, holder)
  <2> SUFFICES ASSUME NEW id \in Ids
               PROVE  /\ \A k \in 1..Len(t) :
                            Sets(t[k], id) /\ (\A m \in k + 1..Len(t) : ~Sets(t[m], id))
                            => t[k].owner = holder[id]
                      /\ (\A m \in 1..Len(t) : ~Sets(t[m], id)) => owner[id] \in {None, holder[id]}
    BY DEF Final
  <2>1. ASSUME NEW k \in 1..Len(t), Sets(t[k], id), \A m \in k + 1..Len(t) : ~Sets(t[m], id)
        PROVE  t[k].owner = holder[id]
    <3>1. k \in 1..Len(s) /\ t[k] = s[k]
      BY <1>1, <2>1 DEF Sets
    <3>2. \A m \in k + 1..Len(s) : m \in k + 1..Len(t) /\ t[m] = s[m]
      BY <1>0, <1>1, <3>1
    <3> QED
      BY <2>1, <3>1, <3>2 DEF Final
  <2>2. ASSUME \A m \in 1..Len(t) : ~Sets(t[m], id) PROVE owner[id] \in {None, holder[id]}
    BY <1>1, <2>2 DEF Final
  <2> QED
    BY <2>1, <2>2
<1> QED
  BY <1>2, <1>3

--------------------------------------------------------------------------------
(* Types                                                                   *)

(* The ids of the devices differ.                                          *)
LEMMA IdsAreNumbers == Ids \subseteq Nat \ {0} /\ Keyboard \in Ids /\ Mouse \in Ids
                       /\ GamepadIds \subseteq Ids /\ Keyboard \notin GamepadIds
                       /\ Mouse \notin GamepadIds
  BY HidAssumption DEF HidAssumption, Ids, GamepadIds, Keyboard, Mouse

(* What the client sends has the type of an event.                         *)
LEMMA EventTypes ==
    /\ \A id \in Ids, o \in Owner, n \in Nat :
          Open(id, o) \in HidEvent /\ Close(id) \in HidEvent /\ Report(id, o, n) \in HidEvent
    /\ Caps \in CtrlEvent /\ Keys \in CtrlEvent
    /\ \A n \in Nat : [type |-> "clipboard", id |-> None, owner |-> None, ack |-> n] \in CtrlEvent
<1>1. None \in Owner /\ "keyboard" \in Owner /\ Keyboard \in Ids
  BY IdsAreNumbers DEF Owner
<1> QED
  BY <1>1 DEF Open, Close, Report, Caps, Keys, HidEvent, CtrlEvent

(* The device keeps its types, whatever it is told.                        *)
LEMMA DeviceTypes ==
    ASSUME device \in DeviceState, NEW e \in HidEvent
    PROVE  Sent(e) \in DeviceState /\ Opened(e) \in DeviceState /\ Closed(e.id) \in DeviceState
<1>1. e.id \in Ids /\ e.owner \in Owner /\ None \in Owner
  BY DEF HidEvent, Owner
<1>2. Sent(e) \in DeviceState
  BY <1>1 DEF Sent, DeviceState
<1>3. Opened(e) \in DeviceState
  BY <1>1 DEF Opened, DeviceState
<1>4. Closed(e.id) \in DeviceState
  BY <1>1 DEF Closed, DeviceState
<1> QED
  BY <1>2, <1>3, <1>4

(* Also when it is only told to forget a device.                           *)
LEMMA ClosedTypes ==
    ASSUME device \in DeviceState, NEW id \in Ids
    PROVE  Closed(id) \in DeviceState
<1>1. None \in Owner
  BY DEF Owner
<1> QED
  BY <1>1 DEF Closed, DeviceState

(* A push over USB keeps the types.                                        *)
LEMMA PushTypes ==
    ASSUME aoa \in AoaState, NEW e \in HidEvent, PushAoa(e)
    PROVE  /\ aoa' \in AoaState
           /\ aoa'.event = aoa.event
           /\ aoa'.thread = aoa.thread \/ {aoa.thread, aoa'.thread} = {"waiting", "ready"}
<1>1. CASE aoa' = aoa
  BY <1>1
<1>2. CASE aoa' = [aoa EXCEPT !.queue = Append(@, e),
                              !.thread = IF @ = "waiting" /\ aoa.queue = <<>> THEN "ready" ELSE @]
  <2>1. Append(aoa.queue, e) \in Seq(HidEvent)
    BY DEF AoaState
  <2> QED
    BY <1>2, <2>1 DEF AoaState
<1> QED
  BY <1>1, <1>2 DEF PushAoa

(* And so does a push to the controller.                                   *)
LEMMA UhidTypes ==
    ASSUME wire \in Seq(WireEvent), hidPast \in PastState, NEW e \in WireEvent, PushUhid(e)
    PROVE  wire' \in Seq(WireEvent) /\ hidPast' \in PastState
<1>1. CASE wire' = Append(wire, e) /\ hidPast' = [hidPast EXCEPT !.inputs = @ + 1]
  <2>1. hidPast.inputs + 1 \in Nat
    BY DEF PastState
  <2> QED
    BY <1>1, <2>1 DEF PastState
<1>2. CASE wire' = wire /\ hidPast' = [hidPast EXCEPT !.inputs = @ + 1, !.refused = TRUE]
  <2>1. hidPast.inputs + 1 \in Nat
    BY DEF PastState
  <2>2. hidPast' \in PastState
    BY <1>2, <2>1 DEF PastState
  <2> QED
    BY <1>2, <2>2
<1> QED
  BY <1>1, <1>2 DEF PushUhid

(* And so does one of them.                                                *)
LEMMA SendTypes ==
    ASSUME TypeInv, NEW e \in HidEvent, Send(e), UNCHANGED modes
    PROVE  /\ aoa' \in AoaState /\ wire' \in Seq(WireEvent)
           /\ hidPast' \in PastState
           /\ InHand' /\ Routes'
<1>1. CASE Aoa
  <2>1. /\ aoa' \in AoaState /\ aoa'.event = aoa.event
        /\ aoa'.thread = aoa.thread \/ {aoa.thread, aoa'.thread} = {"waiting", "ready"}
    BY <1>1, PushTypes DEF Send, TypeInv, Types
  <2>2. InHand'
    BY <2>1 DEF InHand, Handling, TypeInv
  <2>3. Routes' /\ wire' \in Seq(WireEvent)
    BY <1>1 DEF Send, Routes, Aoa, TypeInv, Types
  <2>4. hidPast' \in PastState
    BY <1>1 DEF Send, TypeInv, Types, PastState
  <2> QED
    BY <2>1, <2>2, <2>3, <2>4
<1>2. CASE ~Aoa
  <2>1. PushUhid(e) /\ UNCHANGED aoa
    BY <1>2 DEF Send
  <2>2. InHand' /\ Routes' /\ aoa' \in AoaState
    BY <1>2, <2>1 DEF InHand, Routes, Aoa, TypeInv, Types
  <2>3. e \in WireEvent
    BY DEF WireEvent
  <2>4. wire' \in Seq(WireEvent) /\ hidPast' \in PastState
    BY <2>1, <2>3, UhidTypes DEF TypeInv, Types
  <2> QED
    BY <2>2, <2>4
<1> QED
  BY <1>1, <1>2

(* The gamepad events, with the slot that they take.                       *)
LEMMA FreeSlot ==
    ASSUME NEW g, NEW i \in GenerateOpen(g)
    PROVE  i \in GamepadIds /\ slots[i] = None
  BY DEF GenerateOpen, First, SlotsOf

(* The slot of a gamepad is given back.                                    *)
LEMMA HeldSlot ==
    ASSUME NEW g, NEW i \in First(SlotsOf(g))
    PROVE  i \in GamepadIds /\ slots[i] = g
  BY DEF First, SlotsOf

(* One report after another, each of which may be refused.                 *)
LEMMA KeyReports ==
    ASSUME TypeInv, UhidKey
    PROVE  LET mods == IF caps.host = caps.known THEN <<>> ELSE <<Caps>>
               report == IF caps.held THEN Caps ELSE Keys IN
           /\ \/ wire' \in {wire, Append(wire, Caps)} /\ hidPast'.refused
              \/ wire' = Append(wire, report)
                 /\ (caps.host = caps.known \/ hidPast'.refused)
              \/ wire' = Append(Append(wire, Caps), report)
           /\ hidPast' \in PastState /\ (hidPast.refused => hidPast'.refused)
           /\ hidPast'.closeFailed = hidPast.closeFailed
<1> USE DEF TypeInv, Types
<1> DEFINE report == IF caps.held THEN Caps ELSE Keys
           mods == IF caps.host = caps.known THEN <<>> ELSE <<Caps>>
<1>0. Caps \in WireEvent /\ report \in WireEvent
  BY EventTypes DEF WireEvent
<1>1. PICK first \in {<<>>, mods}, second \in {<<>>, <<report>>} :
         /\ wire' = wire \o first \o second
         /\ hidPast' = [hidPast EXCEPT !.inputs = @ + 1,
                                       !.refused = @ \/ <<first, second>> # <<mods, <<report>> >>]
  BY DEF UhidKey
<1>2. /\ hidPast' \in PastState /\ (hidPast.refused => hidPast'.refused)
      /\ hidPast'.closeFailed = hidPast.closeFailed
      /\ first # mods \/ second # <<report>> => hidPast'.refused
  <2>1. hidPast.inputs + 1 \in Nat
    BY DEF PastState
  <2> HIDE DEF mods, report
  <2> QED
    BY <1>1, <2>1 DEF PastState
<1>3. /\ wire \o <<>> = wire /\ Append(wire, Caps) \in Seq(WireEvent)
      /\ \A w \in Seq(WireEvent), e \in WireEvent : w \o <<e>> = Append(w, e)
      /\ \A w \in Seq(WireEvent) : w \o <<>> = w
  BY <1>0, ConcatEmptySeq, AppendIsConcat
<1>4. first \in {<<>>, <<Caps>>} /\ (first = <<Caps>> => caps.host # caps.known)
  <2>1. <<Caps>> # <<>>
    OBVIOUS
  <2> QED
    BY <1>1, <2>1
<1>5. second = <<>> => hidPast'.refused
  <2>1. <<report>> # <<>>
    OBVIOUS
  <2> QED
    BY <1>2, <2>1
<1>6. first = <<>> => caps.host = caps.known \/ hidPast'.refused
  <2>1. <<Caps>> # <<>>
    OBVIOUS
  <2> QED
    BY <1>2, <2>1
<1> HIDE DEF mods, report
<1>7. \/ wire' \in {wire, Append(wire, Caps)} /\ hidPast'.refused
      \/ wire' = Append(wire, report) /\ (caps.host = caps.known \/ hidPast'.refused)
      \/ wire' = Append(Append(wire, Caps), report)
  BY <1>0, <1>1, <1>3, <1>4, <1>5, <1>6
<1> QED
  BY <1>2, <1>7 DEF report

(* The keyboard over UHID keeps the types, and adds reports of the keyboard.*)
LEMMA KeysTypes ==
    ASSUME TypeInv, UhidCapsPress \/ UhidCapsRelease \/ UhidKey
    PROVE  /\ caps' \in LockState /\ wire' \in Seq(WireEvent) /\ hidPast' \in PastState
           /\ Keyed(wire, wire') /\ (hidPast.refused => hidPast'.refused)
           /\ hidPast'.closeFailed = hidPast.closeFailed
<1> USE DEF TypeInv, Types
<1>0. /\ Caps \in WireEvent /\ Keys \in WireEvent
      /\ IsKeyboardReport(Caps) /\ IsKeyboardReport(Keys)
  BY EventTypes DEF WireEvent, IsKeyboardReport, Caps, Keys
<1>1. caps' \in LockState
  <2>1. CASE UhidCapsPress
    BY <2>1 DEF UhidCapsPress, LockState
  <2>2. CASE UhidCapsRelease
    BY <2>2 DEF UhidCapsRelease, LockState
  <2>3. CASE UhidKey
    BY <2>3 DEF UhidKey, LockState
  <2> QED
    BY <2>1, <2>2, <2>3
<1>2. ASSUME NEW e \in {Caps, Keys}
      PROVE  Append(wire, e) \in Seq(WireEvent) /\ Keyed(wire, Append(wire, e))
  BY <1>0 DEF Keyed
<1>3. ASSUME NEW e \in {Caps, Keys}, NEW f \in {Caps, Keys}
      PROVE  /\ Append(Append(wire, e), f) \in Seq(WireEvent)
             /\ Keyed(wire, Append(Append(wire, e), f))
  BY <1>0 DEF Keyed
<1>4. Keyed(wire, wire)
  BY DEF Keyed
<1>5. CASE UhidCapsPress \/ UhidCapsRelease
  <2>1. PICK e \in {Caps, Keys} : PushUhid(e)
    BY <1>5 DEF UhidCapsPress, UhidCapsRelease
  <2>2. wire' \in Seq(WireEvent) /\ hidPast' \in PastState
    BY <1>0, <2>1, UhidTypes
  <2>3. wire' \in {wire, Append(wire, e)}
    BY <2>1 DEF PushUhid
  <2>4. (hidPast.refused => hidPast'.refused) /\ hidPast'.closeFailed = hidPast.closeFailed
    BY <2>1 DEF PushUhid, PastState
  <2> QED
    BY <1>1, <1>2, <1>4, <2>2, <2>3, <2>4
<1>6. CASE UhidKey
  <2>1. /\ \/ wire' = wire
           \/ \E e \in {Caps, Keys} : wire' = Append(wire, e)
           \/ \E e, f \in {Caps, Keys} : wire' = Append(Append(wire, e), f)
        /\ hidPast' \in PastState /\ (hidPast.refused => hidPast'.refused)
        /\ hidPast'.closeFailed = hidPast.closeFailed
    BY <1>6, KeyReports
  <2>2. wire' \in Seq(WireEvent) /\ Keyed(wire, wire')
    BY <1>2, <1>3, <1>4, <2>1
  <2> QED
    BY <1>1, <2>1, <2>2
<1> QED
  BY <1>5, <1>6

(* What the main thread does keeps the types.                              *)
LEMMA MainTypes ==
    ASSUME TypeInv,
           \/ \E g \in Gamepads : GamepadAdded(g) \/ GamepadRemoved(g) \/ GamepadInput(g)
           \/ MouseInput \/ Paste \/ UhidCapsPress \/ UhidCapsRelease \/ UhidKey
    PROVE  TypeInv'
<1> USE DEF TypeInv, Types
<1>1. ASSUME NEW g \in Gamepads, GamepadAdded(g)
      PROVE  TypeInv'
  <2>1. CASE UNCHANGED <<slots, aoa, wire, hidPast>>
    BY <1>1, <2>1 DEF GamepadAdded, InHand, Routes, Aoa
  <2>2. ASSUME NEW i \in GenerateOpen(g), slots' = [slots EXCEPT ![i] = g], Send(Open(i, g))
        PROVE  TypeInv'
    <3>1. Open(i, g) \in HidEvent
      BY EventTypes, IdsAreNumbers, FreeSlot, <2>2 DEF Owner
    <3>2. /\ aoa' \in AoaState /\ wire' \in Seq(WireEvent)
          /\ hidPast' \in PastState
          /\ InHand' /\ Routes'
      BY <1>1, <2>2, <3>1, SendTypes DEF GamepadAdded
    <3> QED
      BY <1>1, <2>2, <3>2 DEF GamepadAdded
  <2> QED
    BY <1>1, <2>1, <2>2 DEF GamepadAdded
<1>2. ASSUME NEW g \in Gamepads, GamepadRemoved(g)
      PROVE  TypeInv'
  <2>1. CASE UNCHANGED <<slots, aoa, wire, hidPast>>
    BY <1>2, <2>1 DEF GamepadRemoved, InHand, Routes, Aoa
  <2>2. ASSUME NEW i \in First(SlotsOf(g)), slots' = [slots EXCEPT ![i] = None], Send(Close(i))
        PROVE  TypeInv'
    <3>1. Close(i) \in HidEvent
      BY EventTypes, IdsAreNumbers, HeldSlot, <2>2 DEF Owner
    <3>2. /\ aoa' \in AoaState /\ wire' \in Seq(WireEvent)
          /\ hidPast' \in PastState
          /\ InHand' /\ Routes'
      BY <1>2, <2>2, <3>1, SendTypes DEF GamepadRemoved
    <3> QED
      BY <1>2, <2>2, <3>2 DEF GamepadRemoved
  <2> QED
    BY <1>2, <2>1, <2>2 DEF GamepadRemoved
<1>3. ASSUME NEW g \in Gamepads, GamepadInput(g)
      PROVE  TypeInv'
  <2>1. PICK i \in First(SlotsOf(g)) : Send(Report(i, g, 0))
    BY <1>3 DEF GamepadInput
  <2>2. Report(i, g, 0) \in HidEvent
    BY EventTypes, IdsAreNumbers, HeldSlot DEF Owner
  <2>3. /\ aoa' \in AoaState /\ wire' \in Seq(WireEvent)
        /\ hidPast' \in PastState
        /\ InHand' /\ Routes'
    BY <1>3, <2>1, <2>2, SendTypes DEF GamepadInput
  <2> QED
    BY <1>3, <2>3 DEF GamepadInput
<1>4. CASE MouseInput
  <2>1. Report(Mouse, "mouse", 0) \in HidEvent
    BY EventTypes, IdsAreNumbers DEF Owner
  <2>2. /\ aoa' \in AoaState /\ wire' \in Seq(WireEvent)
        /\ hidPast' \in PastState
        /\ InHand' /\ Routes'
    BY <1>4, <2>1, SendTypes DEF MouseInput
  <2> QED
    BY <1>4, <2>2 DEF MouseInput
<1>5. CASE Paste
  <2> DEFINE clipboard == [type |-> "clipboard", id |-> None, owner |-> None, ack |-> sequence]
  <2>1. Report(Keyboard, "keyboard", sequence) \in HidEvent /\ clipboard \in CtrlEvent
    BY EventTypes, IdsAreNumbers DEF Owner
  <2>2. Aoa /\ wire' = Append(wire, clipboard) /\ clipboard.type = "clipboard"
    BY <1>5 DEF Paste
  <2>3. clipboard \in WireEvent
    BY <2>1 DEF WireEvent
  <2> HIDE DEF clipboard
  <2>4. wire' \in Seq(WireEvent) /\ \A i \in 1..Len(wire') : wire'[i].type = "clipboard"
    BY <2>2, <2>3 DEF Routes
  <2>5. /\ aoa' \in AoaState /\ aoa'.event = aoa.event
        /\ aoa'.thread = aoa.thread \/ {aoa.thread, aoa'.thread} = {"waiting", "ready"}
    BY <1>5, <2>1, PushTypes DEF Paste
  <2>6. InHand'
    BY <2>5 DEF InHand, Handling
  <2>7. Routes'
    BY <1>5, <2>2, <2>4 DEF Paste, Routes, Aoa
  <2>8. hidPast' \in PastState /\ sequence' \in Nat \ {0}
    BY <1>5 DEF Paste, PastState
  <2> QED
    BY <1>5, <2>4, <2>5, <2>6, <2>7, <2>8 DEF Paste
<1>6. CASE UhidCapsPress \/ UhidCapsRelease \/ UhidKey
  <2>1. ~Aoa /\ UNCHANGED <<modes, slots, plugged, aoa, acksync, back, device, sequence>>
    BY <1>6 DEF UhidCapsPress, UhidCapsRelease, UhidKey
  <2>2. caps' \in LockState /\ wire' \in Seq(WireEvent) /\ hidPast' \in PastState
    BY <1>6, KeysTypes
  <2> QED
    BY <2>1, <2>2 DEF InHand, Routes, Aoa
<1> QED
  BY <1>1, <1>2, <1>3, <1>4, <1>5, <1>6

(* The AOA thread with an event in hand, and when it is done with it.      *)
LEMMA HandedEvent ==
    ASSUME TypeInv, aoa.thread \in Handling
    PROVE  /\ aoa.event[1] \in HidEvent /\ aoa.event[1].type = aoa.thread
           /\ aoa.event = <<aoa.event[1]>> /\ Aoa
  BY DEF TypeInv, InHand, Routes, Handling

(* The thread is done with its event, and keeps its types.                 *)
LEMMA ProcessedTypes ==
    ASSUME TypeInv, aoa.thread \in Handling, UNCHANGED <<modes, wire>>,
           \/ aoa' = Processed
           \/ aoa' = [aoa EXCEPT !.thread = "closing", !.event = <<>>]
           \/ \E id \in Ids : aoa' = [Processed EXCEPT !.open = @ \cup {id}]
           \/ \E id \in Ids : aoa' = [Processed EXCEPT !.open = @ \ {id}]
    PROVE  aoa' \in AoaState /\ InHand' /\ Routes'
<1>1. /\ aoa'.thread \in {"ready", "closing"} /\ aoa'.event = <<>>
      /\ aoa' \in AoaState
  <2> USE DEF Processed, AoaState, TypeInv, Types
  <2>1. CASE aoa' = Processed
    BY <2>1
  <2>2. CASE aoa' = [aoa EXCEPT !.thread = "closing", !.event = <<>>]
    BY <2>2
  <2>3. ASSUME NEW id \in Ids, aoa' = [Processed EXCEPT !.open = @ \cup {id}]
        PROVE  aoa' \in AoaState /\ aoa'.thread = "ready" /\ aoa'.event = <<>>
    BY <2>3
  <2>4. ASSUME NEW id \in Ids, aoa' = [Processed EXCEPT !.open = @ \ {id}]
        PROVE  aoa' \in AoaState /\ aoa'.thread = "ready" /\ aoa'.event = <<>>
    BY <2>4
  <2> QED
    BY <2>1, <2>2, <2>3, <2>4
<1>2. InHand'
  BY <1>1 DEF InHand, Handling
<1>3. Routes'
  BY HandedEvent DEF Routes, Aoa, TypeInv
<1> QED
  BY <1>1, <1>2, <1>3

(* And so it does when it takes one, ends or waits.                        *)
LEMMA TakenTypes ==
    ASSUME TypeInv, AoaTake
    PROVE  aoa' \in AoaState /\ InHand' /\ Routes'
<1> USE DEF TypeInv, Types
<1>0. Aoa /\ UNCHANGED <<modes, wire>> /\ aoa.event = <<>>
  BY DEF AoaTake, OnlyAoa, Routes, InHand, Handling
<1>1. CASE aoa' = [aoa EXCEPT !.thread = "closing"]
  BY <1>0, <1>1 DEF InHand, Routes, Handling, AoaState, Aoa
<1>2. CASE aoa' = [aoa EXCEPT !.thread = "waiting"]
  BY <1>0, <1>2 DEF InHand, Routes, Handling, AoaState, Aoa
<1>3. CASE /\ aoa.queue # <<>>
           /\ aoa' = [aoa EXCEPT !.thread = Head(aoa.queue).type, !.queue = Tail(@),
                                 !.event = <<Head(aoa.queue)>>]
  <2>1. Head(aoa.queue) \in HidEvent /\ Tail(aoa.queue) \in Seq(HidEvent)
    BY <1>3, HeadTailProperties DEF AoaState
  <2>2. Head(aoa.queue).type \in Handling
    BY <2>1 DEF HidEvent, Handling
  <2>3. aoa' \in AoaState
    BY <1>3, <2>1, <2>2 DEF AoaState
  <2>4. aoa'.thread = Head(aoa.queue).type /\ aoa'.event = <<Head(aoa.queue)>>
    BY <1>3 DEF AoaState
  <2>5. InHand'
    BY <2>1, <2>2, <2>4 DEF InHand
  <2>6. Routes'
    BY <1>0 DEF Routes, Aoa
  <2> QED
    BY <2>3, <2>5, <2>6
<1> QED
  BY <1>1, <1>2, <1>3 DEF AoaTake

(* A failure is only noted.                                                *)
LEMMA FailedClose == ASSUME TypeInv PROVE [hidPast EXCEPT !.closeFailed = TRUE] \in PastState
  BY DEF TypeInv, Types, PastState

(* So does what the AOA thread does.                                       *)
LEMMA AoaTypes ==
    ASSUME TypeInv,
           \/ StopAoa \/ InterruptAcksync \/ AoaTake \/ AoaSpuriousWakeup
           \/ AoaInput \/ AoaOpen \/ AoaClose \/ AoaUnregister
    PROVE  TypeInv'
<1> USE DEF TypeInv, Types
<1>1. CASE StopAoa
  <2>1. aoa' \in AoaState /\ aoa'.event = aoa.event
        /\ (aoa'.thread = aoa.thread \/ {aoa.thread, aoa'.thread} = {"waiting", "ready"})
    BY <1>1 DEF StopAoa, AoaState
  <2> QED
    BY <1>1, <2>1 DEF StopAoa, InHand, Routes, Aoa, Handling
<1>2. CASE InterruptAcksync
  BY <1>2 DEF InterruptAcksync, InHand, Routes, Aoa
<1>3. CASE AoaTake
  BY <1>3, TakenTypes DEF AoaTake, OnlyAoa
<1>4. CASE AoaSpuriousWakeup
  <2>1. aoa' \in AoaState /\ aoa'.event = aoa.event /\ aoa.thread = "waiting"
        /\ aoa'.thread = "ready"
    BY <1>4 DEF AoaSpuriousWakeup, AoaState
  <2> QED
    BY <1>4, <2>1 DEF AoaSpuriousWakeup, OnlyAoa, InHand, Routes, Aoa, Handling
<1>5. CASE AoaInput
  <2> DEFINE e == aoa.event[1]
  <2>1. aoa.thread \in Handling /\ e \in HidEvent
    BY <1>5, HandedEvent DEF AoaInput, Handling
  <2>2. device' \in DeviceState
    BY <1>5, <2>1, DeviceTypes DEF AoaInput
  <2>3. aoa' \in AoaState /\ InHand' /\ Routes'
    BY <1>5, <2>1, ProcessedTypes DEF AoaInput, OnlyAoa
  <2> QED
    BY <1>5, <2>2, <2>3 DEF AoaInput, OnlyAoa
<1>6. CASE AoaOpen
  <2> DEFINE e == aoa.event[1]
  <2>1. aoa.thread \in Handling /\ e \in HidEvent /\ e.id \in Ids
    BY <1>6, HandedEvent DEF AoaOpen, Handling, HidEvent
  <2>2. device' \in DeviceState
    BY <1>6, <2>1, DeviceTypes DEF AoaOpen
  <2>3. aoa' \in AoaState /\ InHand' /\ Routes'
    BY <1>6, <2>1, ProcessedTypes DEF AoaOpen, OnlyAoa
  <2>4. hidPast' \in PastState
    BY <1>6, FailedClose DEF AoaOpen
  <2> QED
    BY <1>6, <2>2, <2>3, <2>4 DEF AoaOpen, OnlyAoa
<1>7. CASE AoaClose
  <2>1. aoa.thread \in Handling /\ aoa.event[1] \in HidEvent /\ aoa.event[1].id \in Ids
    BY <1>7, HandedEvent DEF AoaClose, Handling, HidEvent
  <2>2. device' \in DeviceState
    BY <1>7, <2>1, ClosedTypes DEF AoaClose
  <2>3. aoa' \in AoaState /\ InHand' /\ Routes'
    BY <1>7, <2>1, ProcessedTypes DEF AoaClose, OnlyAoa
  <2>4. hidPast' \in PastState
    BY <1>7, FailedClose DEF AoaClose
  <2> QED
    BY <1>7, <2>2, <2>3, <2>4 DEF AoaClose, OnlyAoa
<1>8. CASE AoaUnregister
  <2>1. aoa' \in AoaState /\ aoa'.event = aoa.event /\ aoa.thread = "closing"
        /\ aoa'.thread \in {"closing", "ended"}
    <3>1. CASE aoa' = [aoa EXCEPT !.thread = "ended"]
      BY <1>8, <3>1 DEF AoaUnregister, AoaState
    <3>2. ASSUME NEW id \in aoa.open, aoa' = [aoa EXCEPT !.open = @ \ {id}]
          PROVE  aoa' \in AoaState /\ aoa'.event = aoa.event /\ aoa'.thread = aoa.thread
      BY <3>2 DEF AoaState
    <3> QED
      BY <1>8, <3>1, <3>2 DEF AoaUnregister
  <2>2. InHand' /\ Routes'
    BY <1>8, <2>1 DEF AoaUnregister, OnlyAoa, InHand, Routes, Aoa, Handling
  <2>3. device' \in DeviceState
    BY <1>8, ClosedTypes DEF AoaUnregister, AoaState
  <2>4. hidPast' \in PastState
    BY <1>8, FailedClose DEF AoaUnregister
  <2> QED
    BY <1>8, <2>1, <2>2, <2>3, <2>4 DEF AoaUnregister, OnlyAoa
<1> QED
  BY <1>1, <1>2, <1>3, <1>4, <1>5, <1>6, <1>7, <1>8

(* And what the device and the receiver do.                                *)
LEMMA WireTypes ==
    ASSUME TypeInv, DeviceReceives \/ Receive
    PROVE  TypeInv'
<1> USE DEF TypeInv, Types
<1>1. CASE DeviceReceives
  <2> DEFINE e == Head(wire)
  <2>1. e \in WireEvent /\ wire' \in Seq(WireEvent) /\ wire # <<>>
        /\ \A i \in 1..Len(wire') : wire'[i] = wire[i + 1] /\ i + 1 \in 1..Len(wire)
    BY <1>1, HeadTailProperties DEF DeviceReceives
  <2>2. device' \in DeviceState
    <3>1. CASE e.type = "clipboard"
      BY <1>1, <2>1, <3>1 DEF DeviceReceives, DeviceState, WireEvent, HidEvent,
          CtrlEvent
    <3>2. CASE IsKeyboardReport(e)
      <4>1. device' = [device EXCEPT !.pressed = (e.type = "caps"), !.caps = @ # Toggles(e)]
        BY <1>1, <3>2 DEF DeviceReceives, IsKeyboardReport
      <4>2. (e.type = "caps") \in BOOLEAN /\ (device.caps # Toggles(e)) \in BOOLEAN
        OBVIOUS
      <4> QED
        BY <4>1, <4>2 DEF DeviceState
    <3>3. CASE e.type \in {"open", "input", "close"}
      <4>1. e \in HidEvent
        BY <2>1, <3>3 DEF WireEvent, CtrlEvent
      <4>2. device' \in {Sent(e), Opened(e), Closed(e.id)}
        BY <1>1, <3>3 DEF DeviceReceives
      <4> QED
        BY <4>1, <4>2, DeviceTypes
    <3> QED
      BY <2>1, <3>1, <3>2, <3>3 DEF WireEvent, HidEvent, CtrlEvent, IsKeyboardReport
  <2>3. back' \in Seq(Answer)
    <3>1. CASE back' = back \o <<[type |-> "ack", value |-> e.ack]>>
      <4>1. [type |-> "ack", value |-> e.ack] \in Answer
        BY <2>1 DEF Answer, WireEvent, HidEvent, CtrlEvent
      <4> QED
        BY <3>1, <4>1
    <3>2. CASE back' = back \o <<[type |-> "leds", value |-> ~device.caps]>>
      <4>1. [type |-> "leds", value |-> ~device.caps] \in Answer
        BY DEF Answer
      <4> QED
        BY <3>2, <4>1
    <3>3. CASE back' = back \o <<>> \/ back' = back
      BY <3>3
    <3> QED
      BY <1>1, <3>1, <3>2, <3>3 DEF DeviceReceives
  <2>4. hidPast' \in PastState
    BY <1>1 DEF DeviceReceives, PastState
  <2>5. InHand' /\ Routes'
    BY <1>1, <2>1 DEF DeviceReceives, InHand, Routes, Aoa
  <2> QED
    BY <1>1, <2>1, <2>2, <2>3, <2>4, <2>5 DEF DeviceReceives
<1>2. CASE Receive
  <2>1. Head(back) \in Answer /\ back' \in Seq(Answer)
    BY <1>2, HeadTailProperties DEF Receive
  <2>2. CASE Head(back).type = "ack"
    <3>1. Head(back).value \in Nat
      BY <2>1, <2>2 DEF Answer
    <3> QED
      BY <1>2, <2>1, <2>2, <3>1 DEF Receive, InHand, Routes, Aoa
  <2>3. CASE Head(back).type # "ack"
    <3>1. Head(back).value \in BOOLEAN
      BY <2>1, <2>3 DEF Answer
    <3>2. caps' \in LockState
      BY <1>2, <2>3, <3>1 DEF Receive, LockState
    <3> QED
      BY <1>2, <2>1, <2>3, <3>2 DEF Receive, InHand, Routes, Aoa
  <2> QED
    BY <2>2, <2>3
<1> QED
  BY <1>1, <1>2

(* Every step keeps the types.                                             *)
LEMMA TypeStep == ASSUME TypeInv, [HidNext]_hidVars PROVE TypeInv'
<1>1. CASE UNCHANGED hidVars
  BY <1>1 DEF hidVars, TypeInv, Types, InHand, Routes, Aoa
<1> QED
  BY <1>1, MainTypes, AoaTypes, WireTypes DEF HidNext

--------------------------------------------------------------------------------
(* What a step does to the events on their way and to the devices          *)

(* An event that is queued comes behind the one in hand.                   *)
LEMMA AppendedBehind ==
    ASSUME NEW s \in Seq(HidEvent), NEW q \in Seq(HidEvent), NEW e \in HidEvent
    PROVE  s \o Append(q, e) = Append(s \o q, e)
<1>1. /\ s \o Append(q, e) \in Seq(HidEvent) /\ Append(s \o q, e) \in Seq(HidEvent)
      /\ Len(s \o Append(q, e)) = Len(Append(s \o q, e))
  OBVIOUS
<1>2. ASSUME NEW i \in 1..Len(s \o Append(q, e))
      PROVE  (s \o Append(q, e))[i] = Append(s \o q, e)[i]
  OBVIOUS
<1> QED
  BY <1>1, <1>2, SeqEqual

(* Taking an event in hand does not change the order.                      *)
LEMMA HeadInHand ==
    ASSUME NEW q \in Seq(HidEvent), q # <<>>
    PROVE  <<Head(q)>> \o Tail(q) = <<>> \o q
<1>1. Head(q) \in HidEvent /\ Tail(q) \in Seq(HidEvent) /\ Len(Tail(q)) = Len(q) - 1
  BY HeadTailProperties
<1>2. /\ <<Head(q)>> \o Tail(q) \in Seq(HidEvent)
      /\ Len(<<Head(q)>> \o Tail(q)) = Len(q)
  BY <1>1
<1>3. ASSUME NEW i \in 1..Len(q) PROVE (<<Head(q)>> \o Tail(q))[i] = q[i]
  BY <1>1
<1>4. <<Head(q)>> \o Tail(q) = q
  BY <1>2, <1>3, SeqEqual
<1> QED
  BY <1>4, ConcatEmptySeq

(* Being done with it is being done with the first one.                    *)
LEMMA HandIsEmptied ==
    ASSUME NEW q \in Seq(HidEvent), NEW e \in HidEvent
    PROVE  LET s == <<e>> \o q
           IN s \in Seq(HidEvent) /\ s # <<>> /\ s[1] = e /\ Tail(s) = <<>> \o q
<1> DEFINE s == <<e>> \o q
<1>1. s \in Seq(HidEvent) /\ s # <<>> /\ s[1] = e /\ Len(s) = Len(q) + 1
      /\ \A i \in 1..Len(q) : s[i + 1] = q[i]
  OBVIOUS
<1>2. Tail(s) \in Seq(HidEvent) /\ Len(Tail(s)) = Len(q)
      /\ \A i \in 1..Len(q) : Tail(s)[i] = q[i]
  BY <1>1, HeadTailProperties
<1>3. Tail(s) = q
  BY <1>2, SeqEqual
<1> QED
  BY <1>1, <1>3, ConcatEmptySeq

(* The events on their way and the holders have their types.               *)
LEMMA EventsTypes ==
    ASSUME TypeInv
    PROVE  /\ Events \in Seq(WireEvent)
           /\ \A i \in 1..Len(Events) : Events[i].type \in {"open", "input"} => Events[i].id \in Ids
           /\ Holder \in [Ids -> Owner]
           /\ device.owner \in [Ids -> Owner]
           /\ Aoa => aoa.event \in Seq(HidEvent) /\ aoa.queue \in Seq(HidEvent)
<1> USE DEF TypeInv, Types
<1>1. aoa.event \in Seq(HidEvent) /\ aoa.queue \in Seq(HidEvent)
  <2>1. aoa.queue \in Seq(HidEvent) /\ (aoa.event = <<>> \/ \E e \in HidEvent : aoa.event = <<e>>)
    BY DEF AoaState
  <2>2. ASSUME NEW e \in HidEvent, aoa.event = <<e>> PROVE aoa.event \in Seq(HidEvent)
    BY <2>2
  <2>3. CASE aoa.event = <<>>
    <3>1. <<>> \in Seq(HidEvent)
      OBVIOUS
    <3> QED
      BY <2>1, <2>3, <3>1
  <2> QED
    BY <2>1, <2>2, <2>3
<1>2. Events \in Seq(WireEvent)
  <2>1. CASE Aoa
    <3>1. aoa.event \o aoa.queue \in Seq(HidEvent)
      BY <1>1
    <3> QED
      BY <2>1, <3>1, SeqMonotonic DEF Events, WireEvent
  <2> QED
    BY <2>1 DEF Events
<1>3. ASSUME NEW i \in 1..Len(Events), Events[i].type \in {"open", "input"}
      PROVE  Events[i].id \in Ids
  <2>1. Events[i] \in WireEvent
    BY <1>2, ElementOfSeq
  <2> QED
    BY <1>3, <2>1 DEF WireEvent, HidEvent, CtrlEvent
<1>4. Holder \in [Ids -> Owner]
  BY DEF Holder, Owner, Ids
<1> QED
  BY <1>1, <1>2, <1>3, <1>4 DEF DeviceState

Stays(id) == device'.owner[id] = device.owner[id] /\ device'.reported[id] = device.reported[id]
Empties(id) == device'.owner[id] = None /\ device'.reported[id] = None

(* An event is sent: it fits the holders, before and after.                *)
Appends(e) ==
    /\ Events' = Append(Events, e) /\ \A id \in Ids : Stays(id)
    /\ e.type \in {"open", "input"} => e.id \in Ids /\ Holder[e.id] = Needed(e)
    /\ \A id \in Ids : Holder'[id] = IF Sets(e, id) THEN e.owner ELSE Holder[id]

(* The first event is handled, by the device or by nobody.                 *)
Outcome(e, id) ==
    \/ Stays(id) /\ ~(e.type = "close" /\ e.id = id)
    \/ Empties(id)
    \/ Sets(e, id) /\ device'.owner[id] = e.owner /\ device'.reported[id] = None
    \/ /\ e.type = "input" /\ e.id = id /\ device.owner[id] # None
       /\ device'.owner[id] = device.owner[id] /\ device'.reported[id] = e.owner
Handles ==
    /\ Events # <<>> /\ Events' = Tail(Events) /\ Holder' = Holder
    /\ \A id \in Ids : Outcome(Events[1], id)

(* Nothing is sent nor handled, but a device may be unregistered.          *)
Rests == Events' = Events /\ Holder' = Holder /\ \A id \in Ids : Stays(id) \/ Empties(id)

(* Only reports of the keyboard are sent over UHID, maybe two.             *)
Strikes ==
    /\ Keyed(Events, Events') /\ Holder' = Holder
    /\ \A id \in Ids : Stays(id)

Kinds == /\ ~hidPast.closeFailed
         /\ Rests \/ Handles \/ Strikes \/ \E e \in WireEvent : Appends(e)

(* What is sent comes last, or was an input and is dropped.                *)
LEMMA SentEvent ==
    ASSUME TypeInv, NEW e \in HidEvent, Send(e), UNCHANGED modes
    PROVE  /\ Events' = Append(Events, e) \/ (e.type = "input" /\ Events' = Events)
           /\ hidPast'.closeFailed = hidPast.closeFailed
<1> USE DEF TypeInv, Types
<1>1. CASE Aoa
  <2>1. PushAoa(e) /\ hidPast' = [hidPast EXCEPT !.inputs = @ + 1] /\ Aoa'
    BY <1>1 DEF Send, Aoa
  <2>2. /\ aoa'.event = aoa.event
        /\ aoa'.queue = Append(aoa.queue, e) \/ (e.type = "input" /\ aoa'.queue = aoa.queue)
    BY <2>1 DEF PushAoa, AoaState
  <2>3. aoa.event \o Append(aoa.queue, e) = Append(aoa.event \o aoa.queue, e)
    BY <1>1, EventsTypes, AppendedBehind
  <2>4. hidPast'.closeFailed = hidPast.closeFailed
    BY <2>1 DEF PastState
  <2> QED
    BY <1>1, <2>1, <2>2, <2>3, <2>4 DEF Events
<1>2. CASE ~Aoa
  <2>1. PushUhid(e) /\ ~Aoa'
    BY <1>2 DEF Send, Aoa
  <2>2. wire' = Append(wire, e) \/ (e.type = "input" /\ wire' = wire)
    BY <2>1 DEF PushUhid, HidEvent
  <2>3. hidPast'.closeFailed = hidPast.closeFailed
    BY <2>1 DEF PushUhid, PastState
  <2> QED
    BY <1>2, <2>1, <2>2, <2>3 DEF Events
<1> QED
  BY <1>1, <1>2

(* A step that touches neither the events nor the slots.                   *)
LEMMA AtRest ==
    ASSUME UNCHANGED <<modes, slots>>, Events' = Events, \A id \in Ids : Stays(id) \/ Empties(id)
    PROVE  Rests
  BY DEF Rests, Holder

(* A slot that changes is a device whose holder changes.                   *)
LEMMA SlotEvents ==
    ASSUME TypeInv, NEW i \in GamepadIds, NEW g \in Gamepads \cup {None},
           slots' = [slots EXCEPT ![i] = g]
    PROVE  \A id \in Ids : Holder'[id] = IF id = i THEN g ELSE Holder[id]
<1>1. i # Keyboard /\ i # Mouse
  BY IdsAreNumbers
<1> QED
  BY <1>1 DEF Holder, TypeInv, Types, Ids

(* The main thread                                                         *)
LEMMA MainKinds ==
    ASSUME TypeInv, ~hidPast'.closeFailed,
           \/ \E g \in Gamepads : GamepadAdded(g) \/ GamepadRemoved(g) \/ GamepadInput(g)
           \/ MouseInput \/ Paste \/ UhidCapsPress \/ UhidCapsRelease \/ UhidKey
    PROVE  Kinds
<1> USE DEF TypeInv, Types
<1>0. /\ UNCHANGED <<modes, device>> /\ (Aoa' <=> Aoa)
      /\ \A id \in Ids : Stays(id)
  BY DEF GamepadAdded, GamepadRemoved, GamepadInput, MouseInput, Paste, UhidCapsPress,
         UhidCapsRelease, UhidKey, Aoa, Stays
<1>1. ASSUME NEW g \in Gamepads, GamepadAdded(g) PROVE Kinds
  <2>1. CASE UNCHANGED <<slots, aoa, wire, hidPast>>
    <3>1. Events' = Events
      BY <1>0, <2>1 DEF Events
    <3> QED
      BY <1>0, <2>1, <3>1, AtRest DEF Kinds
  <2>2. CASE GenerateOpen(g) # {}
    <3>1. PICK i \in GenerateOpen(g) : slots' = [slots EXCEPT ![i] = g] /\ Send(Open(i, g))
      BY <1>1, <2>2 DEF GamepadAdded
    <3>2. i \in GamepadIds /\ slots[i] = None
      BY <3>1 DEF GenerateOpen, First, SlotsOf
    <3>3. i \in Ids /\ i # Keyboard /\ i # Mouse
      BY <3>2, IdsAreNumbers
    <3>4. Open(i, g) \in HidEvent
      BY <3>3, EventTypes DEF Owner
    <3>5. Events' = Append(Events, Open(i, g)) /\ ~hidPast.closeFailed
      BY <1>0, <3>1, <3>4, SentEvent DEF Open
    <3>6. Holder[i] = None
      BY <3>2, <3>3 DEF Holder
    <3>7. \A id \in Ids : Holder'[id] = IF Sets(Open(i, g), id) THEN g ELSE Holder[id]
      <4>1. \A id \in Ids : Sets(Open(i, g), id) <=> i = id
        BY DEF Sets, Open
      <4>2. \A id \in Ids : Holder'[id] = IF id = i THEN g ELSE Holder[id]
        BY <3>1, <3>2, SlotEvents
      <4> QED
        BY <4>1, <4>2
    <3>8. Appends(Open(i, g))
      BY <1>0, <3>3, <3>5, <3>6, <3>7 DEF Appends, Open, Needed
    <3> QED
      BY <3>4, <3>5, <3>8 DEF Kinds, WireEvent
  <2> QED
    BY <1>1, <2>1, <2>2 DEF GamepadAdded
<1>2. ASSUME NEW g \in Gamepads, GamepadRemoved(g) PROVE Kinds
  <2>1. CASE UNCHANGED <<slots, aoa, wire, hidPast>>
    <3>1. Events' = Events
      BY <1>0, <2>1 DEF Events
    <3> QED
      BY <1>0, <2>1, <3>1, AtRest DEF Kinds
  <2>2. CASE SlotsOf(g) # {}
    <3>1. PICK i \in First(SlotsOf(g)) : slots' = [slots EXCEPT ![i] = None] /\ Send(Close(i))
      BY <1>2, <2>2 DEF GamepadRemoved
    <3>2. i \in GamepadIds /\ i \in Ids
      BY <3>1, IdsAreNumbers DEF First, SlotsOf
    <3>3. Close(i) \in HidEvent
      BY <3>2, EventTypes DEF Owner
    <3>4. Events' = Append(Events, Close(i)) /\ ~hidPast.closeFailed
      BY <1>0, <3>1, <3>3, SentEvent DEF Close
    <3>5. \A id \in Ids : Holder'[id] = IF Sets(Close(i), id) THEN None ELSE Holder[id]
      BY <3>1, <3>2, SlotEvents DEF Sets, Close
    <3>6. Appends(Close(i))
      BY <1>0, <3>4, <3>5 DEF Appends, Close
    <3> QED
      BY <3>3, <3>4, <3>6 DEF Kinds, WireEvent
  <2> QED
    BY <1>2, <2>1, <2>2 DEF GamepadRemoved
<1>3. ASSUME NEW id \in Ids, NEW o \in Owner, UNCHANGED slots, Holder[id] = o,
             Send(Report(id, o, 0))
      PROVE  Kinds
  <2> DEFINE e == Report(id, o, 0)
  <2>1. e \in HidEvent
    BY <1>3, EventTypes
  <2>2. Events' = Append(Events, e) \/ Events' = Events
    BY <1>0, <1>3, <2>1, SentEvent
  <2>3. ~hidPast.closeFailed
    BY <1>0, <1>3, <2>1, SentEvent
  <2>4. CASE Events' = Append(Events, e)
    <3>1. Holder' = Holder
      BY <1>3 DEF Holder
    <3>2. Appends(e)
      BY <1>0, <1>3, <2>4, <3>1 DEF Appends, Report, Needed, Sets
    <3> QED
      BY <2>1, <2>3, <3>2 DEF Kinds, WireEvent
  <2>5. CASE Events' = Events
    BY <1>0, <1>3, <2>3, <2>5, AtRest DEF Kinds
  <2> QED
    BY <2>2, <2>4, <2>5
<1>4. ASSUME NEW g \in Gamepads, GamepadInput(g) PROVE Kinds
  <2>1. PICK i \in First(SlotsOf(g)) : Send(Report(i, g, 0))
    BY <1>4 DEF GamepadInput
  <2>2. i \in GamepadIds /\ slots[i] = g
    BY <2>1 DEF First, SlotsOf
  <2>3. i \in Ids /\ Holder[i] = g
    BY <2>2, IdsAreNumbers DEF Holder
  <2> QED
    BY <1>3, <1>4, <2>1, <2>3 DEF GamepadInput, Owner
<1>5. CASE MouseInput
  <2>1. Mouse \in Ids /\ Holder[Mouse] = "mouse"
    BY IdsAreNumbers DEF Holder, Mouse, Keyboard
  <2> QED
    BY <1>3, <1>5, <2>1 DEF MouseInput, Owner
<1>6. CASE Paste
  <2> DEFINE e == Report(Keyboard, "keyboard", sequence)
  <2>1. Aoa /\ PushAoa(e) /\ ~hidPast.closeFailed /\ UNCHANGED slots
    BY <1>6 DEF Paste, PastState
  <2>2. e \in HidEvent /\ Keyboard \in Ids /\ Holder[Keyboard] = "keyboard"
    BY EventTypes, IdsAreNumbers DEF Owner, Holder
  <2>3. aoa'.event = aoa.event
        /\ (aoa'.queue = Append(aoa.queue, e) \/ aoa'.queue = aoa.queue)
    BY <2>1 DEF PushAoa, AoaState
  <2>4. CASE aoa'.queue = Append(aoa.queue, e)
    <3>1. Events' = Append(Events, e)
      <4>1. aoa.event \o Append(aoa.queue, e) = Append(aoa.event \o aoa.queue, e)
        BY <2>1, <2>2, EventsTypes, AppendedBehind
      <4> QED
        BY <1>0, <2>1, <2>3, <2>4, <4>1 DEF Events
    <3>2. Holder' = Holder
      BY <2>1 DEF Holder
    <3>3. Appends(e)
      BY <1>0, <2>2, <3>1, <3>2 DEF Appends, Report, Needed, Sets
    <3> QED
      BY <2>1, <2>2, <3>3 DEF Kinds, WireEvent
  <2>5. CASE aoa'.queue = aoa.queue
    <3>1. Events' = Events
      BY <1>0, <2>1, <2>3, <2>5 DEF Events
    <3> QED
      BY <1>0, <2>1, <3>1, AtRest DEF Kinds
  <2> QED
    BY <2>3, <2>4, <2>5
<1>7. CASE UhidCapsPress \/ UhidCapsRelease \/ UhidKey
  <2>1. ~Aoa /\ UNCHANGED slots
    BY <1>7 DEF UhidCapsPress, UhidCapsRelease, UhidKey
  <2>2. Keyed(wire, wire') /\ ~hidPast.closeFailed
    BY <1>7, KeysTypes
  <2>3. Events = wire /\ Events' = wire' /\ Holder' = Holder
    BY <1>0, <2>1 DEF Events, Holder
  <2> QED
    BY <1>0, <2>2, <2>3 DEF Kinds, Strikes
<1> QED
  BY <1>1, <1>2, <1>4, <1>5, <1>6, <1>7

(* The outcomes of an open and of a close that are done.                   *)
LEMMA OpenedOutcome ==
    ASSUME TypeInv, NEW e, e.type = "open", device' = Opened(e), NEW id \in Ids
    PROVE  Outcome(e, id)
<1>1. CASE id = e.id
  BY <1>1 DEF Outcome, Opened, TypeInv, Types, DeviceState, Sets
<1>2. CASE id # e.id
  BY <1>2 DEF Outcome, Stays, Opened, TypeInv, Types, DeviceState
<1> QED
  BY <1>1, <1>2

(* And of a close.                                                         *)
LEMMA ClosedOutcome ==
    ASSUME TypeInv, NEW e, device' = Closed(e.id), NEW id \in Ids
    PROVE  Outcome(e, id)
<1>1. CASE id = e.id
  BY <1>1 DEF Outcome, Empties, Closed, TypeInv, Types, DeviceState
<1>2. CASE id # e.id
  BY <1>2 DEF Outcome, Stays, Closed, TypeInv, Types, DeviceState
<1> QED
  BY <1>1, <1>2

(* The AOA thread                                                          *)
LEMMA HandKinds ==
    ASSUME TypeInv, ~hidPast'.closeFailed, AoaInput \/ AoaOpen \/ AoaClose
    PROVE  Kinds
<1> USE DEF TypeInv, Types
<1> DEFINE e == aoa.event[1]
<1>1. Aoa /\ e \in HidEvent /\ e.type = aoa.thread /\ aoa.event = <<e>> /\ e.id \in Ids
  BY HandedEvent DEF AoaInput, AoaOpen, AoaClose, Handling, HidEvent
<1>2. aoa'.event = <<>> /\ aoa'.queue = aoa.queue
  <2>1. aoa \in AoaState
    OBVIOUS
  <2> HIDE DEF TypeInv, Types
  <2> USE DEF Processed, AoaState
  <2>2. CASE AoaInput
    BY <2>1, <2>2 DEF AoaInput
  <2>3. CASE AoaOpen
    BY <2>1, <2>3 DEF AoaOpen
  <2>4. CASE AoaClose
    BY <2>1, <2>4 DEF AoaClose
  <2> QED
    BY <2>2, <2>3, <2>4
<1>3. UNCHANGED <<modes, slots>> /\ Aoa'
  BY <1>1 DEF AoaInput, AoaOpen, AoaClose, OnlyAoa, Aoa
<1>4. Events # <<>> /\ Events[1] = e /\ Events' = Tail(Events)
  <2> DEFINE s == <<e>> \o aoa.queue
  <2>1. s # <<>> /\ s[1] = e /\ Tail(s) = <<>> \o aoa.queue
    BY <1>1, EventsTypes, HandIsEmptied
  <2>2. Events = s
    BY <1>1 DEF Events
  <2>3. Events' = <<>> \o aoa.queue
    BY <1>2, <1>3 DEF Events
  <2> QED
    BY <2>1, <2>2, <2>3
<1>5. ASSUME NEW id \in Ids PROVE Outcome(e, id)
  <2>1. CASE AoaInput
    <3>1. e.type = "input" /\ (device' = Sent(e) \/ UNCHANGED device)
      BY <1>1, <2>1 DEF AoaInput
    <3>2. CASE UNCHANGED device
      BY <3>1, <3>2 DEF Outcome, Stays
    <3>3. CASE device' = Sent(e)
      <4>1. device'.owner[id] = device.owner[id]
        BY <3>3 DEF Sent, DeviceState
      <4>2. CASE id # e.id \/ device.owner[id] = None
        BY <1>1, <3>1, <3>3, <4>2 DEF Outcome, Stays, Sent, DeviceState
      <4>3. CASE id = e.id /\ device.owner[id] # None
        BY <1>1, <3>1, <3>3, <4>3 DEF Outcome, Sent, DeviceState
      <4> QED
        BY <4>2, <4>3
    <3> QED
      BY <3>1, <3>2, <3>3
  <2>2. CASE AoaOpen
    <3>1. e.type = "open" /\ device' \in {device, Opened(e), Closed(e.id)}
      BY <1>1, <2>2 DEF AoaOpen
    <3>2. CASE device' = device
      BY <3>1, <3>2 DEF Outcome, Stays
    <3>3. CASE device' = Opened(e)
      BY <3>1, <3>3, OpenedOutcome
    <3>4. CASE device' = Closed(e.id)
      BY <3>4, ClosedOutcome
    <3> QED
      BY <3>1, <3>2, <3>3, <3>4
  <2>3. CASE AoaClose
    <3>1. e.type = "close" /\ device' = Closed(e.id)
      BY <1>1, <2>3 DEF AoaClose, PastState
    <3> QED
      BY <3>1, ClosedOutcome
  <2> QED
    BY <2>1, <2>2, <2>3
<1>6. ~hidPast.closeFailed
  BY DEF AoaInput, AoaOpen, AoaClose, PastState
<1>7. Holder' = Holder
  BY <1>3 DEF Holder
<1>8. Handles
  BY <1>4, <1>5, <1>7 DEF Handles
<1> QED
  BY <1>6, <1>8 DEF Kinds

(* Taking, waiting, stopping and unregistering handle no event.            *)
LEMMA ThreadKinds ==
    ASSUME TypeInv, ~hidPast'.closeFailed,
           StopAoa \/ InterruptAcksync \/ AoaTake \/ AoaSpuriousWakeup \/ AoaUnregister
    PROVE  Kinds
<1> USE DEF TypeInv, Types
<1>1. UNCHANGED <<modes, slots, wire>> /\ (Aoa' <=> Aoa)
  BY DEF StopAoa, InterruptAcksync, AoaTake, AoaSpuriousWakeup, AoaUnregister,
      OnlyAoa, Aoa
<1>2. CASE AoaTake
  <2>1. UNCHANGED <<device, hidPast>> /\ Aoa /\ aoa.event = <<>>
    BY <1>2 DEF AoaTake, InHand, Routes, Handling
  <2>2. CASE aoa'.event = aoa.event /\ aoa'.queue = aoa.queue
    BY <1>1, <2>1, <2>2, AtRest DEF Kinds, Events, Stays
  <2>3. CASE /\ aoa.queue # <<>>
             /\ aoa'.event = <<Head(aoa.queue)>> /\ aoa'.queue = Tail(aoa.queue)
    <3>1. <<Head(aoa.queue)>> \o Tail(aoa.queue) = <<>> \o aoa.queue
      BY <2>1, <2>3, EventsTypes, HeadInHand
    <3>2. Events' = Events
      BY <1>1, <2>1, <2>3, <3>1 DEF Events
    <3> QED
      BY <1>1, <2>1, <3>2, AtRest DEF Kinds, Stays
  <2> QED
    BY <1>2, <2>2, <2>3 DEF AoaTake, AoaState
<1>3. CASE StopAoa \/ InterruptAcksync \/ AoaSpuriousWakeup \/ AoaUnregister
  <2>1. aoa'.event = aoa.event /\ aoa'.queue = aoa.queue
    BY <1>3 DEF StopAoa, InterruptAcksync, AoaSpuriousWakeup, AoaUnregister,
        AoaState
  <2>2. Events' = Events
    BY <1>1, <2>1 DEF Events
  <2>3. ~hidPast.closeFailed
    BY <1>3 DEF StopAoa, InterruptAcksync, AoaSpuriousWakeup, AoaUnregister,
        OnlyAoa, PastState
  <2>4. ASSUME NEW id \in Ids PROVE Stays(id) \/ Empties(id)
    <3>1. CASE UNCHANGED device
      BY <3>1 DEF Stays
    <3>2. ASSUME NEW i \in Ids, device' = Closed(i) PROVE Stays(id) \/ Empties(id)
      BY <3>2 DEF Stays, Empties, Closed, DeviceState
    <3>3. aoa.open \subseteq Ids
      BY DEF AoaState
    <3>4. UNCHANGED device \/ \E i \in Ids : device' = Closed(i)
      BY <1>3, <3>3 DEF StopAoa, InterruptAcksync, AoaSpuriousWakeup,
          AoaUnregister, OnlyAoa
    <3> QED
      BY <3>1, <3>2, <3>4
  <2> QED
    BY <1>1, <2>2, <2>3, <2>4, AtRest DEF Kinds
<1> QED
  BY <1>2, <1>3

(* The device and the receiver                                             *)
LEMMA DeviceKinds ==
    ASSUME TypeInv, ~hidPast'.closeFailed, DeviceReceives \/ Receive
    PROVE  Kinds
<1> USE DEF TypeInv, Types
<1>0. /\ UNCHANGED <<modes, slots, aoa>> /\ (Aoa' <=> Aoa) /\ Holder' = Holder
      /\ ~hidPast.closeFailed
  BY DEF DeviceReceives, Receive, Aoa, PastState, Holder
<1>1. CASE Receive
  <2>1. Events' = Events /\ UNCHANGED device
    BY <1>0, <1>1 DEF Receive, Events
  <2> QED
    BY <1>0, <2>1, AtRest DEF Kinds, Stays
<1>2. CASE DeviceReceives
  <2> DEFINE e == Head(wire)
  <2>1. wire # <<>> /\ wire' = Tail(wire) /\ e = wire[1] /\ e \in WireEvent /\ 1 \in 1..Len(wire)
    BY <1>2, HeadTailProperties DEF DeviceReceives
  <2>2. /\ e.type = "clipboard" => device' = [device EXCEPT !.clip = e.ack]
        /\ IsKeyboardReport(e) =>
              device' = [device EXCEPT !.pressed = (e.type = "caps"), !.caps = @ # Toggles(e)]
        /\ e.type = "open" => device' = Opened(e)
        /\ e.type = "close" => device' = Closed(e.id)
        /\ e.type = "input" => device' = Sent(e)
    BY <1>2 DEF DeviceReceives, IsKeyboardReport
  <2>3. CASE Aoa
    <3>1. e.type = "clipboard" /\ Events' = Events
      BY <1>0, <2>1, <2>3 DEF Routes, Events
    <3>2. \A id \in Ids : Stays(id)
      BY <2>2, <3>1 DEF Stays, DeviceState
    <3> QED
      BY <1>0, <3>1, <3>2, AtRest DEF Kinds
  <2>4. CASE ~Aoa
    <3>1. Events # <<>> /\ Events' = Tail(Events) /\ Events[1] = e
      BY <1>0, <2>1, <2>4 DEF Events
    <3>2. ASSUME NEW id \in Ids PROVE Outcome(e, id)
      <4>1. CASE e.type = "clipboard" \/ IsKeyboardReport(e)
        <5>1. device'.owner = device.owner /\ device'.reported = device.reported
          BY <2>2, <4>1 DEF DeviceState
        <5> QED
          BY <4>1, <5>1 DEF Outcome, Stays, IsKeyboardReport
      <4>2. CASE e.type = "open"
        BY <2>2, <4>2, OpenedOutcome
      <4>3. CASE e.type = "close"
        BY <2>2, <4>3, ClosedOutcome
      <4>4. CASE e.type = "input"
        <5>1. CASE id # e.id \/ device.owner[id] = None
          BY <2>2, <4>4, <5>1 DEF Outcome, Stays, Sent, DeviceState
        <5>2. CASE id = e.id /\ device.owner[id] # None
          BY <2>2, <4>4, <5>2 DEF Outcome, Sent, DeviceState
        <5> QED
          BY <5>1, <5>2
      <4> QED
        BY <2>1, <4>1, <4>2, <4>3, <4>4 DEF WireEvent, HidEvent, CtrlEvent, IsKeyboardReport
    <3> QED
      BY <1>0, <3>1, <3>2 DEF Kinds, Handles
  <2> QED
    BY <2>3, <2>4
<1> QED
  BY <1>1, <1>2

(* Every step sends one event, handles the first one, or neither.          *)
LEMMA StepKinds == ASSUME TypeInv, ~hidPast'.closeFailed, HidNext PROVE Kinds
  BY MainKinds, HandKinds, ThreadKinds, DeviceKinds DEF HidNext

(* So each event finds the device that it expects.                         *)
LEMMA OwnerStep == ASSUME TypeInv, OwnerInv, [HidNext]_hidVars PROVE OwnerInv'
<1> DEFINE owner == device.owner
           reported == device.reported
<1>1. CASE UNCHANGED hidVars
  <2>1. Events' = Events /\ Holder' = Holder /\ UNCHANGED <<device, hidPast>>
    BY <1>1 DEF hidVars, Events, Holder, Aoa
  <2> QED
    BY <2>1 DEF OwnerInv
<1>2. CASE HidNext
  <2> SUFFICES ASSUME ~hidPast'.closeFailed PROVE OwnerInv'
    BY DEF OwnerInv
  <2>0. Kinds /\ ~hidPast.closeFailed
    BY <1>2, StepKinds DEF Kinds
  <2>1. /\ Orderly(Events, owner) /\ Final(Events, owner, Holder)
        /\ \A id \in Ids : reported[id] \in {None, owner[id]}
    BY <2>0 DEF OwnerInv
  <2>2. /\ Events \in Seq(WireEvent) /\ Holder \in [Ids -> Owner] /\ owner \in [Ids -> Owner]
        /\ \A i \in 1..Len(Events) : Events[i].type \in {"open", "input"} => Events[i].id \in Ids
    BY EventsTypes
  <2>3. TypeInv'
    BY <1>2, TypeStep
  <2>4. Holder' \in [Ids -> Owner] /\ owner' \in [Ids -> Owner]
    <3>1. Holder' \in [Ids -> Owner]
      BY <2>3 DEF Holder, Owner, Ids, TypeInv, Types
    <3> QED
      BY <2>3, <3>1 DEF TypeInv, Types, DeviceState
  <2> SUFFICES /\ Orderly(Events', owner') /\ Final(Events', owner', Holder')
               /\ \A id \in Ids : reported'[id] \in {None, owner'[id]}
    BY DEF OwnerInv, Orderly, Final, Sets, Needed
  <2>5. CASE Rests
    <3>1. Events' = Events /\ Holder' = Holder /\ \A id \in Ids : Stays(id) \/ Empties(id)
      BY <2>5 DEF Rests
    <3>2. \A id \in Ids : owner'[id] \in {None, owner[id]} /\ reported'[id] \in {None, owner'[id]}
      BY <2>1, <3>1 DEF Stays, Empties
    <3> QED
      BY <2>1, <2>2, <2>4, <3>1, <3>2, FallSound
  <2>6. CASE \E e \in WireEvent : Appends(e)
    <3>1. PICK e \in WireEvent : Appends(e)
      BY <2>6
    <3>2. \A id \in Ids : owner'[id] = owner[id] /\ reported'[id] = reported[id]
      BY <3>1 DEF Appends, Stays
    <3>3. owner' = owner
      BY <2>2, <2>4, <3>2
    <3>4. Orderly(Append(Events, e), owner) /\ Final(Append(Events, e), owner, Holder')
      BY <2>1, <2>2, <2>4, <3>1, AppendSound DEF Appends
    <3> QED
      BY <2>1, <3>1, <3>2, <3>3, <3>4 DEF Appends
  <2>7. CASE Handles
    <3> DEFINE e == Events[1]
    <3>1. /\ Events # <<>> /\ Events' = Tail(Events) /\ Holder' = Holder
          /\ \A id \in Ids : Outcome(e, id)
      BY <2>7 DEF Handles
    <3>2. e \in WireEvent /\ 1 \in 1..Len(Events)
      BY <2>2, <3>1
    <3>3. e.type \in {"open", "input"} => owner[e.id] \in {None, Needed(e)}
      BY <3>2, <2>1 DEF Orderly
    <3>4. ASSUME NEW id \in Ids
          PROVE  /\ owner'[id] \in {None, IF Sets(e, id) THEN e.owner ELSE owner[id]}
                 /\ reported'[id] \in {None, owner'[id]}
      <4>1. CASE Stays(id) /\ ~(e.type = "close" /\ e.id = id)
        <5>1. Sets(e, id) => owner[id] = None
          BY <3>3, <4>1 DEF Sets, Needed
        <5> QED
          BY <2>1, <4>1, <5>1 DEF Stays
      <4>2. CASE Empties(id)
        BY <4>2 DEF Empties
      <4>3. CASE Sets(e, id) /\ owner'[id] = e.owner /\ reported'[id] = None
        BY <4>3
      <4>4. CASE /\ e.type = "input" /\ e.id = id /\ owner[id] # None
                 /\ owner'[id] = owner[id] /\ reported'[id] = e.owner
        BY <3>3, <4>4 DEF Needed, Sets
      <4> QED
        BY <3>1, <4>1, <4>2, <4>3, <4>4 DEF Outcome
    <3>5. Orderly(Tail(Events), owner') /\ Final(Tail(Events), owner', Holder)
      BY <2>1, <2>2, <2>4, <3>1, <3>4, TailSound
    <3> QED
      BY <3>1, <3>4, <3>5
  <2>8. CASE Strikes
    <3>1. \A id \in Ids : owner'[id] = owner[id] /\ reported'[id] = reported[id]
      BY <2>8 DEF Strikes, Stays
    <3>2. owner' = owner
      BY <2>2, <2>4, <3>1
    <3>3. Orderly(Events', owner) /\ Final(Events', owner, Holder)
      BY <2>1, <2>2, <2>8, KeyedSound DEF Strikes
    <3> QED
      BY <2>1, <2>8, <3>1, <3>2, <3>3 DEF Strikes
  <2> QED
    BY <2>0, <2>5, <2>6, <2>7, <2>8 DEF Kinds
<1> QED
  BY <1>1, <1>2

--------------------------------------------------------------------------------
(* The slots, and what is registered                                       *)

(* No step gives a gamepad two slots, or a slot two gamepads.              *)
LEMMA SlotStep == ASSUME TypeInv, SlotInv, [HidNext]_hidVars PROVE SlotInv'
<1> USE DEF TypeInv, Types
<1>1. CASE UNCHANGED slots /\ UNCHANGED plugged
  BY <1>1 DEF SlotInv
<1>2. ASSUME NEW g \in Gamepads, GamepadAdded(g) PROVE SlotInv'
  <2>0. g # None
    BY HidAssumption DEF HidAssumption, None
  <2>1. g \notin plugged /\ plugged' = plugged \cup {g}
    BY <1>2 DEF GamepadAdded
  <2>2. \A i \in GamepadIds : slots[i] # g
    BY <2>0, <2>1 DEF SlotInv
  <2>3. CASE UNCHANGED slots
    BY <2>1, <2>3 DEF SlotInv
  <2>4. ASSUME NEW i \in GamepadIds, slots' = [slots EXCEPT ![i] = g] PROVE SlotInv'
    <3>1. \A j \in GamepadIds : slots'[j] = IF j = i THEN g ELSE slots[j]
      BY <2>4
    <3> QED
      BY <2>0, <2>1, <2>2, <3>1 DEF SlotInv
  <2> QED
    BY <1>2, <2>3, <2>4 DEF GamepadAdded, GenerateOpen, First, SlotsOf
<1>3. ASSUME NEW g \in Gamepads, GamepadRemoved(g) PROVE SlotInv'
  <2>0. plugged' = plugged \ {g}
    BY <1>3 DEF GamepadRemoved
  <2>1. CASE SlotsOf(g) = {} /\ UNCHANGED slots
    BY <2>0, <2>1 DEF SlotInv, SlotsOf
  <2>2. ASSUME NEW i \in GamepadIds, slots[i] = g, slots' = [slots EXCEPT ![i] = None]
        PROVE  SlotInv'
    <3>1. \A j \in GamepadIds : slots'[j] = IF j = i THEN None ELSE slots[j]
      BY <2>2
    <3> QED
      BY <2>0, <2>2, <3>1 DEF SlotInv
  <2> QED
    BY <1>3, <2>1, <2>2 DEF GamepadRemoved, First, SlotsOf
<1>4. CASE UNCHANGED hidVars
  BY <1>1, <1>4 DEF hidVars
<1>5. CASE HidNext
  <2>1. ASSUME NEW g \in Gamepads, GamepadInput(g) PROVE UNCHANGED <<slots, plugged>>
    BY <2>1 DEF GamepadInput
  <2>2. CASE MouseInput \/ Paste \/ UhidCapsPress \/ UhidCapsRelease \/ UhidKey
    BY <1>1, <2>2 DEF MouseInput, Paste, UhidCapsPress, UhidCapsRelease, UhidKey
  <2>3. CASE \/ StopAoa \/ InterruptAcksync \/ AoaTake \/ AoaSpuriousWakeup
             \/ AoaInput \/ AoaOpen \/ AoaClose \/ AoaUnregister
    BY <1>1, <2>3 DEF StopAoa, InterruptAcksync, AoaTake, AoaSpuriousWakeup,
        AoaInput,
                      AoaOpen, AoaClose, AoaUnregister, OnlyAoa
  <2>4. CASE DeviceReceives \/ Receive
    BY <1>1, <2>4 DEF DeviceReceives, Receive
  <2> QED
    BY <1>1, <1>2, <1>3, <1>5, <2>1, <2>2, <2>3, <2>4 DEF HidNext
<1> QED
  BY <1>4, <1>5

(* What the main thread does to the AOA thread.                            *)
LEMMA MainAoa ==
    ASSUME TypeInv,
           \/ \E g \in Gamepads : GamepadAdded(g) \/ GamepadRemoved(g) \/ GamepadInput(g)
           \/ MouseInput \/ Paste \/ UhidCapsPress \/ UhidCapsRelease \/ UhidKey
    PROVE  /\ aoa'.open = aoa.open /\ aoa'.stopped = aoa.stopped
           /\ aoa'.thread = aoa.thread \/ (aoa.thread = "waiting" /\ aoa'.thread = "ready")
           /\ aoa'.thread = "waiting" => aoa'.queue = aoa.queue \/ aoa.queue # <<>>
           /\ hidPast'.closeFailed = hidPast.closeFailed
           /\ UNCHANGED <<modes, device>>
<1> USE DEF TypeInv, Types
<1>1. ASSUME NEW e \in HidEvent, PushAoa(e)
      PROVE  /\ aoa'.open = aoa.open /\ aoa'.stopped = aoa.stopped
             /\ aoa'.thread = aoa.thread \/ (aoa.thread = "waiting" /\ aoa'.thread = "ready")
             /\ aoa'.thread = "waiting" => aoa'.queue = aoa.queue \/ aoa.queue # <<>>
  BY <1>1 DEF PushAoa, AoaState
<1>2. \/ UNCHANGED aoa
      \/ \E e \in HidEvent : PushAoa(e)
  <2>1. ASSUME NEW e \in HidEvent, Send(e) PROVE UNCHANGED aoa \/ PushAoa(e)
    BY <2>1 DEF Send
  <2>2. ASSUME NEW g \in Gamepads, GamepadAdded(g) \/ GamepadRemoved(g) \/ GamepadInput(g)
        PROVE  UNCHANGED aoa \/ \E e \in HidEvent : PushAoa(e)
    <3>1. g \in Owner
      BY DEF Owner
    <3>2. \A i \in GamepadIds :
             Open(i, g) \in HidEvent /\ Close(i) \in HidEvent /\ Report(i, g, 0) \in HidEvent
      BY <3>1, EventTypes, IdsAreNumbers
    <3>3. UNCHANGED aoa \/ \E e \in HidEvent : Send(e)
      BY <2>2, <3>2 DEF GamepadAdded, GamepadRemoved, GamepadInput,
          GenerateOpen, First, SlotsOf
    <3> QED
      BY <2>1, <3>3
  <2>3. CASE MouseInput
    <3>1. Report(Mouse, "mouse", 0) \in HidEvent
      BY EventTypes, IdsAreNumbers DEF Owner
    <3> QED
      BY <2>1, <2>3, <3>1 DEF MouseInput
  <2>4. CASE Paste
    <3>1. Report(Keyboard, "keyboard", sequence) \in HidEvent
      BY EventTypes, IdsAreNumbers DEF Owner
    <3> QED
      BY <2>4, <3>1 DEF Paste
  <2>5. CASE UhidCapsPress \/ UhidCapsRelease \/ UhidKey
    BY <2>5 DEF UhidCapsPress, UhidCapsRelease, UhidKey
  <2> QED
    BY <2>2, <2>3, <2>4, <2>5
<1>3. hidPast'.closeFailed = hidPast.closeFailed
  <2>1. CASE UhidCapsPress \/ UhidCapsRelease \/ UhidKey
    BY <2>1, KeysTypes
  <2>2. \/ UNCHANGED hidPast
        \/ hidPast' = [hidPast EXCEPT !.inputs = @ + 1]
        \/ hidPast' = [hidPast EXCEPT !.inputs = @ + 1, !.refused = TRUE]
        \/ UhidCapsPress \/ UhidCapsRelease \/ UhidKey
    BY DEF GamepadAdded, GamepadRemoved, GamepadInput, MouseInput, Paste, Send, PushUhid
  <2> QED
    BY <2>1, <2>2 DEF PastState
<1>4. UNCHANGED <<modes, device>>
  BY DEF GamepadAdded, GamepadRemoved, GamepadInput, MouseInput, Paste,
         UhidCapsPress, UhidCapsRelease, UhidKey
<1> QED
  BY <1>1, <1>2, <1>3, <1>4

(* The AOA thread keeps track of what is registered.                       *)
LEMMA OpenStep == ASSUME TypeInv, OpenInv, [HidNext]_hidVars PROVE OpenInv'
<1> USE DEF TypeInv, Types
<1>1. CASE /\ aoa'.open = aoa.open /\ (aoa'.thread = "ended" => aoa.thread = "ended")
           /\ hidPast'.closeFailed = hidPast.closeFailed /\ UNCHANGED modes
           /\ Aoa => device'.owner = device.owner
  BY <1>1 DEF OpenInv, Aoa
<1>2. CASE \/ \E g \in Gamepads : GamepadAdded(g) \/ GamepadRemoved(g) \/ GamepadInput(g)
           \/ MouseInput \/ Paste \/ UhidCapsPress \/ UhidCapsRelease \/ UhidKey
  BY <1>1, <1>2, MainAoa
<1>3. CASE StopAoa \/ InterruptAcksync \/ AoaTake \/ AoaSpuriousWakeup
  <2>1. UNCHANGED <<modes, device, hidPast>>
    BY <1>3 DEF StopAoa, InterruptAcksync, AoaTake, AoaSpuriousWakeup, OnlyAoa
  <2>2. aoa'.open = aoa.open
    BY <1>3 DEF StopAoa, InterruptAcksync, AoaTake, AoaSpuriousWakeup, AoaState
  <2>3. aoa'.thread = "ended" => aoa.thread = "ended"
    <3>1. CASE StopAoa
      BY <3>1 DEF StopAoa, AoaState
    <3>2. CASE InterruptAcksync
      BY <3>2 DEF InterruptAcksync
    <3>3. CASE AoaTake
      <4>1. aoa' = [aoa EXCEPT !.thread = "closing"] => aoa'.thread = "closing"
        BY DEF AoaState
      <4>2. aoa' = [aoa EXCEPT !.thread = "waiting"] => aoa'.thread = "waiting"
        BY DEF AoaState
      <4>3. CASE /\ aoa.queue # <<>>
                 /\ aoa' = [aoa EXCEPT !.thread = Head(aoa.queue).type, !.queue = Tail(@),
                                       !.event = <<Head(aoa.queue)>>]
        <5>1. Head(aoa.queue) \in HidEvent
          BY <4>3, HeadTailProperties DEF AoaState
        <5>2. Head(aoa.queue).type # "ended"
          BY <5>1 DEF HidEvent
        <5>3. aoa'.thread = Head(aoa.queue).type
          BY <4>3 DEF AoaState
        <5> QED
          BY <5>2, <5>3
      <4> QED
        BY <3>3, <4>1, <4>2, <4>3 DEF AoaTake
    <3>4. CASE AoaSpuriousWakeup
      BY <3>4 DEF AoaSpuriousWakeup, AoaState
    <3> QED
      BY <1>3, <3>1, <3>2, <3>3, <3>4
  <2> QED
    BY <1>1, <2>1, <2>2, <2>3
<1>4. CASE AoaInput
  <2>1. UNCHANGED <<modes, hidPast>> /\ aoa'.open = aoa.open /\ aoa'.thread # "ended"
    BY <1>4 DEF AoaInput, OnlyAoa, Processed, AoaState
  <2>2. device'.owner = device.owner
    BY <1>4 DEF AoaInput, Sent, DeviceState
  <2> QED
    BY <1>1, <2>1, <2>2
<1>5. CASE AoaOpen
  <2> DEFINE e == aoa.event[1]
  <2>0. aoa'.thread = "ready" /\ UNCHANGED modes /\ e.id \in Ids
        /\ (~hidPast'.closeFailed => ~hidPast.closeFailed)
    BY <1>5, HandedEvent DEF AoaOpen, OnlyAoa, Processed, AoaState, Handling,
        HidEvent, PastState
  <2>1. CASE device' = Opened(e) /\ aoa' = [Processed EXCEPT !.open = @ \cup {e.id}]
    <3>1. aoa'.open = aoa.open \cup {e.id}
      BY <2>1 DEF Processed, AoaState
    <3>2. \A id \in Ids : id # e.id => device'.owner[id] = device.owner[id]
      BY <2>1 DEF Opened, DeviceState
    <3> QED
      BY <2>0, <3>1, <3>2 DEF OpenInv, Aoa
  <2>2. CASE UNCHANGED device /\ aoa' = Processed
    BY <2>0, <2>2 DEF OpenInv, Aoa, Processed, AoaState
  <2>3. CASE device' = Closed(e.id) /\ aoa' = Processed
    <3>1. \A id \in Ids : device'.owner[id] \in {None, device.owner[id]}
      BY <2>3 DEF Closed, DeviceState
    <3> QED
      BY <2>0, <2>3, <3>1 DEF OpenInv, Aoa, Processed, AoaState
  <2>4. CASE hidPast' = [hidPast EXCEPT !.closeFailed = TRUE]
    BY <2>0, <2>4 DEF OpenInv, PastState
  <2> QED
    BY <1>5, <2>1, <2>2, <2>3, <2>4 DEF AoaOpen
<1>6. CASE AoaClose
  <2> DEFINE i == aoa.event[1].id
  <2>0. aoa'.thread = "ready" /\ UNCHANGED modes
    BY <1>6 DEF AoaClose, OnlyAoa, Processed, AoaState
  <2>1. CASE device' = Closed(i) /\ aoa' = [Processed EXCEPT !.open = @ \ {i}] /\ UNCHANGED hidPast
    <3>1. aoa'.open = aoa.open \ {i}
      BY <2>1 DEF Processed, AoaState
    <3>2. \A id \in Ids : device'.owner[id] = IF id = i THEN None ELSE device.owner[id]
      BY <2>1 DEF Closed, DeviceState
    <3> QED
      BY <2>0, <2>1, <3>1, <3>2 DEF OpenInv, Aoa
  <2>2. CASE hidPast' = [hidPast EXCEPT !.closeFailed = TRUE]
    BY <2>0, <2>2 DEF OpenInv, PastState
  <2> QED
    BY <1>6, <2>1, <2>2 DEF AoaClose
<1>7. CASE AoaUnregister
  <2>0. UNCHANGED modes
    BY <1>7 DEF AoaUnregister, OnlyAoa
  <2>1. CASE aoa.open = {} /\ aoa' = [aoa EXCEPT !.thread = "ended"] /\ UNCHANGED <<device, hidPast>>
    BY <2>0, <2>1 DEF OpenInv, Aoa, AoaState
  <2>2. ASSUME NEW i \in aoa.open, aoa' = [aoa EXCEPT !.open = @ \ {i}],
               device' = Closed(i), UNCHANGED hidPast
        PROVE  OpenInv'
    <3>1. aoa'.open = aoa.open \ {i} /\ aoa'.thread = "closing"
      BY <1>7, <2>2 DEF AoaUnregister, AoaState
    <3>2. \A id \in Ids : device'.owner[id] = IF id = i THEN None ELSE device.owner[id]
      BY <2>2 DEF Closed, DeviceState
    <3> QED
      BY <2>0, <2>2, <3>1, <3>2 DEF OpenInv, Aoa
  <2>3. ASSUME NEW i \in aoa.open, aoa' = [aoa EXCEPT !.open = @ \ {i}],
               hidPast' = [hidPast EXCEPT !.closeFailed = TRUE]
        PROVE  OpenInv'
    <3>1. aoa'.thread = "closing"
      BY <1>7, <2>3 DEF AoaUnregister, AoaState
    <3> QED
      BY <2>3, <3>1 DEF OpenInv, PastState
  <2> QED
    BY <1>7, <2>1, <2>2, <2>3 DEF AoaUnregister
<1>8. CASE DeviceReceives
  <2>1. UNCHANGED <<modes, aoa>> /\ hidPast'.closeFailed = hidPast.closeFailed
    BY <1>8 DEF DeviceReceives, PastState
  <2>2. ASSUME Aoa PROVE device'.owner = device.owner
    <3>1. Head(wire).type = "clipboard"
      BY <1>8, <2>2 DEF DeviceReceives, Routes
    <3> QED
      BY <1>8, <3>1 DEF DeviceReceives, DeviceState
  <2> QED
    BY <1>1, <2>1, <2>2
<1>9. CASE Receive \/ UNCHANGED hidVars
  BY <1>1, <1>9 DEF Receive, hidVars
<1> QED
  BY <1>2, <1>3, <1>4, <1>5, <1>6, <1>7, <1>8, <1>9 DEF HidNext

(* The AOA thread only waits when there is nothing to do.                  *)
LEMMA WaitStep == ASSUME TypeInv, WaitInv, [HidNext]_hidVars PROVE WaitInv'
<1> USE DEF TypeInv, Types
<1>1. CASE \/ \E g \in Gamepads : GamepadAdded(g) \/ GamepadRemoved(g) \/ GamepadInput(g)
           \/ MouseInput \/ Paste \/ UhidCapsPress \/ UhidCapsRelease \/ UhidKey
  BY <1>1, MainAoa DEF WaitInv
<1>2. CASE StopAoa
  BY <1>2 DEF StopAoa, WaitInv, AoaState
<1>3. CASE AoaTake
  <2>1. CASE aoa' = [aoa EXCEPT !.thread = "closing"]
    BY <2>1 DEF WaitInv, AoaState
  <2>2. CASE aoa' = [aoa EXCEPT !.thread = "waiting"] /\ aoa.queue = <<>> /\ ~aoa.stopped
    BY <2>2 DEF WaitInv, AoaState
  <2>3. CASE /\ aoa.queue # <<>>
             /\ aoa' = [aoa EXCEPT !.thread = Head(aoa.queue).type, !.queue = Tail(@),
                                   !.event = <<Head(aoa.queue)>>]
    <3>1. Head(aoa.queue) \in HidEvent
      BY <2>3, HeadTailProperties DEF AoaState
    <3>2. Head(aoa.queue).type # "waiting"
      BY <3>1 DEF HidEvent
    <3>3. aoa'.thread = Head(aoa.queue).type
      BY <2>3 DEF AoaState
    <3> QED
      BY <3>2, <3>3 DEF WaitInv
  <2> QED
    BY <1>3, <2>1, <2>2, <2>3 DEF AoaTake
<1>4. CASE AoaSpuriousWakeup \/ AoaInput \/ AoaOpen \/ AoaClose
  <2>1. CASE AoaSpuriousWakeup
    BY <2>1 DEF AoaSpuriousWakeup, WaitInv, AoaState
  <2>2. CASE AoaInput
    <3>1. aoa'.thread # "waiting"
      <4>1. \/ aoa' = [aoa EXCEPT !.thread = "ready", !.event = <<>>]
            \/ aoa' = [aoa EXCEPT !.thread = "closing", !.event = <<>>]
        BY <2>2 DEF AoaInput, Processed
      <4> QED
        BY <4>1 DEF AoaState
    <3> QED
      BY <3>1 DEF WaitInv
  <2>3. CASE AoaOpen
    <3>1. aoa'.thread # "waiting"
      BY <2>3 DEF AoaOpen, Processed, AoaState
    <3> QED
      BY <3>1 DEF WaitInv
  <2>4. CASE AoaClose
    <3>1. aoa'.thread # "waiting"
      BY <2>4 DEF AoaClose, Processed, AoaState
    <3> QED
      BY <3>1 DEF WaitInv
  <2> QED
    BY <1>4, <2>1, <2>2, <2>3, <2>4
<1>5. CASE AoaUnregister
  BY <1>5 DEF AoaUnregister, WaitInv, AoaState
<1>6. CASE InterruptAcksync \/ DeviceReceives \/ Receive \/ UNCHANGED hidVars
  BY <1>6 DEF InterruptAcksync, DeviceReceives, Receive, hidVars, WaitInv
<1> QED
  BY <1>1, <1>2, <1>3, <1>4, <1>5, <1>6 DEF HidNext

--------------------------------------------------------------------------------
(* The clipboard and Caps Lock                                             *)

(* What the device does with the first message.                            *)
LEMMA FirstMessage ==
    ASSUME TypeInv, DeviceReceives
    PROVE  /\ Head(wire) = wire[1] /\ Head(wire) \in WireEvent /\ 1 \in 1..Len(wire)
           /\ \A i \in 1..Len(wire') : i + 1 \in 1..Len(wire) /\ wire'[i] = wire[i + 1]
           /\ Len(wire) \in Nat /\ Len(wire') = Len(wire) - 1
           /\ device'.clip = IF Head(wire).type = "clipboard" THEN Head(wire).ack ELSE device.clip
           /\ device'.caps = IF Toggles(Head(wire)) THEN ~device.caps ELSE device.caps
           /\ device'.pressed <=> IF IsKeyboardReport(Head(wire)) THEN Head(wire).type = "caps"
                                  ELSE device.pressed
           /\ \/ back' = back \o <<[type |-> "ack", value |-> Head(wire).ack]>>
                 /\ Head(wire).type = "clipboard"
              \/ back' = back \o <<[type |-> "leds", value |-> ~device.caps]>>
                 /\ Toggles(Head(wire))
              \/ back' = back /\ (Toggles(Head(wire)) => hidPast'.refused)
           /\ hidPast.refused => hidPast'.refused
           /\ UNCHANGED <<modes, acksync, caps, sequence>>
<1> USE DEF TypeInv, Types
<1> DEFINE e == Head(wire)
<1>1. /\ wire # <<>> /\ wire' = Tail(wire) /\ e = wire[1] /\ e \in WireEvent
      /\ 1 \in 1..Len(wire) /\ Len(wire) \in Nat
  BY HeadTailProperties DEF DeviceReceives
<1>2. /\ Len(wire') = Len(wire) - 1
      /\ \A i \in 1..Len(wire') : i + 1 \in 1..Len(wire) /\ wire'[i] = wire[i + 1]
  BY <1>1, HeadTailProperties
<1>3. e.type \in {"clipboard", "open", "close", "input"} \/ IsKeyboardReport(e)
  BY <1>1 DEF WireEvent, HidEvent, CtrlEvent, IsKeyboardReport
<1>4. /\ e.type = "clipboard" => device' = [device EXCEPT !.clip = e.ack]
      /\ IsKeyboardReport(e) =>
            device' = [device EXCEPT !.pressed = (e.type = "caps"), !.caps = @ # Toggles(e)]
      /\ e.type = "open" => device' = Opened(e)
      /\ e.type = "close" => device' = Closed(e.id)
      /\ e.type = "input" => device' = Sent(e)
  BY DEF DeviceReceives, IsKeyboardReport
<1>5. /\ device'.clip = IF e.type = "clipboard" THEN e.ack ELSE device.clip
      /\ device'.caps = IF Toggles(e) THEN ~device.caps ELSE device.caps
      /\ device'.pressed <=> IF IsKeyboardReport(e) THEN e.type = "caps" ELSE device.pressed
  <2> HIDE DEF e
  <2>1. CASE e.type = "clipboard"
    BY <1>4, <2>1 DEF DeviceState, Toggles, IsKeyboardReport
  <2>2. CASE IsKeyboardReport(e)
    <3>1. device' = [device EXCEPT !.pressed = (e.type = "caps"), !.caps = @ # Toggles(e)]
      BY <1>4, <2>2
    <3>2. device'.clip = device.clip /\ device'.pressed = (e.type = "caps")
          /\ device'.caps = (device.caps # Toggles(e))
      BY <3>1 DEF DeviceState
    <3>3. device.caps \in BOOLEAN /\ Toggles(e) \in BOOLEAN /\ e.type # "clipboard"
      BY <2>2 DEF DeviceState, Toggles, IsKeyboardReport
    <3>4. (device.caps # Toggles(e)) = IF Toggles(e) THEN ~device.caps ELSE device.caps
      BY <3>3
    <3> QED
      BY <2>2, <3>2, <3>3, <3>4
  <2>3. CASE e.type = "open"
    BY <1>4, <2>3 DEF DeviceState, Opened, Toggles, IsKeyboardReport
  <2>4. CASE e.type = "close"
    BY <1>4, <2>4 DEF DeviceState, Closed, Toggles, IsKeyboardReport
  <2>5. CASE e.type = "input"
    BY <1>4, <2>5 DEF DeviceState, Sent, Toggles, IsKeyboardReport
  <2> QED
    BY <1>3, <2>1, <2>2, <2>3, <2>4, <2>5
<1>6. /\ \/ back' = back \o <<[type |-> "ack", value |-> e.ack]>> /\ e.type = "clipboard"
         \/ back' = back \o <<[type |-> "leds", value |-> ~device.caps]>> /\ Toggles(e)
         \/ back' = back /\ (Toggles(e) => hidPast'.refused)
      /\ hidPast.refused => hidPast'.refused
  <2>1. hidPast.refused => hidPast'.refused
    BY DEF DeviceReceives, PastState
  <2>2. CASE e.type = "clipboard"
    <3>1. ~Toggles(e)
      BY <2>2 DEF Toggles, IsKeyboardReport
    <3>2. back' = back \o <<[type |-> "ack", value |-> e.ack]>> \/ back' = back
      <4> HIDE DEF TypeInv, Types
      <4> QED
        BY <2>2, <3>1 DEF DeviceReceives
    <3> HIDE DEF TypeInv, Types, e
    <3> QED
      BY <2>1, <2>2, <3>1, <3>2
  <2>3. CASE Toggles(e)
    <3>0. e.type # "clipboard"
      BY <2>3 DEF Toggles, IsKeyboardReport
    <3>1. \/ back' = back \o <<[type |-> "leds", value |-> ~device.caps]>>
          \/ back' = back /\ hidPast' = [hidPast EXCEPT !.refused = @ \/ TRUE]
      BY <2>3, <3>0 DEF DeviceReceives
    <3>2. ASSUME hidPast' = [hidPast EXCEPT !.refused = @ \/ TRUE] PROVE hidPast'.refused
      BY <3>2 DEF PastState
    <3> HIDE DEF TypeInv, Types, e
    <3> QED
      BY <2>1, <2>3, <3>1, <3>2
  <2>4. CASE e.type # "clipboard" /\ ~Toggles(e)
    <3>1. back' = back \o <<>> \/ back' = back
      BY <2>4 DEF DeviceReceives
    <3>2. back' = back
      BY <3>1, ConcatEmptySeq
    <3> HIDE DEF TypeInv, Types, e
    <3> QED
      BY <2>1, <2>4, <3>2
  <2> QED
    BY <2>1, <2>2, <2>3, <2>4
<1> QED
  BY <1>1, <1>2, <1>5, <1>6 DEF DeviceReceives

(* And the receiver, with the first answer.                                *)
LEMMA FirstAnswer ==
    ASSUME TypeInv, Receive
    PROVE  /\ Head(back) = back[1] /\ 1 \in 1..Len(back)
           /\ Len(back) \in Nat /\ Len(back') = Len(back) - 1
           /\ \A i \in 1..Len(back') : i + 1 \in 1..Len(back) /\ back'[i] = back[i + 1]
           /\ acksync'.ack = IF back[1].type = "ack" THEN back[1].value ELSE acksync.ack
           /\ IF back[1].type = "ack" THEN UNCHANGED caps
              ELSE caps'.known = back[1].value /\ caps'.held = caps.held /\ caps'.answered
           /\ UNCHANGED <<modes, wire, device, sequence, hidPast>>
<1> USE DEF TypeInv, Types
<1>1. /\ back # <<>> /\ back' = Tail(back) /\ Head(back) = back[1]
      /\ 1 \in 1..Len(back) /\ Len(back) \in Nat
  BY HeadTailProperties DEF Receive
<1>2. /\ Len(back') = Len(back) - 1
      /\ \A i \in 1..Len(back') : i + 1 \in 1..Len(back) /\ back'[i] = back[i + 1]
  BY <1>1, HeadTailProperties
<1>3. acksync'.ack = IF back[1].type = "ack" THEN back[1].value ELSE acksync.ack
  BY <1>1 DEF Receive
<1>4. IF back[1].type = "ack" THEN UNCHANGED caps
      ELSE caps'.known = back[1].value /\ caps'.held = caps.held /\ caps'.answered
  BY <1>1 DEF Receive, LockState
<1> QED
  BY <1>1, <1>2, <1>3, <1>4 DEF Receive

(* What the main thread sends to the device.                               *)
LEMMA MainWire ==
    ASSUME TypeInv,
           \/ \E g \in Gamepads : GamepadAdded(g) \/ GamepadRemoved(g) \/ GamepadInput(g)
           \/ MouseInput \/ Paste \/ UhidCapsPress \/ UhidCapsRelease \/ UhidKey
    PROVE  /\ UNCHANGED <<modes, back, device, acksync>>
           /\ hidPast.refused => hidPast'.refused
           /\ \/ wire' = wire /\ (UNCHANGED caps \/ hidPast'.refused) /\ UNCHANGED sequence
              \/ /\ \E e \in HidEvent : wire' = Append(wire, e)
                 /\ UNCHANGED <<caps, sequence>>
              \/ /\ UhidCapsPress \/ UhidCapsRelease \/ UhidKey
                 /\ Keyed(wire, wire') /\ UNCHANGED sequence
              \/ /\ wire' = Append(wire, [type |-> "clipboard", id |-> None, owner |-> None,
                                          ack |-> sequence])
                 /\ sequence' = sequence + 1 /\ UNCHANGED caps
<1> USE DEF TypeInv, Types
<1>1. ASSUME NEW e \in HidEvent, Send(e)
      PROVE  /\ wire' = wire \/ wire' = Append(wire, e)
             /\ hidPast.refused => hidPast'.refused
  BY <1>1 DEF Send, PushUhid, PastState
<1>2. ASSUME NEW g \in Gamepads, GamepadAdded(g) \/ GamepadRemoved(g) \/ GamepadInput(g)
      PROVE  /\ wire' = wire \/ \E e \in HidEvent : wire' = Append(wire, e)
             /\ hidPast.refused => hidPast'.refused
             /\ UNCHANGED <<modes, back, device, acksync, caps, sequence>>
  <2>1. g \in Owner
    BY DEF Owner
  <2>2. \A i \in GamepadIds :
           Open(i, g) \in HidEvent /\ Close(i) \in HidEvent /\ Report(i, g, 0) \in HidEvent
    BY <2>1, EventTypes, IdsAreNumbers
  <2>3. (UNCHANGED <<wire, hidPast>>) \/ \E e \in HidEvent : Send(e)
    BY <1>2, <2>2 DEF GamepadAdded, GamepadRemoved, GamepadInput, GenerateOpen,
        First, SlotsOf
  <2> QED
    BY <1>1, <1>2, <2>3 DEF GamepadAdded, GamepadRemoved, GamepadInput
<1>3. CASE MouseInput
  <2>1. Report(Mouse, "mouse", 0) \in HidEvent
    BY EventTypes, IdsAreNumbers DEF Owner
  <2> QED
    BY <1>1, <1>3, <2>1 DEF MouseInput
<1>4. CASE Paste
  BY <1>4 DEF Paste, PastState
<1>5. CASE UhidCapsPress \/ UhidCapsRelease \/ UhidKey
  BY <1>5, KeysTypes DEF UhidCapsPress, UhidCapsRelease, UhidKey
<1> QED
  BY <1>2, <1>3, <1>4, <1>5

(* What the AOA thread leaves alone.                                       *)
LEMMA AoaWire ==
    ASSUME TypeInv,
           \/ StopAoa \/ InterruptAcksync \/ AoaTake \/ AoaSpuriousWakeup
           \/ AoaInput \/ AoaOpen \/ AoaClose \/ AoaUnregister
    PROVE  /\ UNCHANGED <<wire, back, caps, sequence>>
           /\ acksync'.ack = acksync.ack /\ device'.clip = device.clip
           /\ device'.caps = device.caps /\ device'.pressed = device.pressed
           /\ hidPast'.refused = hidPast.refused /\ UNCHANGED modes
<1> USE DEF TypeInv, Types
<1>1. CASE StopAoa \/ InterruptAcksync \/ AoaTake \/ AoaSpuriousWakeup
  BY <1>1 DEF StopAoa, InterruptAcksync, AoaTake, AoaSpuriousWakeup, OnlyAoa
<1>2. CASE AoaInput
  BY <1>2 DEF AoaInput, OnlyAoa, Sent, DeviceState
<1>3. CASE AoaOpen
  BY <1>3 DEF AoaOpen, OnlyAoa, Opened, Closed, DeviceState, PastState
<1>4. CASE AoaClose
  BY <1>4 DEF AoaClose, OnlyAoa, Closed, DeviceState, PastState
<1>5. CASE AoaUnregister
  BY <1>5 DEF AoaUnregister, OnlyAoa, Closed, DeviceState, PastState
<1> QED
  BY <1>1, <1>2, <1>3, <1>4, <1>5

(* The number of a new clipboard is the highest.                           *)
LEMMA AppendAck ==
    ASSUME TypeInv, AckInv, NEW e, wire' = Append(wire, e),
           UNCHANGED <<back, device, acksync>>, sequence' >= sequence, sequence' \in Nat,
           e.type = "clipboard" => e.ack = sequence /\ sequence' = sequence + 1
    PROVE  AckInv'
<1> USE DEF TypeInv, Types
<1>1. /\ Len(wire) \in Nat /\ Len(wire') = Len(wire) + 1 /\ wire'[Len(wire) + 1] = e
      /\ \A i \in 1..Len(wire) : wire'[i] = wire[i]
  OBVIOUS
<1>2. ASSUME NEW i \in 1..Len(wire), wire[i].type = "clipboard"
      PROVE  wire[i].ack \in Nat
  <2>1. wire[i] \in WireEvent
    BY ElementOfSeq
  <2> QED
    BY <2>1 DEF WireEvent, HidEvent, CtrlEvent
<1>3. /\ sequence \in Nat /\ device.clip \in Nat /\ acksync.ack \in Nat
  BY DEF DeviceState
<1>4. acksync'.ack <= device'.clip /\ device'.clip < sequence'
  BY <1>3 DEF AckInv
<1>5. ASSUME NEW i \in 1..Len(wire'), wire'[i].type = "clipboard"
      PROVE  device'.clip <= wire'[i].ack /\ wire'[i].ack < sequence'
  <2>1. CASE i \in 1..Len(wire)
    BY <1>1, <1>2, <1>3, <1>5, <2>1 DEF AckInv
  <2>2. CASE i = Len(wire) + 1
    BY <1>1, <1>3, <1>5, <2>2 DEF AckInv
  <2> QED
    BY <1>1, <2>1, <2>2
<1>6. ASSUME NEW i \in 1..Len(wire'), NEW j \in 1..Len(wire'), i <= j,
             wire'[i].type = "clipboard", wire'[j].type = "clipboard"
      PROVE  wire'[i].ack <= wire'[j].ack
  <2>1. CASE i \in 1..Len(wire) /\ j \in 1..Len(wire)
    BY <1>1, <1>6, <2>1 DEF AckInv
  <2>2. CASE i \in 1..Len(wire) /\ j = Len(wire) + 1
    BY <1>1, <1>2, <1>3, <1>6, <2>2 DEF AckInv
  <2>3. CASE i = Len(wire) + 1 /\ j = Len(wire) + 1
    BY <1>1, <1>3, <1>6, <2>3
  <2> QED
    BY <1>1, <1>6, <2>1, <2>2, <2>3
<1> QED
  BY <1>4, <1>5, <1>6 DEF AckInv

(* The reports of the keyboard have no number.                             *)
LEMMA KeyedAck ==
    ASSUME TypeInv, AckInv, Keyed(wire, wire'), UNCHANGED <<back, device, acksync, sequence>>
    PROVE  AckInv'
<1>1. ASSUME NEW i \in 1..Len(wire'), wire'[i].type = "clipboard"
      PROVE  i \in 1..Len(wire) /\ wire'[i] = wire[i]
  <2>1. i \notin Len(wire) + 1..Len(wire')
    BY <1>1 DEF Keyed, IsKeyboardReport
  <2>2. Len(wire) \in Nat /\ Len(wire') \in Nat
    BY DEF TypeInv, Types, Keyed
  <2>3. i \in 1..Len(wire)
    BY <2>1, <2>2
  <2> QED
    BY <2>3 DEF Keyed
<1> QED
  BY <1>1 DEF AckInv

(* No step puts the numbers of the clipboards out of order.                *)
LEMMA AckStep == ASSUME TypeInv, AckInv, [HidNext]_hidVars PROVE AckInv'
<1> USE DEF TypeInv, Types
<1>1. CASE UNCHANGED <<wire, back, sequence>> /\ device'.clip = device.clip
           /\ acksync'.ack = acksync.ack
  BY <1>1 DEF AckInv
<1>2. CASE \/ \E g \in Gamepads : GamepadAdded(g) \/ GamepadRemoved(g) \/ GamepadInput(g)
           \/ MouseInput \/ Paste \/ UhidCapsPress \/ UhidCapsRelease \/ UhidKey
  <2>1. UNCHANGED <<back, device, acksync>>
    BY <1>2, MainWire
  <2>2. CASE wire' = wire /\ UNCHANGED sequence
    BY <1>1, <2>1, <2>2
  <2>3. ASSUME NEW e \in HidEvent, wire' = Append(wire, e), UNCHANGED sequence PROVE AckInv'
    BY <2>1, <2>3, AppendAck DEF HidEvent
  <2>4. CASE Keyed(wire, wire') /\ UNCHANGED sequence
    BY <2>1, <2>4, KeyedAck
  <2>5. CASE /\ wire' = Append(wire, [type |-> "clipboard", id |-> None, owner |-> None,
                                      ack |-> sequence])
             /\ sequence' = sequence + 1
    BY <2>1, <2>5, AppendAck
  <2> QED
    BY <1>2, <2>2, <2>3, <2>4, <2>5, MainWire
<1>3. CASE \/ StopAoa \/ InterruptAcksync \/ AoaTake \/ AoaSpuriousWakeup
           \/ AoaInput \/ AoaOpen \/ AoaClose \/ AoaUnregister
  BY <1>1, <1>3, AoaWire
<1>4. CASE DeviceReceives
  <2> DEFINE e == wire[1]
  <2>0. /\ e \in WireEvent /\ 1 \in 1..Len(wire) /\ Len(wire) \in Nat
        /\ Len(wire') = Len(wire) - 1
        /\ \A i \in 1..Len(wire') : i + 1 \in 1..Len(wire) /\ wire'[i] = wire[i + 1]
        /\ UNCHANGED <<acksync, sequence>>
        /\ device'.clip = IF e.type = "clipboard" THEN e.ack ELSE device.clip
    BY <1>4, FirstMessage
  <2>1. /\ sequence \in Nat /\ device.clip \in Nat /\ acksync.ack \in Nat
        /\ e.type = "clipboard" => e.ack \in Nat
    BY <2>0 DEF DeviceState, WireEvent, HidEvent, CtrlEvent
  <2>2. device.clip <= device'.clip /\ device'.clip < sequence /\ device'.clip \in Nat
    <3>1. /\ device.clip < sequence
          /\ e.type = "clipboard" => device.clip <= e.ack /\ e.ack < sequence
      BY <2>0 DEF AckInv
    <3> HIDE DEF TypeInv, Types, e
    <3> QED
      BY <2>0, <2>1, <3>1
  <2>3. acksync'.ack <= device'.clip /\ device'.clip < sequence'
    <3>1. acksync.ack <= device.clip
      BY DEF AckInv
    <3>2. acksync'.ack = acksync.ack /\ sequence' = sequence
      BY <2>0
    <3> HIDE DEF TypeInv, Types, e
    <3> QED
      BY <2>1, <2>2, <3>1, <3>2
  <2>4. ASSUME NEW i \in 1..Len(back'), back'[i].type = "ack"
        PROVE  back'[i].value <= device'.clip
    <3>0. ASSUME NEW j \in 1..Len(back), back[j].type = "ack"
          PROVE  back[j].value <= device'.clip
      <4>1. back[j].value \in Nat
        <5>1. back[j] \in Answer
          BY ElementOfSeq
        <5> QED
          BY <3>0, <5>1 DEF Answer
      <4> QED
        BY <2>1, <2>2, <3>0, <4>1 DEF AckInv
    <3>1. CASE back' = back
      BY <2>4, <3>0, <3>1
    <3>2. CASE back' = back \o <<[type |-> "ack", value |-> e.ack]>> /\ e.type = "clipboard"
      <4>1. /\ Len(back') = Len(back) + 1 /\ Len(back) \in Nat
            /\ back'[Len(back) + 1] = [type |-> "ack", value |-> e.ack]
            /\ \A j \in 1..Len(back) : back'[j] = back[j]
        BY <3>2
      <4>2. CASE i \in 1..Len(back)
        BY <2>4, <3>0, <4>1, <4>2
      <4>3. CASE i = Len(back) + 1
        <5>1. back'[i].value = device'.clip
          <6>1. device'.clip = e.ack
            BY <2>0, <3>2
          <6>2. back'[i] = [type |-> "ack", value |-> e.ack]
            BY <4>1, <4>3
          <6> HIDE DEF TypeInv, Types, e
          <6> QED
            BY <6>1, <6>2
        <5> QED
          BY <2>2, <5>1
      <4> QED
        BY <4>1, <4>2, <4>3
    <3>3. CASE back' = back \o <<[type |-> "leds", value |-> ~device.caps]>>
      <4>1. /\ Len(back') = Len(back) + 1 /\ Len(back) \in Nat
            /\ back'[Len(back) + 1] = [type |-> "leds", value |-> ~device.caps]
            /\ \A j \in 1..Len(back) : back'[j] = back[j]
        BY <3>3
      <4>2. CASE i \in 1..Len(back)
        BY <2>4, <3>0, <4>1, <4>2
      <4>3. CASE i = Len(back) + 1
        BY <2>4, <4>1, <4>3
      <4> QED
        BY <4>1, <4>2, <4>3
    <3> QED
      BY <1>4, <3>1, <3>2, <3>3, FirstMessage
  <2>5. ASSUME NEW i \in 1..Len(wire'), wire'[i].type = "clipboard"
        PROVE  device'.clip <= wire'[i].ack /\ wire'[i].ack < sequence'
    <3>1. i + 1 \in 1..Len(wire) /\ wire[i + 1].type = "clipboard" /\ wire'[i] = wire[i + 1]
      BY <2>0, <2>5
    <3>2. e.type = "clipboard" => e.ack <= wire[i + 1].ack
      BY <2>0, <3>1 DEF AckInv
    <3> QED
      BY <2>0, <3>1, <3>2 DEF AckInv
  <2>6. ASSUME NEW i \in 1..Len(wire'), NEW j \in 1..Len(wire'), i <= j,
               wire'[i].type = "clipboard", wire'[j].type = "clipboard"
        PROVE  wire'[i].ack <= wire'[j].ack
    <3>1. /\ i + 1 \in 1..Len(wire) /\ wire'[i] = wire[i + 1]
          /\ j + 1 \in 1..Len(wire) /\ wire'[j] = wire[j + 1] /\ i + 1 <= j + 1
      BY <2>0, <2>6
    <3> QED
      BY <2>6, <3>1 DEF AckInv
  <2> QED
    BY <2>3, <2>4, <2>5, <2>6 DEF AckInv
<1>5. CASE Receive
  <2>1. acksync'.ack <= device'.clip
    BY <1>5, FirstAnswer DEF AckInv
  <2>2. ASSUME NEW i \in 1..Len(back'), back'[i].type = "ack"
        PROVE  back'[i].value <= device'.clip
    <3>1. i + 1 \in 1..Len(back) /\ back'[i] = back[i + 1] /\ UNCHANGED device
      BY <1>5, FirstAnswer
    <3> QED
      BY <2>2, <3>1 DEF AckInv
  <2> QED
    BY <1>5, <2>1, <2>2, FirstAnswer DEF AckInv
<1>6. CASE UNCHANGED hidVars
  BY <1>1, <1>6 DEF hidVars
<1> QED
  BY <1>2, <1>3, <1>4, <1>5, <1>6 DEF HidNext

(* The acknowledgements come back in the order of their numbers, none      *)
(* below the last one received: what sc_acksync_ack() asserts.             *)
LEMMA BackStep == ASSUME TypeInv, AckInv, BackInv, [HidNext]_hidVars PROVE BackInv'
<1> USE DEF TypeInv, Types
<1>1. CASE back' = back /\ acksync'.ack = acksync.ack
  BY <1>1 DEF BackInv
<1>2. ASSUME NEW k \in 1..Len(back), back[k].type = "ack"
      PROVE  back[k].value \in Nat /\ back[k].value <= device.clip
  <2>1. back[k] \in Answer
    BY ElementOfSeq
  <2> QED
    BY <1>2, <2>1 DEF Answer, AckInv
<1>3. CASE DeviceReceives
  <2> DEFINE e == wire[1]
  <2>1. /\ e \in WireEvent /\ 1 \in 1..Len(wire)
        /\ acksync' = acksync
        /\ \/ back' = back \o <<[type |-> "ack", value |-> e.ack]>> /\ e.type = "clipboard"
           \/ back' = back \o <<[type |-> "leds", value |-> ~device.caps]>>
           \/ back' = back
    BY <1>3, FirstMessage
  <2>2. CASE back' = back
    BY <1>1, <2>1, <2>2
  <2>3. CASE back' = back \o <<[type |-> "leds", value |-> ~device.caps]>>
    <3>1. /\ Len(back) \in Nat /\ Len(back') = Len(back) + 1
          /\ back'[Len(back) + 1].type = "leds"
          /\ \A k \in 1..Len(back) : back'[k] = back[k]
      BY <2>3
    <3>2. ASSUME NEW k \in 1..Len(back'), back'[k].type = "ack"
          PROVE  k \in 1..Len(back) /\ back'[k] = back[k]
      BY <3>1, <3>2
    <3> HIDE DEF TypeInv, Types, e
    <3> QED
      BY <2>1, <3>2 DEF BackInv
  <2>4. CASE back' = back \o <<[type |-> "ack", value |-> e.ack]>> /\ e.type = "clipboard"
    <3>1. /\ Len(back) \in Nat /\ Len(back') = Len(back) + 1
          /\ back'[Len(back) + 1] = [type |-> "ack", value |-> e.ack]
          /\ \A k \in 1..Len(back) : back'[k] = back[k]
      BY <2>4
    <3>2. /\ e.ack \in Nat /\ device.clip <= e.ack /\ acksync.ack <= device.clip
          /\ device.clip \in Nat /\ acksync.ack \in Nat
      BY <2>1, <2>4 DEF AckInv, WireEvent, HidEvent, CtrlEvent, DeviceState
    <3> HIDE DEF TypeInv, Types, e
    <3>3. ASSUME NEW k \in 1..Len(back'), back'[k].type = "ack"
          PROVE  acksync.ack <= back'[k].value
      <4>1. CASE k \in 1..Len(back)
        BY <3>1, <3>3, <4>1 DEF BackInv
      <4>2. CASE k = Len(back) + 1
        BY <3>1, <3>2, <4>2
      <4> QED
        BY <3>1, <4>1, <4>2
    <3>4. ASSUME NEW k \in 1..Len(back'), NEW m \in 1..Len(back'), k <= m,
                 back'[k].type = "ack", back'[m].type = "ack"
          PROVE  back'[k].value <= back'[m].value
      <4>1. CASE m \in 1..Len(back)
        BY <3>1, <3>4, <4>1 DEF BackInv
      <4>2. CASE m = Len(back) + 1 /\ k \in 1..Len(back)
        BY <1>2, <3>1, <3>2, <3>4, <4>2
      <4>3. CASE m = Len(back) + 1 /\ k = Len(back) + 1
        BY <3>1, <3>2, <4>3
      <4> QED
        BY <3>1, <3>4, <4>1, <4>2, <4>3
    <3> QED
      BY <2>1, <3>3, <3>4 DEF BackInv
  <2> QED
    BY <2>1, <2>2, <2>3, <2>4
<1>4. CASE Receive
  <2>1. /\ 1 \in 1..Len(back)
        /\ \A k \in 1..Len(back') : k + 1 \in 1..Len(back) /\ back'[k] = back[k + 1]
        /\ acksync'.ack = IF back[1].type = "ack" THEN back[1].value ELSE acksync.ack
    BY <1>4, FirstAnswer
  <2> HIDE DEF TypeInv, Types
  <2>2. ASSUME NEW k \in 1..Len(back'), back'[k].type = "ack" PROVE acksync'.ack <= back'[k].value
    BY <2>1, <2>2 DEF BackInv
  <2>3. ASSUME NEW k \in 1..Len(back'), NEW m \in 1..Len(back'), k <= m,
               back'[k].type = "ack", back'[m].type = "ack"
        PROVE  back'[k].value <= back'[m].value
    <3>1. /\ k + 1 \in 1..Len(back) /\ back'[k] = back[k + 1]
          /\ m + 1 \in 1..Len(back) /\ back'[m] = back[m + 1] /\ k + 1 <= m + 1
      BY <2>1, <2>3
    <3> QED
      BY <2>3, <3>1 DEF BackInv
  <2> QED
    BY <2>2, <2>3 DEF BackInv
<1>5. CASE \/ \E g \in Gamepads : GamepadAdded(g) \/ GamepadRemoved(g) \/ GamepadInput(g)
           \/ MouseInput \/ Paste \/ UhidCapsPress \/ UhidCapsRelease \/ UhidKey
  BY <1>1, <1>5, MainWire
<1>6. CASE \/ StopAoa \/ InterruptAcksync \/ AoaTake \/ AoaSpuriousWakeup
           \/ AoaInput \/ AoaOpen \/ AoaClose \/ AoaUnregister
  BY <1>1, <1>6, AoaWire
<1>7. CASE UNCHANGED hidVars
  BY <1>1, <1>7 DEF hidVars
<1> QED
  BY <1>3, <1>4, <1>5, <1>6, <1>7 DEF HidNext

(* A message that is not a report of the keyboard changes nothing of them. *)
LEMMA OtherCaps ==
    ASSUME TypeInv, HeldInv, StrokeInv, NEW e \in WireEvent, ~IsKeyboardReport(e),
           wire' = Append(wire, e), UNCHANGED <<modes, back, device, caps>>
    PROVE  HeldInv' /\ StrokeInv'
<1>1. /\ Len(wire') = Len(wire) + 1 /\ Len(wire) \in Nat /\ wire'[Len(wire) + 1] = e
      /\ \A i \in 1..Len(wire) : wire'[i] = wire[i] /\ i \in 1..Len(wire')
  BY DEF TypeInv, Types
<1>2. HeldInv'
  <2>1. PICK k \in 0..Len(wire) :
           /\ k = 0 => (device.pressed <=> caps.held)
           /\ k > 0 => IsKeyboardReport(wire[k]) /\ (wire[k].type = "caps" <=> caps.held)
           /\ \A j \in k + 1..Len(wire) : ~IsKeyboardReport(wire[j])
    BY DEF HeldInv
  <2>2. ASSUME NEW j \in k + 1..Len(wire') PROVE ~IsKeyboardReport(wire'[j])
    <3>1. j = Len(wire) + 1 \/ (j \in k + 1..Len(wire) /\ wire'[j] = wire[j])
      BY <1>1
    <3> QED
      BY <1>1, <2>1, <3>1
  <2>3. k > 0 => wire'[k] = wire[k]
    BY <1>1
  <2>4. k \in 0..Len(wire')
    BY <1>1
  <2> QED
    BY <2>1, <2>2, <2>3, <2>4 DEF HeldInv, IsKeyboardReport
<1>3. StrokeInv'
  BY <1>1 DEF StrokeInv, NoLights
<1> QED
  BY <1>2, <1>3

(* The last report that is sent tells whether Caps Lock is held.           *)
LEMMA LastReport ==
    ASSUME TypeInv, wire' \in Seq(WireEvent), Len(wire') > 0,
           wire'[Len(wire')] = (IF caps'.held THEN Caps ELSE Keys)
    PROVE  HeldInv'
<1>1. Len(wire') \in 0..Len(wire') /\ Len(wire') # 0
  OBVIOUS
<1>2. IsKeyboardReport(wire'[Len(wire')]) /\ (wire'[Len(wire')].type = "caps" <=> caps'.held)
  BY DEF IsKeyboardReport, Caps, Keys
<1>3. \A j \in Len(wire') + 1..Len(wire') : FALSE
  OBVIOUS
<1> QED
  BY <1>1, <1>2, <1>3 DEF HeldInv, IsKeyboardReport

(* The keyboard over UHID: a toggle comes with its report.                 *)
LEMMA KeysCaps ==
    ASSUME TypeInv, CapsInv, UhidCapsPress \/ UhidCapsRelease \/ UhidKey, ~hidPast'.refused
    PROVE  CapsInv'
<1> USE DEF TypeInv, Types
<1>1. /\ UNCHANGED <<modes, back, device>> /\ ~hidPast.refused
      /\ caps' \in LockState /\ wire' \in Seq(WireEvent) /\ Keyed(wire, wire')
  BY KeysTypes DEF UhidCapsPress, UhidCapsRelease, UhidKey
<1>2. LightsInv /\ KnownInv /\ HeldInv /\ StrokeInv
  BY <1>1 DEF CapsInv
<1>3. LightsInv'
  BY <1>1, <1>2 DEF LightsInv
<1>4. Caps \in WireEvent /\ Keys \in WireEvent /\ Caps.type = "caps"
  BY EventTypes DEF WireEvent, Caps
<1>5. Len(wire) \in Nat
  OBVIOUS
<1>6. CASE UhidCapsPress
  <2>1. /\ caps'.held /\ ~caps'.answered
    BY <1>6 DEF UhidCapsPress, LockState
  <2>2. wire' = Append(wire, Caps)
    <3>1. PushUhid(Caps)
      BY <1>6 DEF UhidCapsPress
    <3>2. hidPast' = [hidPast EXCEPT !.inputs = @ + 1, !.refused = TRUE] => hidPast'.refused
      BY DEF PastState
    <3> QED
      BY <1>1, <3>1, <3>2 DEF PushUhid
  <2>3. wire'[Len(wire')] = Caps /\ Len(wire') > 0
    BY <1>4, <1>5, <2>2
  <2>4. HeldInv'
    BY <1>1, <2>1, <2>3, LastReport
  <2> QED
    BY <1>3, <2>1, <2>4 DEF CapsInv, KnownInv, StrokeInv
<1>7. CASE UhidCapsRelease
  <2>1. ~caps'.held /\ ~caps'.answered /\ caps.held
    BY <1>7 DEF UhidCapsRelease, LockState
  <2>2. wire' = Append(wire, Keys)
    <3>1. PushUhid(Keys)
      BY <1>7 DEF UhidCapsRelease
    <3>2. hidPast' = [hidPast EXCEPT !.inputs = @ + 1, !.refused = TRUE] => hidPast'.refused
      BY DEF PastState
    <3> QED
      BY <1>1, <3>1, <3>2 DEF PushUhid
  <2>3. wire'[Len(wire')] = Keys /\ Len(wire') > 0
    BY <1>4, <1>5, <2>2
  <2>4. HeldInv'
    BY <1>1, <2>1, <2>3, LastReport
  <2>5. StrokeInv'
    <3>1. device.pressed \/ \E k \in 1..Len(wire) : wire[k].type = "caps"
      BY <1>2, <1>5, <2>1 DEF HeldInv
    <3>2. \A k \in 1..Len(wire) : k \in 1..Len(wire') /\ wire'[k] = wire[k]
      BY <1>1, <1>5 DEF Keyed
    <3> QED
      BY <1>1, <3>1, <3>2 DEF StrokeInv
  <2> QED
    BY <1>3, <2>1, <2>4, <2>5 DEF CapsInv, KnownInv
<1>8. CASE UhidKey
  <2> DEFINE report == IF caps.held THEN Caps ELSE Keys
  <2>1. caps'.held = caps.held /\ caps.held \in BOOLEAN
    BY <1>8 DEF UhidKey, LockState
  <2>2. \/ wire' = Append(wire, report) /\ caps.host = caps.known
        \/ wire' = Append(Append(wire, Caps), report)
    BY <1>1, <1>8, KeyReports
  <2>3. report \in WireEvent
    BY <1>4
  <2>4. HeldInv'
    <3>1. wire'[Len(wire')] = report /\ Len(wire') > 0
      <4>1. ASSUME NEW w \in Seq(WireEvent), NEW e \in WireEvent
            PROVE  Append(w, e)[Len(Append(w, e))] = e /\ Len(Append(w, e)) > 0
        OBVIOUS
      <4>2. Append(wire, Caps) \in Seq(WireEvent)
        BY <1>4
      <4> HIDE DEF report, TypeInv, Types
      <4>3. wire \in Seq(WireEvent)
        BY DEF TypeInv, Types
      <4> QED
        BY <2>2, <2>3, <4>1, <4>2, <4>3
    <3> QED
      BY <1>1, <2>1, <3>1, LastReport
  <2>5. CASE wire' = Append(wire, report) /\ caps.host = caps.known
    <3>1. UNCHANGED caps
      BY <1>8, <2>5 DEF UhidKey
    <3>2. \A k \in 1..Len(wire) : k \in 1..Len(wire') /\ wire'[k] = wire[k]
      BY <1>1, <1>5 DEF Keyed
    <3>3. KnownInv' /\ StrokeInv'
      BY <1>1, <1>2, <3>1, <3>2 DEF KnownInv, StrokeInv, NoLights
    <3> QED
      BY <1>3, <2>4, <3>3 DEF CapsInv
  <2>6. CASE wire' = Append(Append(wire, Caps), report)
    <3>1. Len(wire) + 1 \in 1..Len(wire') /\ wire'[Len(wire) + 1] = Caps
      <4> HIDE DEF report
      <4> QED
        BY <1>4, <1>5, <2>3, <2>6
    <3>2. StrokeInv'
      BY <1>4, <3>1 DEF StrokeInv
    <3>3. KnownInv'
      <4>1. UNCHANGED caps \/ ~caps'.answered
        BY <1>8 DEF UhidKey, LockState
      <4> QED
        BY <1>1, <1>2, <4>1 DEF KnownInv, NoLights
    <3> QED
      BY <1>3, <2>4, <3>2, <3>3 DEF CapsInv
  <2> QED
    BY <2>2, <2>5, <2>6
<1> QED
  BY <1>6, <1>7, <1>8

(* The device: a report that toggles the lock comes with its lights.       *)
LEMMA DeviceCaps ==
    ASSUME TypeInv, CapsInv, DeviceReceives, ~hidPast'.refused
    PROVE  CapsInv'
<1> DEFINE e == wire[1]
<1>0. /\ ~hidPast.refused /\ UNCHANGED <<modes, caps>> /\ Len(wire) \in Nat
      /\ 1 \in 1..Len(wire) /\ Len(wire') = Len(wire) - 1
      /\ \A i \in 1..Len(wire') : i + 1 \in 1..Len(wire) /\ wire'[i] = wire[i + 1]
      /\ device'.caps = IF Toggles(e) THEN ~device.caps ELSE device.caps
      /\ device'.pressed <=> IF IsKeyboardReport(e) THEN e.type = "caps" ELSE device.pressed
      /\ \/ back' = back \o <<[type |-> "ack", value |-> e.ack]>> /\ e.type = "clipboard"
         \/ back' = back \o <<[type |-> "leds", value |-> ~device.caps]>> /\ Toggles(e)
         \/ back' = back /\ ~Toggles(e)
  BY FirstMessage
<1>1. LightsInv /\ KnownInv /\ HeldInv /\ StrokeInv
  BY <1>0 DEF CapsInv
<1>2. back \in Seq(Answer)
  BY DEF TypeInv, Types
<1>3. ASSUME NEW j \in 2..Len(wire) PROVE j - 1 \in 1..Len(wire') /\ wire'[j - 1] = wire[j]
  BY <1>0
<1> HIDE DEF e
<1>4. HeldInv'
  <2>1. PICK k \in 0..Len(wire) :
           /\ k = 0 => (device.pressed <=> caps.held)
           /\ k > 0 => IsKeyboardReport(wire[k]) /\ (wire[k].type = "caps" <=> caps.held)
           /\ \A j \in k + 1..Len(wire) : ~IsKeyboardReport(wire[j])
    BY <1>1 DEF HeldInv
  <2>2. ASSUME NEW n \in 0..Len(wire'), NEW j \in n + 1..Len(wire'), n + 1 >= k
        PROVE  ~IsKeyboardReport(wire'[j])
    <3>1. j \in 1..Len(wire') /\ j + 1 >= k + 1
      BY <1>0, <2>2
    <3>2. j + 1 \in 1..Len(wire) /\ wire'[j] = wire[j + 1]
      BY <1>0, <3>1
    <3>3. j + 1 \in k + 1..Len(wire)
      BY <3>1, <3>2
    <3> QED
      BY <2>1, <3>2, <3>3
  <2>3. CASE k >= 2
    <3>1. k - 1 \in 1..Len(wire') /\ wire'[k - 1] = wire[k] /\ k - 1 \in 0..Len(wire')
          /\ k - 1 # 0 /\ (k - 1) + 1 >= k
      BY <1>3, <2>3
    <3>2. IsKeyboardReport(wire'[k - 1]) /\ (wire'[k - 1].type = "caps" <=> caps'.held)
      BY <1>0, <2>1, <2>3, <3>1
    <3>3. \A j \in (k - 1) + 1..Len(wire') : ~IsKeyboardReport(wire'[j])
      BY <2>2, <3>1
    <3> QED
      BY <3>1, <3>2, <3>3 DEF HeldInv, IsKeyboardReport
  <2>4. CASE k = 1
    <3>1. device'.pressed <=> caps'.held
      BY <1>0, <2>1, <2>4 DEF e
    <3>2. 0 \in 0..Len(wire') /\ 0 + 1 >= k
      BY <1>0, <2>4
    <3> QED
      BY <2>2, <3>1, <3>2 DEF HeldInv, IsKeyboardReport
  <2>5. CASE k = 0
    <3>1. ~IsKeyboardReport(e)
      BY <1>0, <2>1, <2>5 DEF e
    <3>2. device'.pressed <=> caps'.held
      BY <1>0, <2>1, <2>5, <3>1
    <3>3. 0 \in 0..Len(wire') /\ 0 + 1 >= k
      BY <1>0, <2>5
    <3> QED
      BY <2>2, <3>2, <3>3 DEF HeldInv, IsKeyboardReport
  <2> QED
    BY <1>0, <2>3, <2>4, <2>5
<1>5. ASSUME \E i \in 1..Len(wire) : wire[i].type = "caps", ~Toggles(e)
      PROVE  device'.pressed \/ \E i \in 1..Len(wire') : wire'[i].type = "caps"
  <2>1. PICK i \in 1..Len(wire) : wire[i].type = "caps"
    BY <1>5
  <2>2. CASE i = 1
    BY <1>0, <2>1, <2>2 DEF e, IsKeyboardReport
  <2>3. CASE i \in 2..Len(wire)
    BY <1>3, <2>1, <2>3
  <2> QED
    BY <1>0, <2>2, <2>3
<1>6. ASSUME modes.locks = "release", device.pressed, ~Toggles(e) PROVE device'.pressed
  BY <1>0, <1>6 DEF Toggles, IsKeyboardReport
<1>7. CASE Toggles(e)
  <2>0. back' = back \o <<[type |-> "leds", value |-> ~device.caps]>>
    <3>1. e.type # "clipboard"
      BY <1>7 DEF Toggles, IsKeyboardReport
    <3> QED
      BY <1>0, <1>7, <3>1
  <2>1. /\ Len(back') = Len(back) + 1 /\ Len(back) \in Nat
        /\ back'[Len(back) + 1] = [type |-> "leds", value |-> ~device.caps]
    BY <1>2, <2>0
  <2>2. Len(back) + 1 \in 1..Len(back') /\ back'[Len(back) + 1].type = "leds"
        /\ back'[Len(back) + 1].value = ~device.caps
    BY <2>1
  <2>3. device'.caps = ~device.caps
    BY <1>0, <1>7
  <2>4. ASSUME NEW i \in 1..Len(back'),
               \A j \in i + 1..Len(back') : back'[j].type # "leds"
        PROVE  back'[i].value = device'.caps
    <3>1. i = Len(back) + 1
      BY <2>1, <2>2, <2>4
    <3> QED
      BY <2>2, <2>3, <3>1
  <2>5. LightsInv' /\ ~NoLights'
    BY <2>2, <2>4 DEF LightsInv, NoLights
  <2> QED
    BY <1>4, <2>5 DEF CapsInv, KnownInv, StrokeInv
<1>8. CASE ~Toggles(e)
  <2>1. device'.caps = device.caps
    BY <1>0, <1>8
  <2>2. LightsInv' /\ (NoLights' <=> NoLights)
    <3>1. CASE back' = back
      BY <1>1, <2>1, <3>1 DEF LightsInv, NoLights
    <3>2. CASE back' = back \o <<[type |-> "ack", value |-> e.ack]>>
      <4>0. /\ Len(back') = Len(back) + 1 /\ Len(back) \in Nat
            /\ back'[Len(back) + 1].type = "ack"
            /\ \A i \in 1..Len(back) : back'[i] = back[i] /\ i \in 1..Len(back')
        BY <1>2, <3>2
      <4>1. ASSUME NEW i \in 1..Len(back'), back'[i].type = "leds",
                   \A j \in i + 1..Len(back') : back'[j].type # "leds"
            PROVE  back'[i].value = device'.caps
        <5>1. i \in 1..Len(back)
          BY <4>0, <4>1
        <5>2. ASSUME NEW j \in i + 1..Len(back) PROVE back[j].type # "leds"
          <6>1. j \in i + 1..Len(back') /\ j \in 1..Len(back)
            BY <4>0, <5>1
          <6> QED
            BY <4>0, <4>1, <6>1
        <5> QED
          BY <1>1, <2>1, <4>0, <4>1, <5>1, <5>2 DEF LightsInv
      <4>2. NoLights' <=> NoLights
        BY <4>0 DEF NoLights
      <4> QED
        BY <4>1, <4>2 DEF LightsInv
    <3> QED
      BY <1>0, <1>8, <3>1, <3>2
  <2>3. KnownInv'
    BY <1>0, <1>1, <2>1, <2>2 DEF KnownInv
  <2>4. StrokeInv'
    BY <1>0, <1>1, <1>5, <1>6, <1>8, <2>2 DEF StrokeInv
  <2> QED
    BY <1>4, <2>2, <2>3, <2>4 DEF CapsInv
<1> QED
  BY <1>7, <1>8

(* The receiver: the keyboard is told the last lights in the end.          *)
LEMMA ReceiveCaps ==
    ASSUME TypeInv, CapsInv, Receive, ~hidPast'.refused
    PROVE  CapsInv'
<1>0. /\ 1 \in 1..Len(back) /\ Len(back) \in Nat /\ Len(back') = Len(back) - 1
      /\ \A i \in 1..Len(back') : i + 1 \in 1..Len(back) /\ back'[i] = back[i + 1]
      /\ IF back[1].type = "ack" THEN UNCHANGED caps
         ELSE caps'.known = back[1].value /\ caps'.held = caps.held /\ caps'.answered
      /\ UNCHANGED <<modes, wire, device, hidPast>>
  BY FirstAnswer
<1>1. LightsInv /\ KnownInv /\ HeldInv /\ StrokeInv
  BY <1>0 DEF CapsInv
<1>2. ASSUME NEW j \in 2..Len(back) PROVE j - 1 \in 1..Len(back') /\ back'[j - 1] = back[j]
  BY <1>0
<1>3. LightsInv'
  <2> SUFFICES ASSUME NEW i \in 1..Len(back'), back'[i].type = "leds",
                      \A j \in i + 1..Len(back') : back'[j].type # "leds"
               PROVE  back'[i].value = device'.caps
    BY DEF LightsInv
  <2>1. i + 1 \in 1..Len(back) /\ back[i + 1].type = "leds"
    BY <1>0
  <2>2. ASSUME NEW j \in (i + 1) + 1..Len(back) PROVE back[j].type # "leds"
    <3>1. j - 1 \in i + 1..Len(back') /\ back'[j - 1] = back[j]
      BY <1>0
    <3> QED
      BY <3>1
  <2> QED
    BY <1>0, <1>1, <2>1, <2>2 DEF LightsInv
<1>4. HeldInv'
  BY <1>0, <1>1 DEF HeldInv
<1>5. CASE back[1].type = "ack"
  <2>1. NoLights' <=> NoLights
    <3>1. ASSUME NoLights' PROVE NoLights
      <4>1. ASSUME NEW i \in 1..Len(back) PROVE back[i].type # "leds"
        <5>1. i = 1 \/ i \in 2..Len(back)
          BY <1>0
        <5> QED
          BY <1>2, <1>5, <3>1, <5>1 DEF NoLights
      <4> QED
        BY <4>1 DEF NoLights
    <3>2. ASSUME NoLights PROVE NoLights'
      BY <1>0, <3>2 DEF NoLights
    <3> QED
      BY <3>1, <3>2
  <2> QED
    BY <1>0, <1>1, <1>3, <1>4, <1>5, <2>1 DEF CapsInv, KnownInv, StrokeInv
<1>6. CASE back[1].type # "ack"
  <2>1. back[1].type = "leds"
    <3>1. back[1] \in Answer
      BY <1>0, ElementOfSeq DEF TypeInv, Types
    <3> QED
      BY <1>6, <3>1 DEF Answer
  <2>2. NoLights' => caps'.known = device'.caps
    <3> SUFFICES ASSUME NoLights' PROVE back[1].value = device.caps
      BY <1>0, <1>6
    <3>1. ASSUME NEW j \in 1 + 1..Len(back) PROVE back[j].type # "leds"
      BY <1>2 DEF NoLights
    <3> QED
      BY <1>0, <1>1, <2>1, <3>1 DEF LightsInv
  <2> QED
    BY <1>0, <1>3, <1>4, <1>6, <2>2 DEF CapsInv, KnownInv, StrokeInv
<1> QED
  BY <1>5, <1>6

(* What the keyboard knows of Caps Lock stays explained by what is on its  *)
(* way.                                                                    *)
LEMMA CapsStep == ASSUME TypeInv, CapsInv, [HidNext]_hidVars PROVE CapsInv'
<1>1. CASE /\ UNCHANGED <<modes, wire, back, caps>> /\ device'.caps = device.caps
           /\ device'.pressed = device.pressed /\ hidPast'.refused = hidPast.refused
  BY <1>1 DEF CapsInv, LightsInv, KnownInv, HeldInv, StrokeInv, NoLights
<1>2. CASE \/ \E g \in Gamepads : GamepadAdded(g) \/ GamepadRemoved(g) \/ GamepadInput(g)
           \/ MouseInput \/ Paste \/ UhidCapsPress \/ UhidCapsRelease \/ UhidKey
  <2> SUFFICES ASSUME ~hidPast'.refused PROVE CapsInv'
    BY DEF CapsInv
  <2>0. UNCHANGED <<modes, back, device>> /\ ~hidPast.refused
    BY <1>2, MainWire
  <2>1. LightsInv /\ KnownInv /\ HeldInv /\ StrokeInv
    BY <2>0 DEF CapsInv
  <2>2. ASSUME NEW e \in WireEvent, ~IsKeyboardReport(e), wire' = Append(wire, e), UNCHANGED caps
        PROVE  CapsInv'
    <3>1. HeldInv' /\ StrokeInv'
      BY <2>0, <2>1, <2>2, OtherCaps
    <3> QED
      BY <2>0, <2>1, <2>2, <3>1 DEF CapsInv, LightsInv, KnownInv, NoLights
  <2>3. CASE UhidCapsPress \/ UhidCapsRelease \/ UhidKey
    BY <2>3, KeysCaps
  <2>4. CASE UNCHANGED <<wire, caps>>
    BY <2>0, <2>1, <2>4 DEF CapsInv, LightsInv, KnownInv, HeldInv, StrokeInv, NoLights
  <2>5. ASSUME NEW e \in HidEvent PROVE e \in WireEvent /\ ~IsKeyboardReport(e)
    BY DEF WireEvent, HidEvent, IsKeyboardReport
  <2>6. LET clipboard == [type |-> "clipboard", id |-> None, owner |-> None, ack |-> sequence] IN
        clipboard \in WireEvent /\ ~IsKeyboardReport(clipboard)
    BY EventTypes DEF WireEvent, IsKeyboardReport, TypeInv, Types
  <2> QED
    BY <1>2, <2>2, <2>3, <2>4, <2>5, <2>6, MainWire
<1>3. CASE \/ StopAoa \/ InterruptAcksync \/ AoaTake \/ AoaSpuriousWakeup
           \/ AoaInput \/ AoaOpen \/ AoaClose \/ AoaUnregister
  BY <1>1, <1>3, AoaWire
<1>4. CASE DeviceReceives
  <2> SUFFICES ASSUME ~hidPast'.refused PROVE CapsInv'
    BY DEF CapsInv
  <2> QED
    BY <1>4, DeviceCaps
<1>5. CASE Receive
  <2> SUFFICES ASSUME ~hidPast'.refused PROVE CapsInv'
    BY DEF CapsInv
  <2> QED
    BY <1>5, ReceiveCaps
<1>6. CASE UNCHANGED hidVars
  BY <1>1, <1>6 DEF hidVars
<1> QED
  BY <1>2, <1>3, <1>4, <1>5, <1>6 DEF HidNext

--------------------------------------------------------------------------------
(* The invariant and the theorems                                          *)

Invariant == /\ TypeInv /\ OwnerInv /\ SlotInv /\ OpenInv /\ CapsInv
             /\ AckInv /\ BackInv /\ WaitInv

(* What is opened first: the keyboard, the mouse, both or none.            *)
LEMMA OpensTypes ==
    /\ Opens \in Seq(HidEvent)
    /\ \A i \in 1..Len(Opens) : Opens[i].type = "open"
    /\ Opens \in {<<>>, <<Open(Keyboard, "keyboard")>>, <<Open(Mouse, "mouse")>>,
                  <<Open(Keyboard, "keyboard"), Open(Mouse, "mouse")>>}
<1>1. Open(Keyboard, "keyboard") \in HidEvent /\ Open(Mouse, "mouse") \in HidEvent
  BY EventTypes, IdsAreNumbers DEF Owner
<1>2. Opens \in {<<>>, <<Open(Keyboard, "keyboard")>>, <<Open(Mouse, "mouse")>>,
                 <<Open(Keyboard, "keyboard"), Open(Mouse, "mouse")>>}
  <2> DEFINE k == Open(Keyboard, "keyboard")
             m == Open(Mouse, "mouse")
  <2> HIDE DEF k, m
  <2>1. /\ <<k>> \o <<m>> = <<k, m>> /\ <<k>> \o <<>> = <<k>>
        /\ <<>> \o <<m>> = <<m>> /\ <<>> \o <<>> = <<>>
    <3>1. <<>> \in Seq({k, m}) /\ <<k>> \in Seq({k, m}) /\ <<m>> \in Seq({k, m})
      OBVIOUS
    <3>2. <<k>> \o <<m>> = <<k, m>>
      <4>1. /\ <<k>> \o <<m>> \in Seq({k, m}) /\ <<k, m>> \in Seq({k, m})
            /\ Len(<<k>> \o <<m>>) = 2 /\ Len(<<k, m>>) = 2
        OBVIOUS
      <4>2. ASSUME NEW i \in 1..2 PROVE (<<k>> \o <<m>>)[i] = <<k, m>>[i]
        OBVIOUS
      <4> QED
        BY <4>1, <4>2, SeqEqual
    <3> QED
      BY <3>1, <3>2, ConcatEmptySeq
  <2>2. Opens = (IF modes.keyboard THEN <<k>> ELSE <<>>) \o (IF modes.mouse THEN <<m>> ELSE <<>>)
    BY DEF Opens, k, m
  <2>3. Opens \in {<<>>, <<k>>, <<m>>, <<k, m>>}
    BY <2>1, <2>2
  <2> QED
    BY <2>3 DEF k, m
<1>3. CASE Opens = <<>>
  BY <1>2, <1>3
<1>4. CASE Opens = <<Open(Keyboard, "keyboard")>>
  BY <1>1, <1>2, <1>4 DEF Open
<1>5. CASE Opens = <<Open(Mouse, "mouse")>>
  BY <1>1, <1>2, <1>5 DEF Open
<1>6. CASE Opens = <<Open(Keyboard, "keyboard"), Open(Mouse, "mouse")>>
  BY <1>1, <1>2, <1>6 DEF Open
<1> QED
  BY <1>2, <1>3, <1>4, <1>5, <1>6

(* At first: the types, the first opens, and the rest.                     *)
LEMMA InitTypes == ASSUME HidInit PROVE TypeInv
<1> USE DEF HidInit
<1>1. aoa \in AoaState
  <2>1. <<>> \in Seq(HidEvent)
    OBVIOUS
  <2> QED
    BY <2>1, OpensTypes DEF AoaState
<1>2. device \in DeviceState
  BY DEF DeviceState, Owner
<1>3. wire \in Seq(WireEvent)
  BY OpensTypes, SeqMonotonic DEF WireEvent
<1>4. back \in Seq(Answer) /\ caps \in LockState /\ hidPast \in PastState /\ sequence \in Nat \ {0}
  BY DEF LockState, PastState
<1>5. InHand
  BY DEF InHand, Handling
<1>6. Routes
  BY DEF Routes
<1> QED
  BY <1>1, <1>2, <1>3, <1>4, <1>5, <1>6 DEF TypeInv, Types

(* The first opens are in order.                                           *)
LEMMA InitOwners == ASSUME HidInit PROVE OwnerInv
<1>1. Events = Opens
  <2>1. <<>> \o Opens = Opens
    BY OpensTypes, ConcatEmptySeq
  <2> QED
    BY <2>1 DEF Events, HidInit
<1>2. \A id \in Ids : device.owner[id] = None /\ device.reported[id] = None
  BY DEF HidInit
<1>3. /\ Holder[Keyboard] = "keyboard" /\ Holder[Mouse] = "mouse"
      /\ \A id \in Ids : id # Keyboard /\ id # Mouse => Holder[id] = None
  BY IdsAreNumbers DEF Holder, HidInit, Ids, Keyboard, Mouse
<1>4. Keyboard # Mouse
  BY DEF Keyboard, Mouse
<1>5. CASE Opens = <<>>
  BY <1>1, <1>2, <1>5 DEF OwnerInv, Orderly, Final
<1>6. ASSUME NEW e, Opens = <<e>>, e = Open(Keyboard, "keyboard") \/ e = Open(Mouse, "mouse")
      PROVE  OwnerInv
  <2>1. Len(Events) = 1 /\ Events[1] = e
    BY <1>1, <1>6
  <2>2. Orderly(Events, device.owner)
    BY <1>2, <1>6, <2>1, IdsAreNumbers DEF Orderly, Open, Needed
  <2>3. Final(Events, device.owner, Holder)
    BY <1>2, <1>3, <1>6, <2>1 DEF Final, Open, Sets
  <2> QED
    BY <1>2, <2>2, <2>3 DEF OwnerInv
<1>7. CASE Opens = <<Open(Keyboard, "keyboard"), Open(Mouse, "mouse")>>
  <2>1. /\ Len(Events) = 2 /\ Events[1] = Open(Keyboard, "keyboard")
        /\ Events[2] = Open(Mouse, "mouse")
    BY <1>1, <1>7
  <2>2. Orderly(Events, device.owner)
    <3> SUFFICES ASSUME NEW i \in 1..2
                 PROVE  /\ \A k \in 1..i - 1 : ~Sets(Events[k], Events[i].id)
                        /\ device.owner[Events[i].id] = None
      BY <2>1 DEF Orderly
    <3>1. CASE i = 1
      BY <1>2, <2>1, <3>1, IdsAreNumbers DEF Open
    <3>2. CASE i = 2
      BY <1>2, <1>4, <2>1, <3>2, IdsAreNumbers DEF Open, Sets
    <3> QED
      BY <3>1, <3>2
  <2>3. Final(Events, device.owner, Holder)
    <3> SUFFICES ASSUME NEW id \in Ids
                 PROVE  /\ \A k \in 1..2 : Sets(Events[k], id) => Events[k].owner = Holder[id]
                        /\ device.owner[id] = None
      BY <2>1 DEF Final
    <3>1. ASSUME NEW k \in 1..2, Sets(Events[k], id) PROVE Events[k].owner = Holder[id]
      BY <1>3, <2>1, <3>1 DEF Open, Sets
    <3> QED
      BY <1>2, <3>1
  <2> QED
    BY <1>2, <2>2, <2>3 DEF OwnerInv
<1> QED
  BY <1>5, <1>6, <1>7, OpensTypes

(* And the rest holds at first.                                            *)
LEMMA InitRest ==
    ASSUME HidInit
    PROVE  SlotInv /\ OpenInv /\ CapsInv /\ AckInv /\ BackInv /\ WaitInv
<1> USE DEF HidInit
<1>1. SlotInv
  BY DEF SlotInv
<1>2. OpenInv
  BY DEF OpenInv
<1>3. CapsInv
  <2>1. NoLights /\ back = <<>> /\ caps.answered /\ caps.known = device.caps
    BY DEF NoLights
  <2>2. HeldInv
    <3>1. Len(wire) \in Nat /\ \A i \in 1..Len(wire) : ~IsKeyboardReport(wire[i])
      BY OpensTypes DEF IsKeyboardReport
    <3>2. 0 \in 0..Len(wire) /\ ~device.pressed /\ ~caps.held
      BY <3>1
    <3> QED
      BY <3>1, <3>2 DEF HeldInv
  <2> QED
    BY <2>1, <2>2 DEF CapsInv, LightsInv, KnownInv, StrokeInv
<1>4. AckInv
  <2>1. \A i \in 1..Len(wire) : wire[i].type = "open"
    BY OpensTypes
  <2>2. \A i \in 1..Len(back) : FALSE
    OBVIOUS
  <2>3. acksync.ack = 0 /\ device.clip = 0 /\ sequence = 1
    OBVIOUS
  <2> HIDE DEF HidInit
  <2> QED
    BY <2>1, <2>2, <2>3 DEF AckInv
<1>5. WaitInv
  BY DEF WaitInv
<1>6. BackInv
  BY DEF BackInv
<1> QED
  BY <1>1, <1>2, <1>3, <1>4, <1>5, <1>6

(* The types of the HID devices, and the assertion of sc_acksync_ack().    *)
LEMMA HidTyped == Invariant => HidTypeOK
<1> SUFFICES ASSUME Invariant PROVE HidTypeOK
  OBVIOUS
<1>1. TypeInv /\ AckInv /\ BackInv
  BY DEF Invariant
<1>2. /\ slots \in [GamepadIds -> Gamepads \cup {None}] /\ plugged \subseteq Gamepads
      /\ aoa.thread \in {"none", "ready", "waiting", "open", "input", "close", "closing", "ended"}
      /\ aoa.open \subseteq Ids
  BY <1>1 DEF TypeInv, Types, AoaState, Handling
<1>3. sequence > acksync.ack
  <2>1. acksync.ack \in Nat /\ device.clip \in Nat /\ sequence \in Nat
    BY <1>1 DEF TypeInv, Types, DeviceState
  <2> QED
    BY <1>1, <2>1 DEF AckInv
<1>4. \A i \in DOMAIN back : back[i].type = "ack" => back[i].value >= acksync.ack
  <2>1. DOMAIN back = 1..Len(back)
    BY <1>1 DEF TypeInv, Types
  <2>2. ASSUME NEW i \in 1..Len(back), back[i].type = "ack"
        PROVE  back[i].value >= acksync.ack
    <3>1. back[i] \in Answer
      BY <1>1, ElementOfSeq DEF TypeInv, Types
    <3>2. back[i].value \in Nat /\ acksync.ack \in Nat
      BY <1>1, <2>2, <3>1 DEF Answer, TypeInv, Types
    <3> QED
      BY <1>1, <2>2, <3>2 DEF BackInv
  <2> QED
    BY <2>1, <2>2
<1> QED
  BY <1>2, <1>3, <1>4 DEF HidTypeOK

(***************************************************************************)
(* The command line                                                        *)
(***************************************************************************)

(* The options as getopt leaves them.                                      *)
Flags == SetFlags \cup ClearFlags \cup {"tcpip", "tcpip_dst"}
Bound == {"click", "none", "back", "home", "app_switch", "panel"}
Parsed(o) ==
    /\ DOMAIN o = DOMAIN DefaultOptions
    /\ \A f \in Flags : o[f] \in BOOLEAN
    /\ o.tcpip_dst => o.tcpip
    /\ o.keyboard \in KeyboardModes \cup {"auto", "uhid_or_aoa"}
    /\ o.mouse \in MouseModes \cup {"auto", "uhid_or_aoa"}
    /\ o.gamepad \in GamepadModes \cup {"uhid_or_aoa"}
    /\ o.video_source \in VideoSources
    /\ o.record_orientation \in Orientations
    /\ o.audio_buffer \in Int /\ o.audio_buffer >= -1
    /\ o.port_range.first <= o.port_range.last
    /\ o.capture_orientation \in Orientations
    /\ o.capture_lock \in {"initial", "value", "unlocked"}
    /\ \/ o.bindings = NoBindings /\ o.sec_bindings = NoBindings
       \/ o.bindings \in [1..4 -> Bound] /\ o.sec_bindings \in [1..4 -> Bound]

Parts == {"keyboard", "mouse", "gamepad", "video_source", "record_orientation",
    "audio_buffer", "port_range", "capture_orientation", "capture_lock", "bindings",
    "sec_bindings"}
LEMMA FieldsExist ==
    /\ Flags \cup Parts \subseteq DOMAIN DefaultOptions
    /\ OptionNames \ {"no_playback", "orientation"} \subseteq DOMAIN DefaultOptions
    /\ {"display_orientation", "pause_on_exit", "audio_source", "record_format", "tunnel_port",
        "force_adb_forward", "render_fit"} \subseteq DOMAIN DefaultOptions
    /\ Flags \cap Parts = {}
  BY DEF Flags, SetFlags, ClearFlags, Parts, OptionNames, Named, Numbers, DefaultOptions

LEMMA FlagParsed ==
    ASSUME NEW o, Parsed(o), NEW f \in SetFlags \cup ClearFlags, NEW v \in BOOLEAN
    PROVE  Parsed([o EXCEPT ![f] = v])
<1> DEFINE r == [o EXCEPT ![f] = v]
<1>1. f \in DOMAIN o /\ f \in Flags /\ f \notin Parts \cup {"tcpip", "tcpip_dst"}
  BY FieldsExist DEF Parsed, Flags, SetFlags, ClearFlags
<1>2. DOMAIN r = DOMAIN o /\ r[f] = v /\ \A g \in DOMAIN o \ {f} : r[g] = o[g]
  BY <1>1
<1>3. Flags \cup Parts \subseteq DOMAIN o
  BY FieldsExist DEF Parsed, Parts, Flags, OptionNames
<1> HIDE DEF r
<1>4. \A g \in Flags : r[g] \in BOOLEAN
  BY <1>2, <1>3 DEF Parsed
<1>5. \A g \in Parts \cup {"tcpip", "tcpip_dst"} : r[g] = o[g]
  BY <1>1, <1>2, <1>3 DEF Flags
<1>6. Parsed(r)
  BY <1>2, <1>4, <1>5 DEF Parsed, Parts
<1> QED
  BY <1>6 DEF r

LEMMA OtherParsed ==
    ASSUME NEW o, NEW r, Parsed(o), DOMAIN r = DOMAIN o, \A g \in Flags \cup Parts : r[g] = o[g]
    PROVE  Parsed(r)
<1>1. /\ \A g \in Flags : r[g] \in BOOLEAN
      /\ r.tcpip = o.tcpip /\ r.tcpip_dst = o.tcpip_dst
  BY DEF Parsed, Flags
<1>2. \A g \in Parts : r[g] = o[g]
  OBVIOUS
<1> QED
  BY <1>1, <1>2 DEF Parsed, Parts

(* What replacing a field gives.                                           *)
LEMMA Replaced ==
    ASSUME NEW o, NEW f \in DOMAIN o, NEW v
    PROVE  /\ DOMAIN [o EXCEPT ![f] = v] = DOMAIN o
           /\ [o EXCEPT ![f] = v][f] = v
           /\ \A g \in DOMAIN o \ {f} : [o EXCEPT ![f] = v][g] = o[g]
  OBVIOUS

(* An option that stores a name or a number.                               *)
LEMMA StoredParsed ==
    ASSUME NEW o, Parsed(o), NEW f, NEW v,
           \/ f \in DOMAIN Named /\ v \in Named[f]
           \/ f \in Numbers /\ v \in Int /\ NumberOk(f, v)
           \/ f \in {"record", "list", "key_inject", "shortcut_mods", "background_color"}
    PROVE  Parsed([o EXCEPT ![f] = v])
<1> DEFINE r == [o EXCEPT ![f] = v]
           InSets == {"keyboard", "mouse", "gamepad", "video_source", "record_orientation"}
<1>1. f \in DOMAIN o /\ f \notin Flags
  <2>1. f \in OptionNames /\ f \notin {"no_playback", "orientation"}
    BY DEF OptionNames, Named, Numbers
  <2>2. f \notin Flags
    BY DEF Flags, SetFlags, ClearFlags, Named, Numbers
  <2> QED
    BY <2>1, <2>2, FieldsExist DEF Parsed
<1>2. DOMAIN r = DOMAIN o /\ r[f] = v /\ \A g \in DOMAIN o \ {f} : r[g] = o[g]
  BY <1>1
<1>3. Flags \cup Parts \subseteq DOMAIN o
  BY FieldsExist DEF Parsed
<1> HIDE DEF r
<1>4. CASE f \in InSets
  <2>1. f \in DOMAIN Named /\ v \in Named[f]
    BY <1>4 DEF Numbers
  <2>2. /\ f = "keyboard" => v \in KeyboardModes \cup {"auto", "uhid_or_aoa"}
        /\ f = "mouse" => v \in MouseModes \cup {"auto", "uhid_or_aoa"}
        /\ f = "gamepad" => v \in GamepadModes \cup {"uhid_or_aoa"}
        /\ f = "video_source" => v \in VideoSources
        /\ f = "record_orientation" => v \in Orientations
    BY <2>1 DEF Named
  <2>3. \A g \in Flags : r[g] = o[g]
    BY <1>1, <1>2, <1>3
  <2>4. /\ r.tcpip = o.tcpip /\ r.tcpip_dst = o.tcpip_dst
    BY <2>3 DEF Flags
  <2>5. /\ r.keyboard \in KeyboardModes \cup {"auto", "uhid_or_aoa"}
        /\ r.mouse \in MouseModes \cup {"auto", "uhid_or_aoa"}
        /\ r.gamepad \in GamepadModes \cup {"uhid_or_aoa"}
        /\ r.video_source \in VideoSources
        /\ r.record_orientation \in Orientations
    BY <1>2, <1>3, <2>2 DEF Parsed, Parts
  <2>6. \A g \in Parts \ InSets : r[g] = o[g]
    BY <1>2, <1>3, <1>4
  <2>7. /\ r.audio_buffer = o.audio_buffer /\ r.port_range = o.port_range
        /\ r.capture_orientation = o.capture_orientation /\ r.capture_lock = o.capture_lock
        /\ r.bindings = o.bindings /\ r.sec_bindings = o.sec_bindings
    BY <2>6 DEF Parts
  <2> QED
    BY <1>2, <2>3, <2>4, <2>5, <2>7 DEF Parsed, r
<1>5. CASE f = "audio_buffer"
  <2>1. v \in Int /\ v >= 0
    BY <1>5, SMTT(20) DEF NumberOk, BufferingOk, InRange, Named, Numbers
  <2>2. \A g \in Flags : r[g] = o[g]
    BY <1>1, <1>2, <1>3
  <2>3. \A g \in Parts \ {f} : r[g] = o[g]
    BY <1>2, <1>3
  <2>4. r.tcpip = o.tcpip /\ r.tcpip_dst = o.tcpip_dst
    BY <2>2 DEF Flags
  <2>5. /\ r.keyboard = o.keyboard /\ r.mouse = o.mouse /\ r.gamepad = o.gamepad
        /\ r.video_source = o.video_source /\ r.record_orientation = o.record_orientation
        /\ r.port_range = o.port_range
        /\ r.capture_orientation = o.capture_orientation /\ r.capture_lock = o.capture_lock
        /\ r.bindings = o.bindings /\ r.sec_bindings = o.sec_bindings
    BY <1>5, <2>3 DEF Parts
  <2> QED
    BY <1>2, <1>5, <2>1, <2>2, <2>4, <2>5 DEF Parsed, r
<1>6. CASE f \notin InSets \cup {"audio_buffer"}
  <2>1. f \notin Parts
    BY <1>6 DEF Parts, Named, Numbers
  <2>2. \A g \in Flags \cup Parts : r[g] = o[g]
    BY <1>1, <1>2, <1>3, <2>1
  <2>3. Parsed(r)
    BY <1>2, <2>2, OtherParsed
  <2> QED
    BY <2>3 DEF r
<1> QED
  BY <1>4, <1>5, <1>6

LEMMA FlagsAreOne ==
    ASSUME NEW o, Parsed(o)
    PROVE  /\ \A v \in BOOLEAN : Parsed([o EXCEPT !.tcpip = TRUE, !.tcpip_dst = v])
           /\ Parsed([o EXCEPT !.video_playback = FALSE, !.audio_playback = FALSE])
<1>1. Flags \cup Parts \subseteq DOMAIN o
  BY FieldsExist DEF Parsed
<1>2. "video_playback" \in ClearFlags /\ "audio_playback" \in ClearFlags
  BY DEF ClearFlags
<1>3. Parsed([o EXCEPT !.video_playback = FALSE, !.audio_playback = FALSE])
  <2>1. Parsed([o EXCEPT !["video_playback"] = FALSE])
    BY <1>2, FlagParsed
  <2>2. Parsed([[o EXCEPT !["video_playback"] = FALSE] EXCEPT !["audio_playback"] = FALSE])
    BY <1>2, <2>1, FlagParsed
  <2> QED
    BY <2>2
<1>4. ASSUME NEW v \in BOOLEAN PROVE Parsed([o EXCEPT !.tcpip = TRUE, !.tcpip_dst = v])
  <2> DEFINE r == [o EXCEPT !.tcpip = TRUE, !.tcpip_dst = v]
  <2>1. /\ DOMAIN r = DOMAIN o
        /\ r.tcpip = TRUE /\ r.tcpip_dst = v
        /\ \A g \in DOMAIN o \ {"tcpip", "tcpip_dst"} : r[g] = o[g]
    BY <1>1 DEF Flags
  <2> HIDE DEF r
  <2>2. \A g \in Flags : r[g] \in BOOLEAN
    BY <1>1, <2>1 DEF Parsed
  <2>3. \A g \in Parts : r[g] = o[g]
    BY <1>1, <2>1 DEF Parts
  <2>4. Parsed(r)
    BY <2>1, <2>2, <2>3 DEF Parsed, Parts
  <2> QED
    BY <2>4 DEF r
<1> QED
  BY <1>3, <1>4

LEMMA PartsParsed ==
    ASSUME NEW o, Parsed(o)
    PROVE  /\ \A v \in Orientations :
                 Parsed([o EXCEPT !.display_orientation = v, !.record_orientation = v])
           /\ \A s \in Seq(Int) :
                 PortRangeOk(s) => Parsed([o EXCEPT !.port_range = PortRange(s)])
           /\ \A s \in Seq(STRING) :
                 BindingsOk(s) => Parsed([o EXCEPT !.bindings = BindingSet(s),
                                                   !.sec_bindings = SecBindings(s)])
           /\ \A s \in Seq(STRING) :
                 CaptureOk(s) =>
                   Parsed([o EXCEPT !.capture_lock = CaptureLock(s),
                                    !.capture_orientation = IF s = <<"@">> THEN @
                                                            ELSE s[Len(s)]])
<1>1. /\ Flags \cup Parts \subseteq DOMAIN o
      /\ "display_orientation" \in DOMAIN o
  BY FieldsExist DEF Parsed
<1>2. "display_orientation" \notin Flags \cup Parts /\ "record_orientation" \in DOMAIN Named
  BY DEF Flags, SetFlags, ClearFlags, Parts, Named
<1>3. ASSUME NEW v \in Orientations
      PROVE  Parsed([o EXCEPT !.display_orientation = v, !.record_orientation = v])
  <2>1. v \in Named["display_orientation"] /\ v \in Named["record_orientation"]
        /\ "display_orientation" \in DOMAIN Named
    BY DEF Named
  <2>2. Parsed([o EXCEPT !["display_orientation"] = v])
    BY <2>1, StoredParsed
  <2>3. Parsed([[o EXCEPT !["display_orientation"] = v] EXCEPT !["record_orientation"] = v])
    BY <1>2, <2>1, <2>2, StoredParsed
  <2> QED
    BY <2>3
<1>4. ASSUME NEW s \in Seq(Int), PortRangeOk(s)
      PROVE  Parsed([o EXCEPT !.port_range = PortRange(s)])
  <2> DEFINE r == [o EXCEPT !.port_range = PortRange(s)]
  <2>1. s[1] \in Int /\ s[Len(s)] \in Int
    BY <1>4 DEF PortRangeOk
  <2>2. PortRange(s).first <= PortRange(s).last
    BY <2>1 DEF PortRange
  <2>3. /\ DOMAIN r = DOMAIN o /\ r.port_range = PortRange(s)
        /\ \A g \in DOMAIN o \ {"port_range"} : r[g] = o[g]
    BY <1>1 DEF Parts
  <2> HIDE DEF r
  <2>4. \A g \in Flags \cup (Parts \ {"port_range"}) : r[g] = o[g]
    BY <1>1, <2>3, FieldsExist DEF Parts
  <2>5. /\ \A g \in Flags : r[g] \in BOOLEAN
        /\ r.tcpip = o.tcpip /\ r.tcpip_dst = o.tcpip_dst
    BY <2>4 DEF Flags, Parsed
  <2>6. \A g \in Parts \ {"port_range"} : r[g] = o[g]
    BY <2>4
  <2>7. Parsed(r)
    BY <2>2, <2>3, <2>5, <2>6 DEF Parsed, Parts
  <2> QED
    BY <2>7 DEF r
<1>5. ASSUME NEW s \in Seq(STRING), BindingsOk(s)
      PROVE  Parsed([o EXCEPT !.bindings = BindingSet(s), !.sec_bindings = SecBindings(s)])
  <2> DEFINE r == [o EXCEPT !.bindings = BindingSet(s), !.sec_bindings = SecBindings(s)]
  <2>1. \A c \in DOMAIN BindingChars : BindingChars[c] \in Bound
    BY DEF BindingChars, Bound
  <2>2. \A t : BindingSetOk(t) => BindingSet(t) \in [1..4 -> Bound]
    BY <2>1 DEF BindingSetOk, BindingSet
  <2>3. BindingSet(s) \in [1..4 -> Bound] /\ SecBindings(s) \in [1..4 -> Bound]
    BY <1>5, <2>2 DEF BindingsOk, SecBindings
  <2>4. /\ DOMAIN r = DOMAIN o /\ r.bindings = BindingSet(s) /\ r.sec_bindings = SecBindings(s)
        /\ \A g \in DOMAIN o \ {"bindings", "sec_bindings"} : r[g] = o[g]
    BY <1>1 DEF Parts
  <2> HIDE DEF r
  <2>5. \A g \in Flags \cup (Parts \ {"bindings", "sec_bindings"}) : r[g] = o[g]
    BY <1>1, <2>4, FieldsExist DEF Parts
  <2>6. /\ \A g \in Flags : r[g] \in BOOLEAN
        /\ r.tcpip = o.tcpip /\ r.tcpip_dst = o.tcpip_dst
    BY <2>5 DEF Flags, Parsed
  <2>7. \A g \in Parts \ {"bindings", "sec_bindings"} : r[g] = o[g]
    BY <2>5
  <2>8. Parsed(r)
    BY <2>3, <2>4, <2>6, <2>7 DEF Parsed, Parts
  <2> QED
    BY <2>8 DEF r
<1>6. ASSUME NEW s \in Seq(STRING), CaptureOk(s)
      PROVE  Parsed([o EXCEPT !.capture_lock = CaptureLock(s),
                              !.capture_orientation = IF s = <<"@">> THEN @ ELSE s[Len(s)]])
  <2> DEFINE to == IF s = <<"@">> THEN o.capture_orientation ELSE s[Len(s)]
             r == [o EXCEPT !.capture_lock = CaptureLock(s), !.capture_orientation = to]
  <2>1. to \in Orientations /\ CaptureLock(s) \in {"initial", "value", "unlocked"}
    BY <1>6 DEF CaptureOk, CaptureLock, Parsed
  <2>2. /\ DOMAIN r = DOMAIN o /\ r.capture_lock = CaptureLock(s) /\ r.capture_orientation = to
        /\ \A g \in DOMAIN o \ {"capture_lock", "capture_orientation"} : r[g] = o[g]
    BY <1>1 DEF Parts
  <2> HIDE DEF r, to
  <2>3. \A g \in Flags \cup (Parts \ {"capture_lock", "capture_orientation"}) : r[g] = o[g]
    BY <1>1, <2>2, FieldsExist DEF Parts
  <2>4. /\ \A g \in Flags : r[g] \in BOOLEAN
        /\ r.tcpip = o.tcpip /\ r.tcpip_dst = o.tcpip_dst
    BY <2>3 DEF Flags, Parsed
  <2>5. \A g \in Parts \ {"capture_lock", "capture_orientation"} : r[g] = o[g]
    BY <2>3
  <2>6. Parsed(r)
    BY <2>1, <2>2, <2>4, <2>5 DEF Parsed, Parts
  <2> QED
    BY <1>1, <2>6 DEF r, to, Parts
<1> QED
  BY <1>3, <1>4, <1>5, <1>6

(* What an argument leaves, whatever it is.                                *)
LEMMA ChangedParsed ==
    ASSUME Parsed(opts), NEW option \in OptionNames, NEW text, TextOk(option, text),
           NEW r \in Changed(option, text)
    PROVE  Parsed(r)
<1> DEFINE Rest == {"record", "list", "tcpip", "no_playback", "orientation", "key_inject",
                    "port_range", "capture_orientation", "shortcut_mods", "bindings",
                    "background_color"}
<1>1. /\ SetFlags \cap (ClearFlags \cup DOMAIN Named \cup Numbers \cup Rest) = {}
      /\ ClearFlags \cap (DOMAIN Named \cup Numbers \cup Rest) = {}
      /\ DOMAIN Named \cap (Numbers \cup Rest) = {}
      /\ Numbers \cap Rest = {}
  BY DEF SetFlags, ClearFlags, Named, Numbers
<1>2. CASE option \in SetFlags
  <2>1. r = [opts EXCEPT ![option] = TRUE]
    BY <1>1, <1>2 DEF Changed
  <2> QED
    BY <1>2, <2>1, FlagParsed
<1>3. CASE option \in ClearFlags
  <2>1. r = [opts EXCEPT ![option] = FALSE]
    BY <1>1, <1>3 DEF Changed
  <2> QED
    BY <1>3, <2>1, FlagParsed
<1>4. CASE option \in DOMAIN Named
  <2>1. r = [opts EXCEPT ![option] = text] /\ text \in Named[option]
    BY <1>1, <1>4 DEF Changed, If
  <2> QED
    BY <1>4, <2>1, StoredParsed
<1>5. CASE option \in Numbers
  <2>1. r = [opts EXCEPT ![option] = text] /\ NumberOk(option, text)
    BY <1>1, <1>5 DEF Changed, If
  <2>2. text \in Int
    BY <1>5 DEF TextOk
  <2> QED
    BY <1>5, <2>1, <2>2, StoredParsed
<1>6. CASE option \in Rest
  <2>0. /\ option \notin SetFlags /\ option \notin ClearFlags
        /\ option \notin DOMAIN Named /\ option \notin Numbers
    BY <1>1, <1>6
  <2>1. CASE option \in {"record", "list", "key_inject", "shortcut_mods", "background_color"}
    <3>1. PICK v : r = [opts EXCEPT ![option] = v]
      BY <2>0, <2>1 DEF Changed, If
    <3>2. Parsed([opts EXCEPT ![option] = v])
      BY <2>1, StoredParsed
    <3> QED
      BY <3>1, <3>2
  <2>2. CASE option = "tcpip"
    <3>1. r = [opts EXCEPT !.tcpip = TRUE, !.tcpip_dst = text] /\ text \in BOOLEAN
      BY <2>0, <2>2 DEF Changed, TextOk
    <3> QED
      BY <3>1, FlagsAreOne
  <2>3. CASE option = "no_playback"
    <3>1. r = [opts EXCEPT !.video_playback = FALSE, !.audio_playback = FALSE]
      BY <2>0, <2>3 DEF Changed
    <3> QED
      BY <3>1, FlagsAreOne
  <2>4. CASE option = "orientation"
    <3>1. /\ r = [opts EXCEPT !.display_orientation = text, !.record_orientation = text]
          /\ text \in Orientations
      BY <2>0, <2>4 DEF Changed, If
    <3> QED
      BY <3>1, PartsParsed
  <2>5. CASE option = "port_range"
    <3>1. /\ r = [opts EXCEPT !.port_range = PortRange(text)]
          /\ PortRangeOk(text) /\ text \in Seq(Int)
      BY <2>0, <2>5 DEF Changed, If, TextOk
    <3> QED
      BY <3>1, PartsParsed
  <2>6. CASE option = "capture_orientation"
    <3>1. /\ r = [opts EXCEPT !.capture_lock = CaptureLock(text),
                              !.capture_orientation = IF text = <<"@">> THEN @
                                                      ELSE text[Len(text)]]
          /\ CaptureOk(text) /\ text \in Seq(STRING)
      BY <2>0, <2>6 DEF Changed, If, TextOk
    <3> QED
      BY <3>1, PartsParsed
  <2>7. CASE option = "bindings"
    <3>1. /\ r = [opts EXCEPT !.bindings = BindingSet(text), !.sec_bindings = SecBindings(text)]
          /\ BindingsOk(text) /\ text \in Seq(STRING)
      BY <2>0, <2>7 DEF Changed, If, TextOk
    <3> QED
      BY <3>1, PartsParsed
  <2> QED
    BY <1>6, <2>1, <2>2, <2>3, <2>4, <2>5, <2>6, <2>7
<1> QED
  BY <1>2, <1>3, <1>4, <1>5, <1>6 DEF OptionNames

LEMMA DefaultsParsed == Parsed(DefaultOptions)
<1>1. \A f \in Flags : DefaultOptions[f] \in BOOLEAN
  <2>1. \A f \in SetFlags : DefaultOptions[f] = FALSE
    BY SMTT(20) DEF SetFlags, DefaultOptions
  <2>2. \A f \in ClearFlags : DefaultOptions[f] = TRUE
    BY SMTT(20) DEF ClearFlags, DefaultOptions
  <2>3. DefaultOptions.tcpip = FALSE /\ DefaultOptions.tcpip_dst = FALSE
    BY DEF DefaultOptions
  <2> QED
    BY <2>1, <2>2, <2>3 DEF Flags
<1>2. /\ DefaultOptions.tcpip_dst = FALSE
      /\ DefaultOptions.keyboard = "auto" /\ DefaultOptions.mouse = "auto"
      /\ DefaultOptions.gamepad = "disabled" /\ DefaultOptions.video_source = "display"
      /\ DefaultOptions.record_orientation = "0" /\ DefaultOptions.audio_buffer = -1
      /\ DefaultOptions.port_range = [first |-> 27183, last |-> 27199]
      /\ DefaultOptions.capture_orientation = "0" /\ DefaultOptions.capture_lock = "unlocked"
      /\ DefaultOptions.bindings = NoBindings /\ DefaultOptions.sec_bindings = NoBindings
  BY DEF DefaultOptions
<1> QED
  BY <1>1, <1>2 DEF Parsed, GamepadModes, VideoSources, Orientations

--------------------------------------------------------------------------------
(* The stages that follow.  Each changes some fields of the options.       *)
Only(o, r, fields) == DOMAIN r = DOMAIN o /\ \A f \in DOMAIN o \ fields : r[f] = o[f]

LEMMA StreamsIs ==
    ASSUME NEW o, Parsed(o)
    PROVE  /\ Only(o, Streams(o), {"video", "audio", "video_playback", "audio_playback",
                                   "power_on", "require_audio"})
           /\ {Streams(o).video, Streams(o).audio, Streams(o).video_playback,
               Streams(o).audio_playback} \subseteq BOOLEAN
           /\ Streams(o).video_playback => Streams(o).video /\ o.window
           /\ Streams(o).audio_playback => Streams(o).audio
           /\ ~o.otg => Streams(o).video \/ Streams(o).require_audio
<1> DEFINE o1 == When(o, ~o.window, [o EXCEPT !.video_playback = FALSE])
           o2 == When(o1, ~o1.video, [o1 EXCEPT !.video_playback = FALSE, !.power_on = FALSE])
           o3 == When(o2, ~o2.audio, [o2 EXCEPT !.audio_playback = FALSE])
           o4 == When(o3, o3.video /\ ~o3.video_playback /\ o3.record = "none" /\ ~o3.v4l2,
                      [o3 EXCEPT !.video = FALSE])
           o5 == When(o4, o4.audio /\ ~o4.audio_playback /\ o4.record = "none",
                      [o4 EXCEPT !.audio = FALSE])
           o6 == When(o5, ~o5.video /\ ~o5.otg, [o5 EXCEPT !.require_audio = TRUE])
<1>0. /\ {"video", "audio", "video_playback", "audio_playback", "power_on", "require_audio",
          "window", "otg"} \subseteq DOMAIN o
      /\ {o.video, o.audio, o.video_playback, o.audio_playback} \subseteq BOOLEAN
  BY FieldsExist DEF Parsed, Flags, SetFlags, ClearFlags
<1>1. /\ Only(o, o1, {"video_playback"}) /\ o1.video_playback \in BOOLEAN
      /\ o1.video_playback => o.window
  BY <1>0 DEF When, Only
<1> HIDE DEF o1
<1>2. /\ Only(o1, o2, {"video_playback", "power_on"}) /\ o2.video_playback \in BOOLEAN
      /\ o2.video_playback => o1.video_playback /\ o2.video
  BY <1>0, <1>1 DEF When, Only
<1> HIDE DEF o2
<1>3. /\ Only(o2, o3, {"audio_playback"}) /\ o3.audio_playback \in BOOLEAN
      /\ o3.audio_playback => o3.audio
  BY <1>0, <1>1, <1>2 DEF When, Only
<1> HIDE DEF o3
<1>4. /\ Only(o3, o4, {"video"}) /\ o4.video \in BOOLEAN
      /\ o4.video_playback /\ o3.video => o4.video
  BY <1>0, <1>1, <1>2, <1>3 DEF When, Only
<1> HIDE DEF o4
<1>5. /\ Only(o4, o5, {"audio"}) /\ o5.audio \in BOOLEAN
      /\ o5.audio_playback /\ o4.audio => o5.audio
  BY <1>0, <1>1, <1>2, <1>3, <1>4 DEF When, Only
<1> HIDE DEF o5
<1>6. /\ Only(o5, o6, {"require_audio"})
      /\ ~o5.otg => o6.video \/ o6.require_audio
  BY <1>0, <1>1, <1>2, <1>3, <1>4, <1>5 DEF When, Only
<1>7. o6 = Streams(o)
  BY DEF Streams, o1, o2, o3, o4, o5
<1> HIDE DEF o6
<1>8. Only(o, o6, {"video", "audio", "video_playback", "audio_playback", "power_on",
                   "require_audio"})
  BY <1>1, <1>2, <1>3, <1>4, <1>5, <1>6 DEF Only
<1>9. {o6.video, o6.audio, o6.video_playback, o6.audio_playback} \subseteq BOOLEAN
  BY <1>0, <1>1, <1>2, <1>3, <1>4, <1>5, <1>6 DEF Only
<1>10. o6.video_playback => o6.video /\ o.window
  BY <1>0, <1>1, <1>2, <1>3, <1>4, <1>5, <1>6 DEF Only
<1>11. o6.audio_playback => o6.audio
  BY <1>0, <1>1, <1>2, <1>3, <1>4, <1>5, <1>6 DEF Only
<1>12. ~o.otg => o6.video \/ o6.require_audio
  BY <1>0, <1>1, <1>2, <1>3, <1>4, <1>5, <1>6 DEF Only
<1> QED
  BY <1>7, <1>8, <1>9, <1>10, <1>11, <1>12

LEMMA BufferIs ==
    ASSUME NEW o, Parsed(o), NEW s, Only(o, s, {"video", "audio", "video_playback",
               "audio_playback", "power_on", "require_audio"})
    PROVE  LET r == V4l2(AudioBuffer(s)) IN
           /\ Only(s, r, {"audio_buffer", "downsize_on_error"})
           /\ r.audio_playback => r.audio_buffer \in Int /\ r.audio_buffer >= 0
           /\ r.v4l2 => ~r.downsize_on_error
           /\ V4l2Wrong(AudioBuffer(s)) <=> V4l2Wrong(r)
<1> DEFINE a == AudioBuffer(s)
           r == V4l2(a)
<1>1. /\ {"audio_buffer", "downsize_on_error", "audio_playback", "v4l2", "video", "flex_display",
          "v4l2_buffer"} \subseteq DOMAIN s
      /\ s.audio_buffer = o.audio_buffer /\ o.audio_buffer \in Int /\ o.audio_buffer >= -1
  <2>1. {"downsize_on_error", "audio_playback", "v4l2", "video", "flex_display"} \subseteq Flags
    BY DEF Flags, SetFlags, ClearFlags
  <2>2. "v4l2_buffer" \in OptionNames \ {"no_playback", "orientation"} /\ "audio_buffer" \in Parts
    BY DEF OptionNames, Numbers, Parts
  <2> QED
    BY <2>1, <2>2, FieldsExist DEF Only, Parsed
<1>2. /\ Only(s, a, {"audio_buffer"})
      /\ a.audio_playback => a.audio_buffer \in Int /\ a.audio_buffer >= 0
  BY <1>1 DEF AudioBuffer, When, Only
<1> HIDE DEF a
<1>3. Only(a, r, {"downsize_on_error"}) /\ (r.v4l2 => ~r.downsize_on_error)
  BY <1>1, <1>2 DEF V4l2, When, Only
<1> HIDE DEF r
<1>4. Only(s, r, {"audio_buffer", "downsize_on_error"})
  BY <1>2, <1>3 DEF Only
<1>5. r.audio_playback => r.audio_buffer \in Int /\ r.audio_buffer >= 0
  BY <1>1, <1>2, <1>3 DEF Only
<1>6. r.v4l2 = a.v4l2 /\ r.video = a.video /\ r.flex_display = a.flex_display
      /\ r.v4l2_buffer = a.v4l2_buffer
  BY <1>1, <1>2, <1>3 DEF Only
<1> QED
  BY <1>3, <1>4, <1>5, <1>6 DEF V4l2Wrong, a, r

LEMMA ModesAre ==
    ASSUME NEW o,
           {"control", "video_source", "otg", "keyboard", "mouse", "gamepad"} \subseteq DOMAIN o,
           o.keyboard \in KeyboardModes \cup {"auto", "uhid_or_aoa"},
           o.mouse \in MouseModes \cup {"auto", "uhid_or_aoa"},
           o.gamepad \in GamepadModes \cup {"uhid_or_aoa"}
    PROVE  LET r == InputModes(o) IN
           /\ Only(o, r, {"keyboard", "mouse", "gamepad"})
           /\ o.control /\ o.video_source = "display" =>
                /\ r.keyboard \in KeyboardModes /\ r.mouse \in MouseModes
                /\ r.gamepad \in GamepadModes
<1> DEFINE active == o.control /\ o.video_source = "display"
           uhidOrAoa == IF o.otg THEN "aoa" ELSE "uhid"
           o1 == When(o, active /\ o.keyboard = "auto",
                      [o EXCEPT !.keyboard = IF o.otg THEN "aoa" ELSE "sdk"])
           o2 == When(o1, active /\ o1.keyboard = "uhid_or_aoa",
                      [o1 EXCEPT !.keyboard = uhidOrAoa])
           o3 == When(o2, active /\ o2.mouse = "auto",
                      [o2 EXCEPT !.mouse = IF o.otg THEN "aoa"
                                           ELSE IF ~o.video_playback THEN "disabled" ELSE "sdk"])
           o4 == When(o3, active /\ o3.mouse = "uhid_or_aoa", [o3 EXCEPT !.mouse = uhidOrAoa])
           o5 == When(o4, active /\ o4.gamepad = "uhid_or_aoa",
                      [o4 EXCEPT !.gamepad = uhidOrAoa])
<1>0. uhidOrAoa \in {"aoa", "uhid"}
  OBVIOUS
<1>0a. InputModes(o) = o5
  BY DEF InputModes
<1> HIDE DEF uhidOrAoa, active
<1>1. /\ Only(o, o1, {"keyboard"})
      /\ active => o1.keyboard \in KeyboardModes \cup {"uhid_or_aoa"}
  BY DEF When, Only, KeyboardModes
<1> HIDE DEF o1
<1>2. Only(o1, o2, {"keyboard"}) /\ (active => o2.keyboard \in KeyboardModes)
  BY <1>0, <1>1 DEF When, Only, KeyboardModes
<1> HIDE DEF o2
<1>3. /\ Only(o2, o3, {"mouse"})
      /\ active => o3.mouse \in MouseModes \cup {"uhid_or_aoa"}
  BY <1>1, <1>2 DEF When, Only, MouseModes
<1> HIDE DEF o3
<1>4. Only(o3, o4, {"mouse"}) /\ (active => o4.mouse \in MouseModes)
  BY <1>0, <1>1, <1>2, <1>3 DEF When, Only, MouseModes
<1> HIDE DEF o4
<1>5. Only(o4, o5, {"gamepad"}) /\ (active => o5.gamepad \in GamepadModes)
  BY <1>0, <1>1, <1>2, <1>3, <1>4 DEF When, Only, GamepadModes
<1> HIDE DEF o5
<1>6. Only(o, o5, {"keyboard", "mouse", "gamepad"})
  BY <1>1, <1>2, <1>3, <1>4, <1>5 DEF Only
<1>7. active => /\ o5.keyboard \in KeyboardModes /\ o5.mouse \in MouseModes
                /\ o5.gamepad \in GamepadModes
  BY <1>1, <1>2, <1>3, <1>4, <1>5 DEF Only
<1> QED
  BY <1>0a, <1>6, <1>7 DEF active

Bindings(o) == {o.bindings[i] : i \in 1..4} \cup {o.sec_bindings[i] : i \in 1..4}

LEMMA DisplayedIs ==
    ASSUME NEW o,
           {"bindings", "sec_bindings", "render_fit", "mouse", "flex_display"} \subseteq DOMAIN o,
           \/ o.bindings = NoBindings /\ o.sec_bindings = NoBindings
           \/ o.bindings \in [1..4 -> Bound] /\ o.sec_bindings \in [1..4 -> Bound]
    PROVE  LET r == RenderFit(MouseBindings(o)) IN
           /\ Only(o, r, {"bindings", "sec_bindings", "render_fit"})
           /\ "auto" \notin Bindings(r) /\ r.render_fit # "auto"
<1> DEFINE b == MouseBindings(o)
           r == RenderFit(b)
<1>1. "auto" \notin Bound
  BY DEF Bound
<1>2. /\ Only(o, b, {"bindings", "sec_bindings"})
      /\ \A i \in 1..4 : b.bindings[i] \in Bound /\ b.sec_bindings[i] \in Bound
  <2> DEFINE shortcuts == <<"back", "home", "app_switch", "panel">>
             forward == [i \in 1..4 |-> "click"]
  <2>1. \A i \in 1..4 : shortcuts[i] \in Bound /\ forward[i] \in Bound
    BY DEF Bound
  <2>2. \/ b = o /\ o.bindings[1] # "auto"
        \/ b = [o EXCEPT !.bindings = shortcuts, !.sec_bindings = forward]
        \/ b = [o EXCEPT !.bindings = forward, !.sec_bindings = shortcuts]
    BY DEF MouseBindings, When
  <2> HIDE DEF b, shortcuts, forward
  <2>3. CASE b = o /\ o.bindings[1] # "auto"
    BY <2>3 DEF Only, NoBindings
  <2>4. CASE b = [o EXCEPT !.bindings = shortcuts, !.sec_bindings = forward]
    BY <2>1, <2>4 DEF Only
  <2>5. CASE b = [o EXCEPT !.bindings = forward, !.sec_bindings = shortcuts]
    BY <2>1, <2>5 DEF Only
  <2> QED
    BY <2>2, <2>3, <2>4, <2>5
<1> HIDE DEF b
<1>3. Only(b, r, {"render_fit"}) /\ r.render_fit # "auto"
  BY <1>2 DEF RenderFit, When, Only
<1> HIDE DEF r
<1>4. Only(o, r, {"bindings", "sec_bindings", "render_fit"})
  BY <1>2, <1>3 DEF Only
<1>5. r.bindings = b.bindings /\ r.sec_bindings = b.sec_bindings
  BY <1>2, <1>3 DEF Only
<1>6. "auto" \notin Bindings(r)
  BY <1>1, <1>2, <1>5 DEF Bindings
<1> QED
  BY <1>3, <1>4, <1>6 DEF r, b

LEMMA CameraIs ==
    ASSUME NEW o, {"force_adb_forward", "tunnel_port", "keyboard", "mouse", "gamepad", "control",
                   "video_source", "flex_display", "ratio_lock"} \subseteq DOMAIN o
    PROVE  LET r == FlexDisplay(CameraInputs(Tunnel(o))) IN
           /\ Only(o, r, {"force_adb_forward", "keyboard", "mouse", "gamepad", "ratio_lock"})
           /\ o.tunnel_port > 0 => r.force_adb_forward
           /\ IF o.video_source = "camera" /\ o.control THEN InputsOf(r) = {"disabled"}
              ELSE r.keyboard = o.keyboard /\ r.mouse = o.mouse /\ r.gamepad = o.gamepad
<1> DEFINE t == Tunnel(o)
           c == CameraInputs(t)
           r == FlexDisplay(c)
<1>1. Only(o, t, {"force_adb_forward"}) /\ (o.tunnel_port > 0 => t.force_adb_forward)
  BY DEF Tunnel, When, Only
<1> HIDE DEF t
<1>2. /\ Only(t, c, {"keyboard", "mouse", "gamepad"})
      /\ IF t.video_source = "camera" /\ t.control
         THEN c.keyboard = "disabled" /\ c.mouse = "disabled" /\ c.gamepad = "disabled"
         ELSE c = t
  BY <1>1 DEF CameraInputs, When, Only
<1> HIDE DEF c
<1>3. Only(c, r, {"ratio_lock"})
  BY <1>1, <1>2 DEF FlexDisplay, When, Only
<1> HIDE DEF r
<1>4. Only(o, r, {"force_adb_forward", "keyboard", "mouse", "gamepad", "ratio_lock"})
  BY <1>1, <1>2, <1>3 DEF Only
<1>5. o.tunnel_port > 0 => r.force_adb_forward
  BY <1>1, <1>2, <1>3 DEF Only
<1>6. /\ r.keyboard = c.keyboard /\ r.mouse = c.mouse /\ r.gamepad = c.gamepad
      /\ t.keyboard = o.keyboard /\ t.mouse = o.mouse /\ t.gamepad = o.gamepad
      /\ t.video_source = o.video_source /\ t.control = o.control
  BY <1>1, <1>2, <1>3 DEF Only
<1>7. IF o.video_source = "camera" /\ o.control THEN InputsOf(r) = {"disabled"}
      ELSE r.keyboard = o.keyboard /\ r.mouse = o.mouse /\ r.gamepad = o.gamepad
  BY <1>2, <1>6 DEF InputsOf
<1> QED
  BY <1>4, <1>5, <1>7 DEF r, c, t

LEMMA FinalIs ==
    ASSUME NEW o, {"audio", "audio_source", "record_format", "fps_counter", "video_playback",
                   "pause_on_exit"} \subseteq DOMAIN o
    PROVE  LET r == FpsCounter(RecordFormat(AudioSource(o))) IN
           /\ Only(o, r, {"audio_source", "record_format", "fps_counter"})
           /\ r.audio => r.audio_source # "auto"
           /\ r.fps_counter => r.video_playback
           /\ Only(r, PauseOnExit(r), {"pause_on_exit"})
<1> DEFINE a == AudioSource(o)
           f == RecordFormat(a)
           r == FpsCounter(f)
<1>1. Only(o, a, {"audio_source"}) /\ (a.audio => a.audio_source # "auto")
  BY DEF AudioSource, When, Only
<1> HIDE DEF a
<1>2. Only(a, f, {"record_format"})
  BY <1>1 DEF RecordFormat, When, Only
<1> HIDE DEF f
<1>3. Only(f, r, {"fps_counter"}) /\ (r.fps_counter => r.video_playback)
  BY <1>1, <1>2 DEF FpsCounter, When, Only
<1> HIDE DEF r
<1>4. Only(o, r, {"audio_source", "record_format", "fps_counter"})
  BY <1>1, <1>2, <1>3 DEF Only
<1>5. r.audio => r.audio_source # "auto"
  BY <1>1, <1>2, <1>3 DEF Only
<1>6. Only(r, PauseOnExit(r), {"pause_on_exit"})
  BY <1>4 DEF PauseOnExit, When, Only
<1> QED
  BY <1>3, <1>4, <1>5, <1>6 DEF r, f, a

LEMMA OneSelector ==
    ASSUME NEW o, ~TooManySelectors(o)
    PROVE  /\ ~(o.tcpip_dst /\ o.serial)
           /\ Cardinality({s \in {"serial", "select_tcpip", "select_usb"} : o[s]}) <= 1
<1> DEFINE names == {"serial", "tcpip_dst", "select_tcpip", "select_usb"}
           all == {s \in names : o[s]}
           three == {s \in {"serial", "select_tcpip", "select_usb"} : o[s]}
<1>1. IsFiniteSet(all) /\ Cardinality(all) \in Nat /\ Cardinality(all) <= 1
  <2>1. IsFiniteSet(names)
    <3>1. IsFiniteSet({"serial"} \cup {"tcpip_dst"})
      BY FS_Singleton, FS_AddElement
    <3>2. IsFiniteSet(({"serial"} \cup {"tcpip_dst"}) \cup {"select_tcpip"})
      BY <3>1, FS_AddElement
    <3>3. IsFiniteSet((({"serial"} \cup {"tcpip_dst"}) \cup {"select_tcpip"}) \cup {"select_usb"})
      BY <3>2, FS_AddElement
    <3>4. names = (({"serial"} \cup {"tcpip_dst"}) \cup {"select_tcpip"}) \cup {"select_usb"}
      OBVIOUS
    <3> QED
      BY <3>3, <3>4
  <2>2. all \subseteq names
    OBVIOUS
  <2>3. IsFiniteSet(all)
    BY <2>1, <2>2, FS_Subset
  <2>4. Cardinality(all) \in Nat
    BY <2>3, FS_CardinalityType
  <2> QED
    BY <2>3, <2>4 DEF TooManySelectors
<1>2. three \subseteq all
  OBVIOUS
<1>3. Cardinality(three) <= 1
  <2>1. Cardinality(three) <= Cardinality(all) /\ IsFiniteSet(three)
    BY <1>1, <1>2, FS_Subset
  <2>2. Cardinality(three) \in Nat
    BY <2>1, FS_CardinalityType
  <2> QED
    BY <1>1, <2>1, <2>2
<1>4. ~(o.tcpip_dst /\ o.serial)
  <2> SUFFICES ASSUME o.tcpip_dst, o.serial PROVE FALSE
    OBVIOUS
  <2>1. {"tcpip_dst", "serial"} \subseteq all
    OBVIOUS
  <2>2. Cardinality({"tcpip_dst", "serial"}) = 2
    <3>1. IsFiniteSet({"serial"}) /\ Cardinality({"serial"}) = 1
      BY FS_Singleton
    <3>2. {"tcpip_dst", "serial"} = {"serial"} \cup {"tcpip_dst"} /\ "tcpip_dst" \notin {"serial"}
      OBVIOUS
    <3> QED
      BY <3>1, <3>2, FS_AddElement
  <2>3. Cardinality({"tcpip_dst", "serial"}) <= Cardinality(all)
    BY <1>1, <2>1, FS_Subset
  <2> QED
    BY <1>1, <2>2, <2>3
<1> QED
  BY <1>3, <1>4

(* What an accepted command line became, stage by stage.                   *)
Stages(o, s, a, i, d, c, f, p) ==
    /\ Only(o, s, {"video", "audio", "video_playback", "audio_playback", "power_on",
                   "require_audio"})
    /\ Only(s, a, {"audio_buffer", "downsize_on_error"})
    /\ Only(a, i, {"keyboard", "mouse", "gamepad"})
    /\ Only(i, d, {"bindings", "sec_bindings", "render_fit"})
    /\ Only(d, c, {"force_adb_forward", "keyboard", "mouse", "gamepad", "ratio_lock"})
    /\ Only(c, f, {"audio_source", "record_format", "fps_counter"})
    /\ Only(f, p, {"pause_on_exit"})
Established(o, s, a, i, d, c, f) ==
    /\ {s.video, s.audio, s.video_playback, s.audio_playback} \subseteq BOOLEAN
    /\ s.video_playback => s.video /\ o.window
    /\ s.audio_playback => s.audio
    /\ ~o.otg => s.video \/ s.require_audio
    /\ a.audio_playback => a.audio_buffer \in Int /\ a.audio_buffer >= 0
    /\ a.v4l2 => ~a.downsize_on_error
    /\ i.control /\ i.video_source = "display" =>
         i.keyboard \in KeyboardModes /\ i.mouse \in MouseModes /\ i.gamepad \in GamepadModes
    /\ "auto" \notin Bindings(d) /\ d.render_fit # "auto"
    /\ d.tunnel_port > 0 => c.force_adb_forward
    /\ IF d.video_source = "camera" /\ d.control THEN InputsOf(c) = {"disabled"}
       ELSE c.keyboard = d.keyboard /\ c.mouse = d.mouse /\ c.gamepad = d.gamepad
    /\ f.audio => f.audio_source # "auto"
    /\ f.fps_counter => f.video_playback
Checked(o, s, a, i, d, c, f) ==
    /\ ~TooManySelectors(o) /\ ~NothingToDo(s) /\ ~V4l2Wrong(a)
    /\ ~SdkMouseWithoutVideo(i) /\ ~NewDisplayWrong(d) /\ ~OtgWrong(d)
    /\ ~DisplayWrong(c) /\ ~RecordWrong(f)

Fields == Flags \cup Parts \cup {"tunnel_port", "force_adb_forward", "render_fit",
    "pause_on_exit", "audio_source", "record_format", "record", "display_id", "audio_codec",
    "video_codec", "ime", "window_width", "v4l2_buffer"}

LEMMA FieldsOf == ASSUME NEW o, Parsed(o) PROVE Fields \subseteq DOMAIN o
<1>1. {"record", "display_id", "audio_codec", "video_codec", "ime", "window_width",
       "v4l2_buffer"} \subseteq OptionNames \ {"no_playback", "orientation"}
  BY DEF OptionNames, Named, Numbers
<1>2. {"tunnel_port", "force_adb_forward", "render_fit", "pause_on_exit", "audio_source",
       "record_format"} \subseteq DOMAIN DefaultOptions
  BY FieldsExist
<1> QED
  BY <1>1, <1>2, FieldsExist DEF Fields, Parsed

LEMMA ResolvedIs ==
    ASSUME NEW o, Parsed(o), NEW r \in Resolved(o)
    PROVE  \E s, a, i, d, c : /\ Stages(o, s, a, i, d, c, r, PauseOnExit(r))
                              /\ Established(o, s, a, i, d, c, r)
                              /\ Checked(o, s, a, i, d, c, r)
<1> DEFINE s == Streams(o)
           a == V4l2(AudioBuffer(s))
           i == InputModes(a)
           d == RenderFit(MouseBindings(i))
           c == FlexDisplay(CameraInputs(Tunnel(d)))
           f == FpsCounter(RecordFormat(AudioSource(c)))
           Six == {"video", "audio", "video_playback", "audio_playback", "power_on",
                   "require_audio"}
<1>1. /\ r = f
      /\ ~TooManySelectors(o) /\ ~NothingToDo(s) /\ ~V4l2Wrong(AudioBuffer(s))
      /\ ~SdkMouseWithoutVideo(i) /\ ~NewDisplayWrong(d) /\ ~OtgWrong(d)
      /\ ~DisplayWrong(c) /\ ~RecordWrong(f)
  BY DEF Resolved, If
<1>2. Fields \subseteq DOMAIN o
  BY FieldsOf
<1>3. {"video", "audio", "video_playback", "audio_playback", "control", "otg", "fps_counter",
       "flex_display", "ratio_lock", "keyboard", "mouse", "gamepad", "video_source", "bindings",
       "sec_bindings", "render_fit", "tunnel_port", "force_adb_forward", "audio_source",
       "record_format", "pause_on_exit"} \subseteq DOMAIN o
  BY <1>2 DEF Fields, Flags, SetFlags, ClearFlags, Parts
<1>4. /\ Only(o, s, Six)
      /\ {s.video, s.audio, s.video_playback, s.audio_playback} \subseteq BOOLEAN
      /\ s.video_playback => s.video /\ o.window
      /\ s.audio_playback => s.audio
      /\ ~o.otg => s.video \/ s.require_audio
  BY StreamsIs
<1>5. /\ Only(s, a, {"audio_buffer", "downsize_on_error"})
      /\ a.audio_playback => a.audio_buffer \in Int /\ a.audio_buffer >= 0
      /\ a.v4l2 => ~a.downsize_on_error
      /\ V4l2Wrong(AudioBuffer(s)) <=> V4l2Wrong(a)
  <2> HIDE DEF s
  <2> QED
    BY <1>4, BufferIs
<1> HIDE DEF s, a
<1>6. /\ a.keyboard = o.keyboard /\ a.mouse = o.mouse /\ a.gamepad = o.gamepad
      /\ a.bindings = o.bindings /\ a.sec_bindings = o.sec_bindings
  BY <1>3, <1>4, <1>5 DEF Only
<1>7. /\ Only(a, i, {"keyboard", "mouse", "gamepad"})
      /\ i.control /\ i.video_source = "display" =>
           i.keyboard \in KeyboardModes /\ i.mouse \in MouseModes /\ i.gamepad \in GamepadModes
  <2>1. {"control", "video_source", "otg", "keyboard", "mouse", "gamepad"} \subseteq DOMAIN a
    BY <1>3, <1>4, <1>5 DEF Only
  <2>2. /\ a.keyboard \in KeyboardModes \cup {"auto", "uhid_or_aoa"}
        /\ a.mouse \in MouseModes \cup {"auto", "uhid_or_aoa"}
        /\ a.gamepad \in GamepadModes \cup {"uhid_or_aoa"}
    BY <1>6 DEF Parsed
  <2>3. /\ Only(a, i, {"keyboard", "mouse", "gamepad"})
        /\ a.control /\ a.video_source = "display" =>
             i.keyboard \in KeyboardModes /\ i.mouse \in MouseModes /\ i.gamepad \in GamepadModes
    BY <2>1, <2>2, ModesAre
  <2> HIDE DEF i
  <2>4. i.control = a.control /\ i.video_source = a.video_source
    BY <2>1, <2>3 DEF Only
  <2> QED
    BY <2>3, <2>4
<1> HIDE DEF i
<1>8. DOMAIN i = DOMAIN o /\ i.bindings = o.bindings /\ i.sec_bindings = o.sec_bindings
  BY <1>3, <1>4, <1>5, <1>6, <1>7 DEF Only
<1>9. /\ Only(i, d, {"bindings", "sec_bindings", "render_fit"})
      /\ "auto" \notin Bindings(d) /\ d.render_fit # "auto"
  <2>1. \/ i.bindings = NoBindings /\ i.sec_bindings = NoBindings
        \/ i.bindings \in [1..4 -> Bound] /\ i.sec_bindings \in [1..4 -> Bound]
    BY <1>8 DEF Parsed
  <2> QED
    BY <1>3, <1>8, <2>1, DisplayedIs
<1> HIDE DEF d
<1>10. DOMAIN d = DOMAIN o
  BY <1>8, <1>9 DEF Only
<1>11. /\ Only(d, c, {"force_adb_forward", "keyboard", "mouse", "gamepad", "ratio_lock"})
       /\ d.tunnel_port > 0 => c.force_adb_forward
       /\ IF d.video_source = "camera" /\ d.control THEN InputsOf(c) = {"disabled"}
          ELSE c.keyboard = d.keyboard /\ c.mouse = d.mouse /\ c.gamepad = d.gamepad
  BY <1>3, <1>10, CameraIs
<1> HIDE DEF c
<1>12. DOMAIN c = DOMAIN o
  BY <1>10, <1>11 DEF Only
<1>13. /\ Only(c, f, {"audio_source", "record_format", "fps_counter"})
       /\ f.audio => f.audio_source # "auto"
       /\ f.fps_counter => f.video_playback
       /\ Only(f, PauseOnExit(f), {"pause_on_exit"})
  BY <1>3, <1>12, FinalIs
<1> HIDE DEF f
<1>14. Stages(o, s, a, i, d, c, r, PauseOnExit(r))
  BY <1>1, <1>4, <1>5, <1>7, <1>9, <1>11, <1>13 DEF Stages
<1>15. Established(o, s, a, i, d, c, r)
  BY <1>1, <1>4, <1>5, <1>7, <1>9, <1>11, <1>13 DEF Established
<1>16. Checked(o, s, a, i, d, c, r)
  BY <1>1, <1>5 DEF Checked
<1> QED
  BY <1>14, <1>15, <1>16

(* The command line of an accepted session.                                *)
LEMMA AcceptedSession ==
    ASSUME NEW o, Parsed(o), NEW s, NEW a, NEW i, NEW d, NEW c, NEW f, NEW p,
           Stages(o, s, a, i, d, c, f, p), Established(o, s, a, i, d, c, f),
           Checked(o, s, a, i, d, c, f), ~p.otg
    PROVE  SessionReady(p)
<1>0. Fields \subseteq DOMAIN o
  BY FieldsOf
<1>1. {"video", "audio", "video_playback", "audio_playback", "power_on", "require_audio", "window",
       "control", "otg", "audio_buffer", "downsize_on_error", "v4l2"} \subseteq DOMAIN o
      /\ {"keyboard", "mouse", "gamepad", "video_source", "tcpip", "tcpip_dst", "serial",
          "select_tcpip", "select_usb", "flex_display", "new_display", "bindings",
          "sec_bindings", "render_fit", "record_orientation", "fps_counter", "tunnel_port",
          "force_adb_forward", "port_range"} \subseteq DOMAIN o
      /\ {"record", "record_format", "audio_source", "audio_codec", "video_codec"}
           \subseteq DOMAIN o
  BY <1>0 DEF Fields, Flags, SetFlags, ClearFlags, Parts
<1>2. /\ p.video = s.video /\ p.audio = s.audio /\ p.video_playback = s.video_playback
      /\ p.audio_playback = s.audio_playback /\ p.require_audio = s.require_audio
      /\ p.window = o.window /\ p.control = s.control /\ p.control = o.control
      /\ p.otg = o.otg /\ s.otg = o.otg
  BY <1>1 DEF Stages, Only
<1>3. /\ p.video_playback => p.video /\ p.window
      /\ p.audio_playback => p.audio
      /\ p.video \/ p.audio \/ p.control
      /\ p.video \/ p.require_audio
  BY <1>2 DEF Established, Checked, NothingToDo
<1>4. p.audio_playback => p.audio_buffer >= 0
  <2>1. p.audio_playback = a.audio_playback /\ p.audio_buffer = a.audio_buffer
    BY <1>1 DEF Stages, Only
  <2> QED
    BY <2>1 DEF Established
<1>5. (p.audio => p.audio_source # "auto") /\ (p.fps_counter => p.video_playback)
  <2>1. /\ p.audio = f.audio /\ p.audio_source = f.audio_source
        /\ p.fps_counter = f.fps_counter /\ p.video_playback = f.video_playback
    BY <1>1 DEF Stages, Only
  <2> QED
    BY <2>1 DEF Established
<1>6. /\ c.control = p.control /\ c.video_source = p.video_source
      /\ d.control = p.control /\ d.video_source = p.video_source
      /\ i.control = p.control /\ i.video_source = p.video_source
      /\ p.video_source = o.video_source
  BY <1>1 DEF Stages, Only
<1>7. /\ p.keyboard = c.keyboard /\ p.mouse = c.mouse /\ p.gamepad = c.gamepad
      /\ d.keyboard = i.keyboard /\ d.mouse = i.mouse /\ d.gamepad = i.gamepad
      /\ i.video_playback = p.video_playback
  BY <1>1 DEF Stages, Only
<1>8. p.control => /\ p.keyboard \in KeyboardModes /\ p.gamepad \in GamepadModes
                   /\ p.mouse \in MouseModes
                   /\ p.video_source = "camera" => InputsOf(p) = {"disabled"}
                   /\ p.mouse = "sdk" => p.video_playback
  <2> HAVE p.control
  <2>1. CASE p.video_source = "camera"
    <3>1. InputsOf(c) = {"disabled"}
      BY <1>6, <2>1 DEF Established
    <3>2. p.keyboard = "disabled" /\ p.mouse = "disabled" /\ p.gamepad = "disabled"
      BY <1>7, <3>1 DEF InputsOf
    <3> QED
      BY <3>2 DEF InputsOf, KeyboardModes, MouseModes, GamepadModes
  <2>2. CASE p.video_source = "display"
    <3>1. p.keyboard = i.keyboard /\ p.mouse = i.mouse /\ p.gamepad = i.gamepad
      BY <1>6, <1>7, <2>2 DEF Established
    <3>2. p.keyboard \in KeyboardModes /\ p.gamepad \in GamepadModes /\ p.mouse \in MouseModes
      BY <1>6, <2>2, <3>1 DEF Established
    <3>3. p.mouse = "sdk" => p.video_playback
      BY <1>6, <1>7, <2>2, <3>1 DEF Checked, SdkMouseWithoutVideo
    <3> QED
      BY <2>2, <3>2, <3>3
  <2> QED
    BY <1>6, <2>1, <2>2 DEF Parsed, VideoSources
<1>9. p.tcpip_dst => p.tcpip /\ ~p.serial
  <2>1. p.tcpip_dst = o.tcpip_dst /\ p.tcpip = o.tcpip /\ p.serial = o.serial
    BY <1>1 DEF Stages, Only
  <2>2. ~(o.tcpip_dst /\ o.serial)
    BY OneSelector DEF Checked
  <2> QED
    BY <2>1, <2>2 DEF Parsed
<1>10. Cardinality({x \in {"serial", "select_tcpip", "select_usb"} : p[x]}) <= 1
  <2>1. p["serial"] = o["serial"] /\ p["select_tcpip"] = o["select_tcpip"]
        /\ p["select_usb"] = o["select_usb"]
    BY <1>1 DEF Stages, Only
  <2>2. {x \in {"serial", "select_tcpip", "select_usb"} : p[x]}
          = {x \in {"serial", "select_tcpip", "select_usb"} : o[x]}
    BY <2>1
  <2>3. Cardinality({x \in {"serial", "select_tcpip", "select_usb"} : o[x]}) <= 1
    BY OneSelector DEF Checked
  <2> QED
    BY <2>2, <2>3
<1>11. p.flex_display => p.video /\ p.control /\ p.video_source = "display"
  <2>1. /\ c.flex_display = p.flex_display /\ c.new_display = p.new_display
        /\ d.new_display = p.new_display /\ d.video = p.video
    BY <1>1 DEF Stages, Only
  <2> QED
    BY <1>6, <2>1 DEF Checked, DisplayWrong, NewDisplayWrong
<1>12. /\ "auto" \notin {p.bindings[k] : k \in 1..4} \cup {p.sec_bindings[k] : k \in 1..4}
       /\ p.render_fit # "auto"
  <2>1. /\ p.bindings = d.bindings /\ p.sec_bindings = d.sec_bindings
        /\ p.render_fit = d.render_fit
    BY <1>1 DEF Stages, Only
  <2> QED
    BY <2>1 DEF Established, Bindings
<1>13. p.record # "none" => /\ p.video \/ p.audio
                            /\ p.record_format # "auto"
                            /\ p.record_format \in AudioOnlyFormats => p.audio /\ ~p.video
                            /\ p.record_orientation \in {"0", "90", "180", "270"}
  <2>1. /\ f.record = p.record /\ f.video = p.video /\ f.audio = p.audio
        /\ f.record_format = p.record_format /\ f.record_orientation = p.record_orientation
        /\ p.record_orientation = o.record_orientation
    BY <1>1 DEF Stages, Only
  <2>2. p.record_orientation \in Orientations
    BY <2>1 DEF Parsed
  <2> QED
    BY <2>1, <2>2 DEF Checked, RecordWrong, Orientations
<1>14. p.v4l2 => p.video /\ ~p.downsize_on_error
  <2>1. /\ a.v4l2 = p.v4l2 /\ a.video = p.video /\ a.downsize_on_error = p.downsize_on_error
    BY <1>1 DEF Stages, Only
  <2> QED
    BY <2>1 DEF Established, Checked, V4l2Wrong
<1>15. p.tunnel_port > 0 => p.force_adb_forward
  <2>1. d.tunnel_port = p.tunnel_port /\ c.force_adb_forward = p.force_adb_forward
    BY <1>1 DEF Stages, Only
  <2> QED
    BY <2>1 DEF Established
<1>16. p.port_range.first <= p.port_range.last
  <2>1. p.port_range = o.port_range
    BY <1>1 DEF Stages, Only
  <2> QED
    BY <2>1 DEF Parsed
<1> QED
  BY <1>3, <1>4, <1>5, <1>8, <1>9, <1>10, <1>11, <1>12, <1>13, <1>14, <1>15, <1>16
     DEF SessionReady

(* The command line of an accepted OTG session.                            *)
LEMMA AcceptedOtg ==
    ASSUME NEW o, Parsed(o), NEW s, NEW a, NEW i, NEW d, NEW c, NEW f, NEW p,
           Stages(o, s, a, i, d, c, f, p), Established(o, s, a, i, d, c, f),
           Checked(o, s, a, i, d, c, f), p.otg
    PROVE  /\ InputsOf(p) \subseteq {"aoa", "disabled"}
           /\ InputsOf(p) = {"disabled"} => p.video_source = "camera"
<1>1. {"keyboard", "mouse", "gamepad", "video_source", "control", "otg"} \subseteq DOMAIN o
  BY FieldsOf DEF Fields, Flags, SetFlags, ClearFlags, Parts
<1>2. /\ p.keyboard = c.keyboard /\ p.mouse = c.mouse /\ p.gamepad = c.gamepad
      /\ d.otg = p.otg /\ d.video_source = p.video_source /\ d.control = p.control
  BY <1>1 DEF Stages, Only
<1>3. ~OtgWrong(d)
  BY DEF Checked
<1>4. CASE d.video_source = "camera" /\ d.control
  <2>1. InputsOf(c) = {"disabled"}
    BY <1>4 DEF Established
  <2> QED
    BY <1>2, <1>4, <2>1 DEF InputsOf
<1>5. CASE ~(d.video_source = "camera" /\ d.control)
  <2>1. c.keyboard = d.keyboard /\ c.mouse = d.mouse /\ c.gamepad = d.gamepad
    BY <1>5 DEF Established
  <2>2. InputsOf(p) = InputsOf(d)
    BY <1>2, <2>1 DEF InputsOf
  <2> QED
    BY <1>2, <1>3, <2>2 DEF OtgWrong
<1> QED
  BY <1>4, <1>5

(* What the device makes of any options.                                   *)
LEMMA DeviceHas ==
    ASSUME NEW o, o.capture_lock \in {"initial", "value", "unlocked"},
           o.capture_orientation \in Orientations
    PROVE  LET there == DeviceOptions(ServerArgs(o)) IN
           /\ \A p \in DOMAIN OmittedValues \ {"video_bit_rate", "audio_bit_rate"} :
                 there[p] = o[p]
           /\ o.audio => there.audio_source = o.audio_source
           /\ CaptureLock(there.capture_orientation) = o.capture_lock
           /\ o.capture_lock # "initial" =>
                 there.capture_orientation[Len(there.capture_orientation)]
                   = o.capture_orientation
<1> DEFINE sent == {p \in DOMAIN OmittedValues : o[p] # OmittedValues[p]}
           locked == IF o.capture_lock = "unlocked" /\ o.capture_orientation = "0"
                      THEN {} ELSE {"capture_orientation"}
           source == IF o.audio_source # "output" /\ o.audio THEN {"audio_source"} ELSE {}
           value == IF o.capture_lock = "initial" THEN <<"@">>
                    ELSE IF o.capture_lock = "value" THEN <<"@", o.capture_orientation>>
                    ELSE <<o.capture_orientation>>
           args == ServerArgs(o)
           there == DeviceOptions(args)
<1>1. args = [p \in sent \cup locked \cup source |->
                IF p # "capture_orientation" THEN o[p] ELSE value]
  BY DEF ServerArgs
<1>2. /\ \A p \in DOMAIN OmittedValues \ {"video_bit_rate", "audio_bit_rate"} :
            p \in DOMAIN DeviceDefaults /\ DeviceDefaults[p] = OmittedValues[p]
      /\ "audio_source" \notin DOMAIN OmittedValues
      /\ "capture_orientation" \notin DOMAIN OmittedValues
  <2> DEFINE names == {"video", "audio", "control", "video_codec", "audio_codec", "video_source",
                       "audio_dup", "max_size", "min_size_alignment", "crop", "display_id",
                       "camera_id", "camera_size", "camera_facing", "camera_ar", "camera_fps",
                       "camera_high_speed", "show_touches", "stay_awake", "screen_off_timeout",
                       "power_off_on_close", "clipboard_autosync", "downsize_on_error",
                       "cleanup", "power_on", "new_display", "flex_display", "ime",
                       "keep_active", "list"}
  <2>1. DOMAIN OmittedValues = names \cup {"video_bit_rate", "audio_bit_rate"}
    BY DEF OmittedValues
  <2>2. names \subseteq DOMAIN DeviceDefaults
    BY DEF DeviceDefaults
  <2>3. \A p \in names : DeviceDefaults[p] = OmittedValues[p]
    <3>1. /\ OmittedValues.video = DeviceDefaults.video
          /\ OmittedValues.audio = DeviceDefaults.audio
          /\ OmittedValues.control = DeviceDefaults.control
          /\ OmittedValues.video_codec = DeviceDefaults.video_codec
          /\ OmittedValues.audio_codec = DeviceDefaults.audio_codec
          /\ OmittedValues.video_source = DeviceDefaults.video_source
          /\ OmittedValues.audio_dup = DeviceDefaults.audio_dup
          /\ OmittedValues.max_size = DeviceDefaults.max_size
          /\ OmittedValues.min_size_alignment = DeviceDefaults.min_size_alignment
          /\ OmittedValues.crop = DeviceDefaults.crop
          /\ OmittedValues.display_id = DeviceDefaults.display_id
      BY DEF OmittedValues, DeviceDefaults
    <3>2. /\ OmittedValues.camera_id = DeviceDefaults.camera_id
          /\ OmittedValues.camera_size = DeviceDefaults.camera_size
          /\ OmittedValues.camera_facing = DeviceDefaults.camera_facing
          /\ OmittedValues.camera_ar = DeviceDefaults.camera_ar
          /\ OmittedValues.camera_fps = DeviceDefaults.camera_fps
          /\ OmittedValues.camera_high_speed = DeviceDefaults.camera_high_speed
          /\ OmittedValues.show_touches = DeviceDefaults.show_touches
          /\ OmittedValues.stay_awake = DeviceDefaults.stay_awake
          /\ OmittedValues.screen_off_timeout = DeviceDefaults.screen_off_timeout
          /\ OmittedValues.power_off_on_close = DeviceDefaults.power_off_on_close
      BY DEF OmittedValues, DeviceDefaults
    <3>3. /\ OmittedValues.clipboard_autosync = DeviceDefaults.clipboard_autosync
          /\ OmittedValues.downsize_on_error = DeviceDefaults.downsize_on_error
          /\ OmittedValues.cleanup = DeviceDefaults.cleanup
          /\ OmittedValues.power_on = DeviceDefaults.power_on
          /\ OmittedValues.new_display = DeviceDefaults.new_display
          /\ OmittedValues.flex_display = DeviceDefaults.flex_display
          /\ OmittedValues.ime = DeviceDefaults.ime
          /\ OmittedValues.keep_active = DeviceDefaults.keep_active
          /\ OmittedValues.list = DeviceDefaults.list
      BY DEF OmittedValues, DeviceDefaults
    <3> QED
      BY <3>1, <3>2, <3>3
  <2> QED
    BY <2>1, <2>2, <2>3
<1>3. /\ "audio_source" \in DOMAIN DeviceDefaults /\ DeviceDefaults.audio_source = "output"
      /\ "capture_orientation" \in DOMAIN DeviceDefaults
      /\ DeviceDefaults.capture_orientation = <<"0">>
  BY DEF DeviceDefaults
<1> HIDE DEF args, value
<1>4. \A p \in DOMAIN DeviceDefaults :
          there[p] = IF p \in DOMAIN args THEN args[p] ELSE DeviceDefaults[p]
  BY DEF DeviceOptions
<1> HIDE DEF there
<1>5. ASSUME NEW p \in DOMAIN OmittedValues \ {"video_bit_rate", "audio_bit_rate"}
      PROVE  there[p] = o[p]
  <2>1. p # "capture_orientation" /\ p # "audio_source"
    BY <1>2
  <2>2. p \in DOMAIN args <=> o[p] # OmittedValues[p]
    BY <1>1, <2>1
  <2> QED
    BY <1>1, <1>2, <1>4, <2>1, <2>2
<1>6. ASSUME o.audio PROVE there.audio_source = o.audio_source
  <2>1. "audio_source" \in DOMAIN args <=> o.audio_source # "output"
    BY <1>1, <1>2, <1>6
  <2> QED
    BY <1>1, <1>3, <1>4, <2>1
<1>7. there.capture_orientation = value
  <2>1. "capture_orientation" \in DOMAIN args
          <=> ~(o.capture_lock = "unlocked" /\ o.capture_orientation = "0")
    BY <1>1, <1>2
  <2>2. CASE o.capture_lock = "unlocked" /\ o.capture_orientation = "0"
    BY <1>3, <1>4, <2>1, <2>2 DEF value
  <2>3. CASE ~(o.capture_lock = "unlocked" /\ o.capture_orientation = "0")
    BY <1>1, <1>3, <1>4, <2>1, <2>3
  <2> QED
    BY <2>2, <2>3
<1>8. CaptureLock(value) = o.capture_lock
  BY DEF value, CaptureLock, Orientations
<1>9. o.capture_lock # "initial" => value[Len(value)] = o.capture_orientation
  BY DEF value
<1> QED
  BY <1>5, <1>6, <1>7, <1>8, <1>9 DEF there, args

OptionsInv ==
    /\ OptionsTypeOK
    /\ cli = "getopt" => Parsed(opts)
    /\ AcceptedIsReady /\ SameOnDevice

LEMMA OptionsStart == OptionsInit => OptionsInv
  BY ArgumentsOK, DefaultsParsed
     DEF OptionsInit, OptionsInv, OptionsTypeOK, AcceptedIsReady, SameOnDevice

LEMMA OptionsStep == ASSUME OptionsInv, [OptionsNext]_optionVars PROVE OptionsInv'
<1>1. CASE ReadArgument
  <2>1. PICK a \in Arguments :
          LET changed == Changed(a[1], a[2]) IN
          IF changed = {} THEN cli' = "rejected" /\ UNCHANGED opts
          ELSE cli' = cli /\ opts' \in changed
    BY <1>1 DEF ReadArgument
  <2>2. a[1] \in OptionNames /\ TextOk(a[1], a[2])
    BY ArgumentsOK
  <2>3. cli = "getopt" /\ Parsed(opts) /\ passed' \in 0..MaxArguments
    BY <1>1, ArgumentsOK DEF ReadArgument, OptionsInv, OptionsTypeOK
  <2>4. CASE cli' = "rejected" /\ opts' = opts
    BY <2>3, <2>4 DEF OptionsInv, OptionsTypeOK, AcceptedIsReady, SameOnDevice
  <2>5. CASE cli' = cli /\ opts' \in Changed(a[1], a[2])
    <3>1. Parsed(opts')
      BY <2>2, <2>3, <2>5, ChangedParsed
    <3>2. DOMAIN opts' = DOMAIN DefaultOptions
      BY <3>1 DEF Parsed
    <3> QED
      BY <2>3, <2>5, <3>1, <3>2 DEF OptionsInv, OptionsTypeOK, AcceptedIsReady, SameOnDevice
  <2> QED
    BY <2>1, <2>4, <2>5
<1>2. CASE EndOfArguments
  <2>1. cli = "getopt" /\ Parsed(opts) /\ passed' \in 0..MaxArguments
    BY <1>2 DEF EndOfArguments, OptionsInv, OptionsTypeOK
  <2>2. CASE cli' = "rejected" /\ opts' = opts
    BY <2>1, <2>2 DEF OptionsInv, OptionsTypeOK, AcceptedIsReady, SameOnDevice
  <2>3. CASE cli' = "accepted" /\ \E o \in Resolved(opts) : opts' = PauseOnExit(o)
    <3>1. PICK o \in Resolved(opts) : opts' = PauseOnExit(o)
      BY <2>3
    <3>2. PICK s, a, i, d, c : /\ Stages(opts, s, a, i, d, c, o, opts')
                               /\ Established(opts, s, a, i, d, c, o)
                               /\ Checked(opts, s, a, i, d, c, o)
      BY <2>1, <3>1, ResolvedIs
    <3>3. AcceptedIsReady'
      <4>1. CASE opts'.otg
        BY <2>1, <3>2, <4>1, AcceptedOtg DEF AcceptedIsReady
      <4>2. CASE ~opts'.otg
        BY <2>1, <3>2, <4>2, AcceptedSession DEF AcceptedIsReady
      <4> QED
        BY <4>1, <4>2
    <3>4. /\ DOMAIN opts' = DOMAIN DefaultOptions
          /\ opts'.capture_lock = opts.capture_lock
          /\ opts'.capture_orientation = opts.capture_orientation
      <4>1. DOMAIN opts = DOMAIN DefaultOptions
            /\ {"capture_lock", "capture_orientation"} \subseteq DOMAIN opts
        BY <2>1, FieldsExist DEF Parsed, Parts
      <4> QED
        BY <3>2, <4>1 DEF Stages, Only
    <3>5. SameOnDevice'
      BY <2>1, <3>4, DeviceHas DEF SameOnDevice, Parsed
    <3> QED
      BY <2>1, <2>3, <3>3, <3>4, <3>5 DEF OptionsInv, OptionsTypeOK
  <2> QED
    BY <1>2, <2>2, <2>3 DEF EndOfArguments
<1>3. CASE UNCHANGED optionVars
  BY <1>3 DEF OptionsInv, optionVars, OptionsTypeOK, AcceptedIsReady, SameOnDevice
<1> QED
  BY <1>1, <1>2, <1>3 DEF OptionsNext

(***************************************************************************)
(* The client                                                              *)
(***************************************************************************)

(* A step of the client is a step of each of its parts, or none of it.     *)
LEMMA ClientStep ==
    ASSUME [MCNext]_<<clientVars, focus>>
    PROVE  /\ [InputNext]_inputVars /\ [HidNext]_hidVars
           /\ [ScreenNext]_<<videoVars, screenVars>> /\ [AudioNext]_audioVars
           /\ [OptionsNext]_optionVars
<1>1. CASE Options_Next
  BY <1>1 DEF Options_Next
<1>6. CASE Audio_Next
  BY <1>6 DEF Audio_Next
<1>2. CASE Input_Next
  BY <1>2 DEF Input_Next
<1>3. CASE Hid_Next
  BY <1>3 DEF Hid_Next
<1>4. CASE Screen_Next
  BY <1>4 DEF Screen_Next
<1>5. CASE UNCHANGED <<clientVars, focus>>
  BY <1>5 DEF clientVars
<1> QED
  BY <1>1, <1>2, <1>3, <1>4, <1>5, <1>6 DEF MCNext

(* The invariants of the parts hold in every state of the client.          *)
LEMMA Invariance ==
    MCSpec => /\ []InputInv /\ []Invariant /\ []ScreenInvariant /\ []AudioInvariant
              /\ []OptionsInv
<1>1. MCInit => InputInv /\ Invariant /\ ScreenInvariant
  BY InputStarts, InitTypes, InitOwners, InitRest, ScreenStarts DEF MCInit,
      Invariant
<1>4. MCInit => AudioInvariant
  BY AudioInitInv DEF MCInit
<1>2. InputInv /\ Invariant /\ [MCNext]_<<clientVars, focus>> => InputInv' /\ Invariant'
  BY ClientStep, InputStep, TypeStep, OwnerStep, SlotStep, OpenStep, CapsStep,
      AckStep, BackStep, WaitStep
     DEF Invariant
<1>3. ScreenInvariant /\ [MCNext]_<<clientVars, focus>> => ScreenInvariant'
  BY ClientStep, ScreenSteps
<1>5. AudioInvariant /\ [MCNext]_<<clientVars, focus>> => AudioInvariant'
  BY ClientStep, AudioStep
<1>6. MCInit => OptionsInv
  BY OptionsStart DEF MCInit
<1>7. OptionsInv /\ [MCNext]_<<clientVars, focus>> => OptionsInv'
  BY ClientStep, OptionsStep
<1> QED
  BY <1>1, <1>2, <1>3, <1>4, <1>5, <1>6, <1>7, PTL DEF MCSpec

(* A device only gets the reports of what it was opened for, two gamepads  *)
(* never share a slot, nothing stays registered, and the keyboard knows    *)
(* Caps Lock: hid_gamepad.c, aoa_hid.c, keyboard_uhid.c.                   *)
THEOREM ReportsStayWithTheirDevice == MCSpec => []ReportsReachTheirDevice
<1>1. Invariant => ReportsReachTheirDevice
  <2> SUFFICES ASSUME Invariant PROVE ReportsReachTheirDevice
    OBVIOUS
  <2>1. ~hidPast.closeFailed => \A id \in Ids : device.reported[id] \in {None, device.owner[id]}
    BY DEF Invariant, OwnerInv
  <2>2. ASSUME NEW g \in Gamepads
        PROVE  Cardinality(SlotsOf(g)) <= 1 /\ (SlotsOf(g) # {} => g \in plugged)
    <3>0. g # None
      BY HidAssumption DEF HidAssumption, None
    <3>1. SlotsOf(g) # {} => g \in plugged
      BY <3>0 DEF Invariant, SlotInv, SlotsOf
    <3>2. CASE SlotsOf(g) = {}
      BY <3>1, <3>2, FS_EmptySet
    <3>3. CASE SlotsOf(g) # {}
      <4>1. PICK i : i \in SlotsOf(g)
        BY <3>3
      <4>2. SlotsOf(g) = {i}
        BY <3>0, <4>1 DEF Invariant, SlotInv, SlotsOf
      <4>3. Cardinality({i}) = 1
        BY FS_Singleton
      <4> QED
        BY <3>1, <4>2, <4>3
    <3> QED
      BY <3>2, <3>3
  <2>3. aoa.thread = "ended" /\ ~hidPast.closeFailed => \A id \in Ids : device.owner[id] = None
    <3>1. aoa.thread = "ended" => Aoa
      BY DEF Invariant, TypeInv, Routes
    <3> QED
      BY <3>1 DEF Invariant, OpenInv
  <2>4. ASSUME wire = <<>>, back = <<>>, ~hidPast.refused,
               caps.answered \/ (modes.locks = "release" /\ ~caps.held)
        PROVE  caps.known = device.caps
    <3>1. KnownInv /\ HeldInv /\ StrokeInv
      BY <2>4 DEF Invariant, CapsInv
    <3>2. NoLights /\ Len(wire) = 0
      BY <2>4 DEF NoLights
    <3>3. device.pressed <=> caps.held
      BY <3>1, <3>2 DEF HeldInv
    <3>4. caps.answered
      BY <2>4, <3>1, <3>2, <3>3 DEF StrokeInv
    <3> QED
      BY <3>1, <3>2, <3>4 DEF KnownInv
  <2> QED
    BY <2>1, <2>2, <2>3, <2>4 DEF ReportsReachTheirDevice
<1> QED
  BY <1>1, Invariance, PTL

(* The input manager always knows which buttons and which virtual finger   *)
(* the device has down, whatever message was refused and however a pause,  *)
(* a binding or the capture came between, and a character arrives as a key *)
(* or as a text, never as both: input_manager.c, keyboard_sdk.c.           *)
THEOREM InputStaysFaithful == MCSpec => []InputIsFaithful
<1>1. InputInv => InputIsFaithful
  BY InputHolds DEF InputIsFaithful
<1> QED
  BY <1>1, Invariance, PTL

(* A Ctrl+v waits for the clipboard that was sent just before it, finds    *)
(* its text, or a later one, in the clipboard of the device, and the wait  *)
(* of the AOA thread never forgets the queue or the stop:                  *)
(* input_manager.c, acksync.c, aoa_hid.c, receiver.c.                      *)
THEOREM PasteStaysCurrent == MCSpec => []PasteIsCurrent
<1>1. Invariant => PasteIsNew
  <2> SUFFICES ASSUME Invariant PROVE PasteIsNew
    OBVIOUS
  <2>1. ASSUME aoa.thread = "input", AckReceived(aoa.event[1].ack)
        PROVE  device.clip >= aoa.event[1].ack
    <3>1. aoa.event[1] \in HidEvent
      BY <2>1, HandedEvent DEF Invariant, Handling
    <3>2. aoa.event[1].ack \in Nat /\ acksync.ack \in Nat /\ device.clip \in Nat
      BY <3>1 DEF HidEvent, Invariant, TypeInv, Types, DeviceState
    <3>3. acksync.ack <= device.clip /\ acksync.ack >= aoa.event[1].ack
      BY <2>1 DEF Invariant, AckInv, AckReceived
    <3> QED
      BY <3>2, <3>3
  <2>2. aoa.thread = "waiting" => aoa.queue = <<>> /\ ~aoa.stopped
    BY DEF Invariant, WaitInv
  <2> QED
    BY <2>1, <2>2 DEF PasteIsNew
<1>2. InputInv /\ Invariant => PasteIsCurrent
  BY <1>1, InputHolds DEF PasteIsCurrent
<1> QED
  BY <1>2, Invariance, PTL

(* The frames reach the screen in the order of the stream, by the          *)
(* regulator or not, each announced by one event that finds it; no thread  *)
(* of the sinks sleeps on work; and the data of the events is freed when   *)
(* the screen is: frame_buffer.c, video_regulator.c, v4l2_sink.c,          *)
(* screen.c, events.c.                                                     *)
THEOREM FramesAndEventsAreHandled == MCSpec => []EventsAreHandled
<1>1. ScreenInvariant => EventsAreHandled
  BY ScreenFrames, ScreenFrees DEF EventsAreHandled
<1> QED
  BY <1>1, Invariance, PTL

(* Whatever the order of the resizes, of the shortcuts and of the events   *)
(* of the window manager, a window that is windowed has the ratio of its   *)
(* content once they are handled, and a point of the window is the point   *)
(* of the frame displayed there, in any orientation: screen.c, options.c.  *)
THEOREM DisplayStaysRight == MCSpec => []DisplayIsRight
<1>1. ScreenInvariant => DisplayIsRight
  BY ScreenFits, ScreenRotates DEF DisplayIsRight
<1> QED
  BY <1>1, Invariance, PTL

(* Whatever the producer and the consumer do to the ring at the same time, *)
(* every sample is played once, in its order, or was dropped on purpose;   *)
(* and there is room after the drop, as the regulator asserts: audiobuf.c, *)
(* audio_regulator.c.                                                      *)
THEOREM SoundStaysInOrder == MCSpec => []SoundIsInOrder
<1> QED
  BY SoundRight, Invariance, PTL

(* Whatever the arguments, a command line that is accepted satisfies what  *)
(* the session or the OTG mode assumes of it, and the device, told only    *)
(* what differs from the defaults, works with the same options: cli.c,     *)
(* server.c, Options.java.                                                 *)
THEOREM CommandLineStaysAgreed == MCSpec => []CommandLineAgrees
<1>1. OptionsInv => CommandLineAgrees
  BY DEF OptionsInv, CommandLineAgrees
<1> QED
  BY <1>1, Invariance, PTL

(* The types of the five parts, and what their code asserts: the sequences *)
(* of the acknowledgements grow (acksync.c), the resize that is requested  *)
(* is needed (screen.c), no virtual finger in relative mode                *)
(* (input_manager.c).                                                      *)
THEOREM ClientTypes == MCSpec => []ClientTypeOK
<1>1. OptionsInv => OptionsTypeOK
  BY DEF OptionsInv
<1>2. InputInv => InputTypeOK
  BY InputHolds
<1>3. InputInv /\ Invariant /\ ScreenInvariant /\ AudioInvariant /\ OptionsInv => ClientTypeOK
  BY <1>1, <1>2, HidTyped, ScreenTyping, AudioTyped DEF ClientTypeOK
<1> QED
  BY <1>3, Invariance, PTL
================================================================================
