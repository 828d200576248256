-------------------------------- MODULE Options --------------------------------
(***************************************************************************)
(* The command line of the client (app/src/cli.c, options.c): the loop of  *)
(* getopt, that parses each argument and stores it; the checks and the     *)
(* defaults applied afterwards, in the order of parse_args_with_getopt();  *)
(* then what the rest of the program is given: the parameters sent to the  *)
(* server on the device (server.c), and what the device makes of them      *)
(* (Options.java).                                                         *)
(*                                                                         *)
(* An option that takes a string kept as it is (a serial, a file name, a   *)
(* crop) is reduced to its presence, or to the file extension.             *)
(***************************************************************************)
EXTENDS Integers, Sequences, FiniteSets, SequencesExt

CONSTANTS
    Arguments,    \* the arguments a user may pass: <<option, text>>
    MaxArguments  \* bound: arguments on one command line

VARIABLES
    cli,          \* "getopt", "accepted" or "rejected"
    opts,         \* struct scrcpy_options
    passed        \* number of arguments read

optionVars == <<cli, opts, passed>>

--------------------------------------------------------------------------------
(* What each parse_xxx() accepts.  A number is accepted within bounds.     *)

InRange(min, max, n) == min <= n /\ n <= max   \* parse_integer_arg()
MaxInt31 == 2147483647
BitRateOk(n) == InRange(0, MaxInt31, n)
MaxSizeOk(n) == InRange(0, 65535, n)
AlignmentOk(n) == InRange(1, 16, n) /\ n \in {1, 2, 4, 8, 16}
BufferingOk(n) == InRange(0, 60 * 60 * 1000, n)
OutputBufferOk(n) == InRange(0, 1000, n)
DisplayIdOk(n) == InRange(0, MaxInt31, n)
DimensionOk(n) == InRange(0, 65535, n)
PositionOk(n) == InRange(-32767, 32767, n)
PortOk(n) == InRange(0, 65535, n)
TimeLimitOk(n) == InRange(0, MaxInt31, n)
ScreenOffOk(n) == InRange(0, MaxInt31 \div 1000, n)
CameraFpsOk(n) == InRange(0, 65535, n)

ImePolicies == {"local", "fallback", "hide"}
Orientations == {"0", "90", "180", "270", "flip0", "flip90", "flip180", "flip270"}
LogLevels == {"verbose", "debug", "info", "warn", "error"}
RecordFormats == {"mp4", "mkv", "m4a", "mka", "opus", "aac", "flac", "wav"}
VideoCodecs == {"h264", "h265", "av1", "vp8", "vp9"}
AudioCodecs == {"opus", "aac", "flac", "raw"}
VideoSources == {"display", "camera"}
AudioSources == {"mic", "output", "playback", "mic-unprocessed", "mic-camcorder",
                 "mic-voice-recognition", "mic-voice-communication", "voice-call",
                 "voice-call-uplink", "voice-call-downlink", "voice-performance"}
CameraFacings == {"front", "back", "external", "any"}   \* any: the empty string
KeyboardModes == {"disabled", "sdk", "uhid", "aoa"}
MouseModes == {"disabled", "sdk", "uhid", "aoa"}
GamepadModes == {"disabled", "uhid", "aoa"}
PauseModes == {"true", "false", "if-error"}
RenderFits == {"letterbox", "stretched", "unscaled"}
ShortcutMods == {"lctrl", "rctrl", "lalt", "ralt", "lsuper", "rsuper"}

(* A list of modifiers: one that is unknown rejects the list.              *)
ShortcutModsOk(items) == items # <<>> /\ \A i \in DOMAIN items : items[i] \in ShortcutMods

(* One port, or two in any order.                                          *)
PortRangeOk(s) == Len(s) \in {1, 2} /\ \A i \in DOMAIN s : PortOk(s[i])
PortRange(s) == LET a == s[1]  b == s[Len(s)]
                IN [first |-> IF a < b THEN a ELSE b, last |-> IF a < b THEN b ELSE a]

(* A leading "@" locks the orientation; alone, to the initial one.         *)
CaptureOk(s) == \/ s = <<"@">>
                \/ Len(s) = 1 /\ s[1] \in Orientations
                \/ Len(s) = 2 /\ s[1] = "@" /\ s[2] \in Orientations
CaptureLock(s) == IF s = <<"@">> THEN "initial"
                  ELSE IF Len(s) = 2 THEN "value" ELSE "unlocked"

(* Four characters for a click, and four more for Shift+click.             *)
BindingChars == [c \in {"+", "-", "b", "h", "s", "n"} |->
    CASE c = "+" -> "click" [] c = "-" -> "none" [] c = "b" -> "back"
      [] c = "h" -> "home" [] c = "s" -> "app_switch" [] c = "n" -> "panel"]
BindingSetOk(s) == \A i \in 1..4 : s[i] \in DOMAIN BindingChars
BindingSet(s) == [i \in 1..4 |-> BindingChars[s[i]]]
BindingsOk(s) == /\ Len(s) = 4 \/ (Len(s) = 9 /\ s[5] = ":")
                 /\ BindingSetOk(s)
                 /\ Len(s) = 9 => BindingSetOk(SubSeq(s, 6, 9))
SecBindings(s) == BindingSet(IF Len(s) = 9 THEN SubSeq(s, 6, 9) ELSE s)

(* #rgb or #rrggbb, as sequences of hexadecimal digits.                    *)
HexDigitOk(d) == d \in 0..15
HexByte(left, right) == left * 16 + right
ColorOk(s) == Len(s) \in {3, 6} /\ \A i \in DOMAIN s : HexDigitOk(s[i])
Color(s) == IF Len(s) = 3 THEN [i \in 1..3 |-> s[i] * 17]
            ELSE [i \in 1..3 |-> HexByte(s[2*i - 1], s[2*i])]

GuessFormat(extension) == IF extension \in RecordFormats THEN extension ELSE "auto"

--------------------------------------------------------------------------------
(* The options, and the loop of getopt                                     *)

NoBindings == [i \in 1..4 |-> "auto"]

(* scrcpy_options_default.  "none" is a null pointer.                      *)
DefaultOptions ==
    [serial |-> FALSE, tcpip |-> FALSE, tcpip_dst |-> FALSE, select_tcpip |-> FALSE,
     select_usb |-> FALSE, port_range |-> [first |-> 27183, last |-> 27199],
     tunnel_port |-> 0, force_adb_forward |-> FALSE, list |-> {},
     video |-> TRUE, audio |-> TRUE, control |-> TRUE, window |-> TRUE,
     video_playback |-> TRUE, audio_playback |-> TRUE, otg |-> FALSE,
     v4l2 |-> FALSE, v4l2_buffer |-> 0, require_audio |-> FALSE,
     video_codec |-> "h264", audio_codec |-> "opus", video_bit_rate |-> 0,
     audio_bit_rate |-> 0, video_source |-> "display", audio_source |-> "auto",
     audio_dup |-> FALSE, video_buffer |-> 0, audio_buffer |-> -1,
     audio_output_buffer |-> 10, record |-> "none", record_format |-> "auto",
     record_orientation |-> "0", display_orientation |-> "0",
     capture_orientation |-> "0", capture_lock |-> "unlocked",
     max_size |-> 0, min_size_alignment |-> 1, display_id |-> 0,
     new_display |-> FALSE, flex_display |-> FALSE, crop |-> FALSE,
     ime |-> "undefined", render_fit |-> "auto", ratio_lock |-> TRUE,
     window_width |-> 0, window_x |-> 0, background_color |-> <<34, 34, 34>>,
     camera_id |-> FALSE, camera_size |-> FALSE, camera_ar |-> FALSE,
     camera_facing |-> "any", camera_fps |-> 0, camera_high_speed |-> FALSE,
     keyboard |-> "auto", mouse |-> "auto", gamepad |-> "disabled",
     bindings |-> NoBindings, sec_bindings |-> NoBindings,
     shortcut_mods |-> {"lalt", "lsuper"}, key_inject |-> "mixed",
     key_repeat |-> TRUE, mouse_hover |-> TRUE, log_level |-> "info",
     turn_screen_off |-> FALSE, stay_awake |-> FALSE, show_touches |-> FALSE,
     power_off_on_close |-> FALSE, power_on |-> TRUE, keep_active |-> FALSE,
     start_app |-> FALSE, clipboard_autosync |-> TRUE, downsize_on_error |-> TRUE,
     cleanup |-> TRUE, fps_counter |-> FALSE, time_limit |-> 0,
     screen_off_timeout |-> -1, pause_on_exit |-> "undefined"]

(* The options that set a flag, in the direction they set it, and those    *)
(* that store their text as it is.                                         *)
SetFlags == {"serial", "select_usb", "select_tcpip", "force_adb_forward", "otg",
    "v4l2", "require_audio", "audio_dup", "new_display", "flex_display", "crop",
    "camera_id", "camera_size", "camera_ar", "camera_high_speed",
    "turn_screen_off", "stay_awake", "show_touches", "power_off_on_close",
    "keep_active", "start_app", "fps_counter"}
ClearFlags == {"video", "audio", "control", "window", "video_playback",
    "audio_playback", "ratio_lock", "key_repeat", "mouse_hover", "power_on",
    "clipboard_autosync", "downsize_on_error", "cleanup"}

(* The options whose text is a name, and those whose text is a number.     *)
Named == [video_codec |-> VideoCodecs, audio_codec |-> AudioCodecs,
    video_source |-> VideoSources, audio_source |-> AudioSources,
    record_format |-> RecordFormats, display_orientation |-> Orientations,
    record_orientation |-> Orientations, ime |-> ImePolicies,
    render_fit |-> RenderFits, camera_facing |-> CameraFacings,
    keyboard |-> KeyboardModes \cup {"uhid_or_aoa"},   \* -K, -M, -G
    mouse |-> MouseModes \cup {"uhid_or_aoa"},
    gamepad |-> GamepadModes \cup {"uhid_or_aoa"},
    log_level |-> LogLevels, pause_on_exit |-> PauseModes]
NumberOk(option, n) ==
    CASE option \in {"video_bit_rate", "audio_bit_rate"} -> BitRateOk(n)
      [] option = "max_size" -> MaxSizeOk(n)
      [] option = "min_size_alignment" -> AlignmentOk(n)
      [] option \in {"video_buffer", "audio_buffer", "v4l2_buffer"} -> BufferingOk(n)
      [] option = "audio_output_buffer" -> OutputBufferOk(n)
      [] option = "display_id" -> DisplayIdOk(n)
      [] option = "window_width" -> DimensionOk(n)
      [] option = "window_x" -> PositionOk(n)
      [] option = "tunnel_port" -> PortOk(n)
      [] option = "time_limit" -> TimeLimitOk(n)
      [] option = "screen_off_timeout" -> ScreenOffOk(n)
      [] option = "camera_fps" -> CameraFpsOk(n)
Numbers == {"video_bit_rate", "audio_bit_rate", "max_size", "min_size_alignment",
    "video_buffer", "audio_buffer", "v4l2_buffer", "audio_output_buffer",
    "display_id", "window_width", "window_x", "tunnel_port", "time_limit",
    "screen_off_timeout", "camera_fps"}

(* What the parsers are given: the text of a number has been read as one,  *)
(* a list has been cut at its separators.                                  *)
OptionNames == SetFlags \cup ClearFlags \cup DOMAIN Named \cup Numbers \cup
    {"record", "list", "tcpip", "no_playback", "orientation", "key_inject", "port_range",
     "capture_orientation", "shortcut_mods", "bindings", "background_color"}
TextOk(option, text) ==
    /\ option \in Numbers => text \in Int
    /\ option = "tcpip" => text \in BOOLEAN    \* whether it has an address
    /\ option = "port_range" => text \in Seq(Int)
    /\ option \in {"capture_orientation", "bindings"} => text \in Seq(STRING)
ASSUME ArgumentsOK == /\ MaxArguments \in Nat
                      /\ \A a \in Arguments : a[1] \in OptionNames /\ TextOk(a[1], a[2])

OptionsInit == cli = "getopt" /\ opts = DefaultOptions /\ passed = 0

(* The options after an argument: a set of one, or none if it is wrong.    *)
If(condition, o) == IF condition THEN {o} ELSE {}
Changed(option, text) ==
    CASE option \in SetFlags -> {[opts EXCEPT ![option] = TRUE]}
      [] option \in ClearFlags -> {[opts EXCEPT ![option] = FALSE]}
      [] option \in DOMAIN Named ->
            If(text \in Named[option], [opts EXCEPT ![option] = text])
      [] option \in Numbers -> If(NumberOk(option, text), [opts EXCEPT ![option] = text])
      [] option = "record" -> {[opts EXCEPT !.record = text]}
      [] option = "list" -> {[opts EXCEPT !.list = @ \cup {text}]}
      [] option = "tcpip" -> {[opts EXCEPT !.tcpip = TRUE, !.tcpip_dst = text]}
      [] option = "no_playback" ->
            {[opts EXCEPT !.video_playback = FALSE, !.audio_playback = FALSE]}
      [] option = "orientation" ->
            If(text \in Orientations, [opts EXCEPT !.display_orientation = text,
                                                   !.record_orientation = text])
      [] option = "key_inject" ->
            If(opts.key_inject = "mixed", [opts EXCEPT !.key_inject = text])
      [] option = "port_range" ->
            If(PortRangeOk(text), [opts EXCEPT !.port_range = PortRange(text)])
      [] option = "capture_orientation" ->
            If(CaptureOk(text),
               [opts EXCEPT !.capture_lock = CaptureLock(text),
                            !.capture_orientation = IF text = <<"@">> THEN @
                                                    ELSE text[Len(text)]])
      [] option = "shortcut_mods" ->
            If(ShortcutModsOk(text), [opts EXCEPT !.shortcut_mods = ToSet(text)])
      [] option = "bindings" ->
            If(BindingsOk(text), [opts EXCEPT !.bindings = BindingSet(text),
                                              !.sec_bindings = SecBindings(text)])
      [] option = "background_color" ->
            If(ColorOk(text), [opts EXCEPT !.background_color = Color(text)])

(* One turn of the loop.                                                   *)
ReadArgument ==
    /\ cli = "getopt"
    /\ passed < MaxArguments
    /\ \E a \in Arguments :
        LET changed == Changed(a[1], a[2]) IN
        IF changed = {} THEN cli' = "rejected" /\ UNCHANGED opts
        ELSE cli' = cli /\ opts' \in changed
    /\ passed' = passed + 1

--------------------------------------------------------------------------------
(* After the loop: defaults (o -> o) and checks, in the order of the code  *)

When(o, condition, changed) == IF condition THEN changed ELSE o

TooManySelectors(o) ==
    Cardinality({s \in {"serial", "tcpip_dst", "select_tcpip", "select_usb"} : o[s]}) > 1

(* Mutation: recording is forgotten when nothing is played.                *)
Streams_NotRecorded(o) ==
    LET o1 == When(o, ~o.window, [o EXCEPT !.video_playback = FALSE])
        o2 == When(o1, ~o1.video, [o1 EXCEPT !.video_playback = FALSE, !.power_on = FALSE])
        o3 == When(o2, o2.video /\ ~o2.video_playback /\ o2.record = "none" /\ ~o2.v4l2,
                   [o2 EXCEPT !.video = FALSE])
        o4 == When(o3, o3.audio /\ ~o3.audio_playback /\ o3.record = "none",
                   [o3 EXCEPT !.audio = FALSE])
    IN When(o4, ~o4.video /\ ~o4.otg, [o4 EXCEPT !.require_audio = TRUE])

(* Playback without window or stream, streams that nothing consumes.       *)
Streams(o) ==
    LET o1 == When(o, ~o.window, [o EXCEPT !.video_playback = FALSE])
        o2 == When(o1, ~o1.video, [o1 EXCEPT !.video_playback = FALSE, !.power_on = FALSE])
        o3 == When(o2, ~o2.audio, [o2 EXCEPT !.audio_playback = FALSE])
        o4 == When(o3, o3.video /\ ~o3.video_playback /\ o3.record = "none" /\ ~o3.v4l2,
                   [o3 EXCEPT !.video = FALSE])
        o5 == When(o4, o4.audio /\ ~o4.audio_playback /\ o4.record = "none",
                   [o4 EXCEPT !.audio = FALSE])
    IN When(o5, ~o5.video /\ ~o5.otg, [o5 EXCEPT !.require_audio = TRUE])
NothingToDo(o) == ~o.video /\ ~o.audio /\ ~o.control /\ ~o.otg

AudioBuffer(o) ==
    When(o, o.audio_playback /\ o.audio_buffer = -1,
         [o EXCEPT !.audio_buffer = IF o.audio_codec = "flac" THEN 120 ELSE 50])

V4l2(o) == When(o, o.v4l2, [o EXCEPT !.downsize_on_error = FALSE])
V4l2Wrong(o) == \/ o.v4l2 /\ (~o.video \/ o.flex_display)
                \/ o.v4l2_buffer > 0 /\ ~o.v4l2

(* AUTO and UHID_OR_AOA become what is available.                          *)
InputModes(o) ==
    LET active == o.control /\ o.video_source = "display"
        uhidOrAoa == IF o.otg THEN "aoa" ELSE "uhid"
        o1 == When(o, active /\ o.keyboard = "auto",
                   [o EXCEPT !.keyboard = IF o.otg THEN "aoa" ELSE "sdk"])
        o2 == When(o1, active /\ o1.keyboard = "uhid_or_aoa",
                   [o1 EXCEPT !.keyboard = uhidOrAoa])
        o3 == When(o2, active /\ o2.mouse = "auto",
                   [o2 EXCEPT !.mouse = IF o.otg THEN "aoa"
                                        ELSE IF ~o.video_playback THEN "disabled" ELSE "sdk"])
        o4 == When(o3, active /\ o3.mouse = "uhid_or_aoa", [o3 EXCEPT !.mouse = uhidOrAoa])
    IN When(o4, active /\ o4.gamepad = "uhid_or_aoa", [o4 EXCEPT !.gamepad = uhidOrAoa])
SdkMouseWithoutVideo(o) ==
    o.control /\ o.video_source = "display" /\ o.mouse = "sdk" /\ ~o.video_playback

MouseBindings(o) ==
    LET shortcuts == <<"back", "home", "app_switch", "panel">>
        forward == [i \in 1..4 |-> "click"]
    IN When(o, o.bindings[1] = "auto",
            IF o.mouse = "sdk"
            THEN [o EXCEPT !.bindings = shortcuts, !.sec_bindings = forward]
            ELSE [o EXCEPT !.bindings = forward, !.sec_bindings = shortcuts])

NewDisplayWrong(o) == o.new_display /\ (o.video_source # "display" \/ ~o.video)
RenderFit(o) ==
    When(o, o.render_fit = "auto",
         [o EXCEPT !.render_fit = IF o.flex_display THEN "unscaled" ELSE "letterbox"])

InputsOf(o) == {o.keyboard, o.mouse, o.gamepad}
OtgWrong(o) == o.otg /\ \/ ~o.control
                        \/ ~(InputsOf(o) \subseteq {"aoa", "disabled"})
                        \/ InputsOf(o) = {"disabled"}
SdkOptionsWrong(o) == \/ o.keyboard # "sdk" /\ (o.key_inject # "mixed" \/ ~o.key_repeat)
                      \/ o.mouse # "sdk" /\ ~o.mouse_hover

Tunnel(o) == When(o, o.tunnel_port > 0, [o EXCEPT !.force_adb_forward = TRUE])

CameraOptions(o) == \/ o.camera_id \/ o.camera_ar \/ o.camera_facing # "any"
                    \/ o.camera_fps > 0 \/ o.camera_high_speed \/ o.camera_size
CameraWrong(o) ==
    \/ /\ o.video_source = "camera"
       /\ \/ o.display_id > 0 \/ o.ime # "undefined"
          \/ o.camera_id /\ o.camera_facing # "any"
          \/ o.camera_size /\ (o.max_size > 0 \/ o.camera_ar)
          \/ o.camera_high_speed /\ o.camera_fps = 0
    \/ o.video_source = "display" /\ CameraOptions(o)
CameraInputs(o) ==
    When(o, o.video_source = "camera" /\ o.control,
         [o EXCEPT !.keyboard = "disabled", !.mouse = "disabled", !.gamepad = "disabled"])

FlexDisplay(o) == When(o, o.flex_display, [o EXCEPT !.ratio_lock = FALSE])
DisplayWrong(o) ==
    \/ o.display_id > 0 /\ o.new_display
    \/ o.flex_display /\ \/ o.video_source # "display" \/ ~o.new_display
                         \/ ~o.control \/ o.crop \/ o.window_width > 0
    \/ o.ime # "undefined" /\ o.display_id = 0 /\ ~o.new_display

AudioSource(o) ==
    When(o, o.audio /\ o.audio_source = "auto",
         [o EXCEPT !.audio_source = IF o.video_source = "camera" THEN "mic"
                                    ELSE IF o.audio_dup THEN "playback" ELSE "output"])
AudioDupWrong(o) == o.audio_dup /\ (~o.audio \/ o.audio_source # "playback")

RecordFormat(o) ==
    When(o, o.record # "none" /\ o.record_format = "auto",
         [o EXCEPT !.record_format = GuessFormat(o.record)])
AudioOnlyFormats == {"m4a", "mka", "opus", "aac", "flac", "wav"}
RecordWrong(o) ==
    \/ o.record = "none" /\ o.record_format # "auto"
    \/ /\ o.record # "none"
       /\ \/ ~o.video /\ ~o.audio
          \/ o.record_format = "auto"
          \/ o.record_orientation \in {"flip0", "flip90", "flip180", "flip270"}
          \/ o.video /\ o.record_format \in AudioOnlyFormats
          \/ o.record_format \in {"opus", "aac", "flac"} /\ o.audio_codec # o.record_format
          \/ o.record_format = "wav" /\ o.audio_codec # "raw"
          \/ o.record_format \in {"mp4", "m4a"} /\ o.audio_codec = "raw"
          \/ o.record_format = "mp4" /\ o.video_codec = "vp8"

ControlWrong(o) ==
    ~o.control /\ (o.turn_screen_off \/ o.stay_awake \/ o.show_touches
                   \/ o.power_off_on_close \/ o.start_app \/ o.keep_active)
FpsCounter(o) ==
    When(o, o.fps_counter /\ ~o.video_playback, [o EXCEPT !.fps_counter = FALSE])
OtgOptionsWrong(o) ==
    o.otg /\ (o.record # "none" \/ o.turn_screen_off \/ o.stay_awake \/ o.show_touches
              \/ o.power_off_on_close \/ o.display_id > 0 \/ o.v4l2)

(* Each check is made on the options as they are at its place.             *)
Resolved(o) ==
    LET streams == Streams(o)
        inputs == InputModes(V4l2(AudioBuffer(streams)))
        displayed == RenderFit(MouseBindings(inputs))
        camera == FlexDisplay(CameraInputs(Tunnel(displayed)))
        final == FpsCounter(RecordFormat(AudioSource(camera)))
        wrong == \/ TooManySelectors(o) \/ NothingToDo(streams)
                 \/ V4l2Wrong(AudioBuffer(streams))
                 \/ SdkMouseWithoutVideo(inputs)
                 \/ NewDisplayWrong(displayed) \/ OtgWrong(displayed)
                 \/ SdkOptionsWrong(displayed) \/ CameraWrong(displayed)
                 \/ DisplayWrong(camera) \/ AudioDupWrong(final)
                 \/ RecordWrong(final) \/ ControlWrong(final)
                 \/ OtgOptionsWrong(final)
    IN If(~wrong, final)

(* scrcpy_parse_args(): --pause-on-exit is looked for again, backwards,    *)
(* when the command line is rejected.                                      *)
PauseOnExit(o) ==
    When(o, o.pause_on_exit = "undefined", [o EXCEPT !.pause_on_exit = "false"])

EndOfArguments ==
    /\ cli = "getopt"
    /\ IF Resolved(opts) = {} THEN cli' = "rejected" /\ UNCHANGED opts
       ELSE cli' = "accepted" /\ \E o \in Resolved(opts) : opts' = PauseOnExit(o)
    /\ UNCHANGED passed

OptionsNext == ReadArgument \/ EndOfArguments

--------------------------------------------------------------------------------
(* The parameters of the server, on both sides                             *)

(* What execute_server() takes for the default on the device: a parameter  *)
(* that has this value is not sent.                                        *)
OmittedValues ==
    [video |-> TRUE, audio |-> TRUE, control |-> TRUE, video_bit_rate |-> 0,
     audio_bit_rate |-> 0, video_codec |-> "h264", audio_codec |-> "opus",
     video_source |-> "display", audio_dup |-> FALSE,
     max_size |-> 0, min_size_alignment |-> 1, crop |-> FALSE, display_id |-> 0,
     camera_id |-> FALSE, camera_size |-> FALSE, camera_facing |-> "any",
     camera_ar |-> FALSE, camera_fps |-> 0, camera_high_speed |-> FALSE,
     show_touches |-> FALSE, stay_awake |-> FALSE, screen_off_timeout |-> -1,
     power_off_on_close |-> FALSE, clipboard_autosync |-> TRUE,
     downsize_on_error |-> TRUE, cleanup |-> TRUE, power_on |-> TRUE,
     new_display |-> FALSE, flex_display |-> FALSE, ime |-> "undefined",
     keep_active |-> FALSE, list |-> {}]
(* Mutation: an orientation is sent only when it is locked.                *)
ServerArgs_LockedOnly(o) ==
    LET sent == {p \in DOMAIN OmittedValues : o[p] # OmittedValues[p]}
        source == IF o.audio_source # "output" /\ o.audio THEN {"audio_source"} ELSE {}
        capture == IF o.capture_lock = "unlocked" THEN {} ELSE {"capture_orientation"}
    IN [p \in sent \cup capture \cup source |->
          IF p # "capture_orientation" THEN o[p]
          ELSE IF o.capture_lock = "initial" THEN <<"@">>
          ELSE <<"@", o.capture_orientation>>]
ServerArgs(o) ==
    LET sent == {p \in DOMAIN OmittedValues : o[p] # OmittedValues[p]}
        capture == IF o.capture_lock = "unlocked" /\ o.capture_orientation = "0"
                   THEN {} ELSE {"capture_orientation"}
        source == IF o.audio_source # "output" /\ o.audio THEN {"audio_source"} ELSE {}
    IN [p \in sent \cup capture \cup source |->
          IF p # "capture_orientation" THEN o[p]
          ELSE IF o.capture_lock = "initial" THEN <<"@">>
          ELSE IF o.capture_lock = "value" THEN <<"@", o.capture_orientation>>
          ELSE <<o.capture_orientation>>]

(* The fields of Options.java, and Options.parse().                        *)
DeviceDefaults ==
    [video |-> TRUE, audio |-> TRUE, control |-> TRUE, video_bit_rate |-> 8000000,
     audio_bit_rate |-> 128000, video_codec |-> "h264", audio_codec |-> "opus",
     video_source |-> "display", audio_source |-> "output", audio_dup |-> FALSE,
     max_size |-> 0, min_size_alignment |-> 1, crop |-> FALSE, display_id |-> 0,
     camera_id |-> FALSE, camera_size |-> FALSE, camera_facing |-> "any",
     camera_ar |-> FALSE, camera_fps |-> 0, camera_high_speed |-> FALSE,
     show_touches |-> FALSE, stay_awake |-> FALSE, screen_off_timeout |-> -1,
     power_off_on_close |-> FALSE, clipboard_autosync |-> TRUE,
     downsize_on_error |-> TRUE, cleanup |-> TRUE, power_on |-> TRUE,
     new_display |-> FALSE, flex_display |-> FALSE, ime |-> "undefined",
     keep_active |-> FALSE, list |-> {}, capture_orientation |-> <<"0">>]
DeviceOptions(args) ==
    [p \in DOMAIN DeviceDefaults |->
        IF p \in DOMAIN args THEN args[p] ELSE DeviceDefaults[p]]

--------------------------------------------------------------------------------
(* Properties                                                              *)

(* What the rest of the program asserts or relies on for a mirroring       *)
(* session (scrcpy.c:457, server.c:297,980,993, screen.c:319,              *)
(* input_manager.c:61,1109, recorder.c:762,780).                           *)
SessionReady(o) ==
    /\ o.video_playback => o.video /\ o.window
    /\ o.audio_playback => o.audio /\ o.audio_buffer >= 0
    /\ o.audio => o.audio_source # "auto"
    /\ o.video \/ o.audio \/ o.control
    /\ o.video \/ o.require_audio
    /\ o.control => /\ o.keyboard \in KeyboardModes /\ o.gamepad \in GamepadModes
                    /\ o.mouse \in MouseModes
                    /\ o.video_source = "camera" => InputsOf(o) = {"disabled"}
                    /\ o.mouse = "sdk" => o.video_playback
    /\ o.tcpip_dst => o.tcpip /\ ~o.serial
    /\ Cardinality({s \in {"serial", "select_tcpip", "select_usb"} : o[s]}) <= 1
    /\ o.flex_display => o.video /\ o.control /\ o.video_source = "display"
    /\ "auto" \notin {o.bindings[i] : i \in 1..4} \cup {o.sec_bindings[i] : i \in 1..4}
    /\ o.render_fit # "auto"
    /\ o.record # "none" => /\ o.video \/ o.audio
                            /\ o.record_format # "auto"
                            /\ o.record_format \in AudioOnlyFormats => o.audio /\ ~o.video
                            /\ o.record_orientation \in {"0", "90", "180", "270"}
    /\ o.v4l2 => o.video /\ ~o.downsize_on_error
    /\ o.fps_counter => o.video_playback
    /\ o.tunnel_port > 0 => o.force_adb_forward
    /\ o.port_range.first <= o.port_range.last

(* An accepted command line satisfies every assumption of the mode it      *)
(* starts: a session, or OTG (scrcpy_otg.c:152-157).  In OTG mode with     *)
(* --video-source=camera, all inputs may be disabled, after the check that *)
(* refuses it (cli.c:3172, then cli.c:3245).                               *)
AcceptedIsReady ==
    cli = "accepted" =>
        IF opts.otg
        THEN /\ InputsOf(opts) \subseteq {"aoa", "disabled"}
             /\ InputsOf(opts) = {"disabled"} => opts.video_source = "camera"
        ELSE SessionReady(opts)

(* The device works with the options of the client: what is not sent is    *)
(* the default there too, and what is sent is read back (execute_server(), *)
(* Options.parse()).                                                       *)
SameOnDevice ==
    cli = "accepted" =>
        LET device == DeviceOptions(ServerArgs(opts)) IN
        /\ \A p \in DOMAIN OmittedValues \ {"video_bit_rate", "audio_bit_rate"} :
              device[p] = opts[p]
        /\ opts.audio => device.audio_source = opts.audio_source
        /\ CaptureLock(device.capture_orientation) = opts.capture_lock
        /\ opts.capture_lock # "initial" =>
              device.capture_orientation[Len(device.capture_orientation)]
                = opts.capture_orientation

OptionsTypeOK ==
    /\ cli \in {"getopt", "accepted", "rejected"}
    /\ DOMAIN opts = DOMAIN DefaultOptions
    /\ passed \in 0..MaxArguments
================================================================================
