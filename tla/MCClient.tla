------------------------------- MODULE MCClient -------------------------------
(* The main thread of the client and what it drives, part by part: its        *)
(* command line (Options), its window and video (Screen), its sound (Audio),  *)
(* its input (Input) and its HID devices (Hid).  The five share no state, so  *)
(* that a behaviour follows one of them: every interleaving of two would only *)
(* repeat the states of each.                                                 *)
EXTENDS Options, Screen, Audio, Input, Hid

VARIABLE focus

clientVars == <<optionVars, videoVars, screenVars, audioVars, inputVars, hidVars>>

(* Every flag, and texts that each parser accepts or refuses.                 *)
MCArguments ==
    {<<o, TRUE>> : o \in SetFlags \cup ClearFlags \cup {"tcpip", "no_playback"}}
    \cup {<<"tcpip", FALSE>>, <<"record", "mkv">>, <<"record", "opus">>, <<"record", "txt">>,
          <<"record_format", "mp4">>, <<"record_format", "wav">>, <<"record_format", "avi">>,
          <<"record_orientation", "90">>, <<"orientation", "flip0">>,
          <<"audio_codec", "raw">>, <<"audio_codec", "flac">>, <<"video_codec", "vp8">>,
          <<"video_source", "camera">>, <<"audio_source", "mic">>,
          <<"keyboard", "uhid_or_aoa">>, <<"keyboard", "aoa">>, <<"keyboard", "disabled">>,
          <<"mouse", "uhid_or_aoa">>, <<"mouse", "sdk">>, <<"mouse", "aoa">>,
          <<"gamepad", "uhid_or_aoa">>, <<"key_inject", "text">>, <<"key_inject", "raw">>,
          <<"list", "apps">>, <<"ime", "local">>, <<"render_fit", "stretched">>,
          <<"camera_facing", "front">>, <<"camera_fps", 60>>, <<"display_id", 1>>,
          <<"max_size", 65536>>, <<"max_size", 1024>>, <<"min_size_alignment", 12>>,
          <<"min_size_alignment", 8>>, <<"audio_buffer", 3600000>>, <<"v4l2_buffer", 1>>,
          <<"audio_output_buffer", 1001>>, <<"tunnel_port", 80>>, <<"window_width", 640>>,
          <<"window_x", 5>>, <<"time_limit", 2147483647>>, <<"screen_off_timeout", 2147483>>,
          <<"screen_off_timeout", 2147484>>, <<"video_bit_rate", 1>>,
          <<"port_range", <<9, 5>> >>, <<"capture_orientation", <<"@">> >>,
          <<"capture_orientation", <<"@", "90">> >>, <<"capture_orientation", <<"flip90">> >>,
          <<"shortcut_mods", <<"lctrl", "rsuper">> >>, <<"shortcut_mods", <<"lctrl", "fn">> >>,
          <<"bindings", <<"b", "h", "+", "-">> >>,
          <<"bindings", <<"b", "h", "+", "-", ":", "+", "+", "n", "s">> >>,
          <<"background_color", <<1, 2, 3>> >>, <<"background_color", <<1, 2>> >>,
          <<"pause_on_exit", "if-error">>}

MCSizes == {<<1, 2>>, <<2, 1>>}
Plain == [regulated |-> FALSE, v4l2 |-> FALSE, flex |-> FALSE, user |-> {"quit"}, steps |-> 0,
          frames |-> 2]
MCSetups ==
    {[Plain EXCEPT !.regulated = TRUE, !.frames = 3], [Plain EXCEPT !.v4l2 = TRUE, !.frames = 3],
     [Plain EXCEPT !.regulated = TRUE, !.v4l2 = TRUE],
     [Plain EXCEPT !.user = {"quit", "pause", "rotate"}, !.steps = 2],
     [Plain EXCEPT !.user = {"quit", "rotate", "window"}, !.steps = 2],
     [Plain EXCEPT !.user = {"quit", "disconnected", "counter"}, !.steps = 2, !.frames = 1],
     [Plain EXCEPT !.user = {"quit", "window"}, !.steps = 2, !.flex = TRUE]}

(* The setup of the frame counter alone.                                      *)
CounterSetups ==
    {[Plain EXCEPT !.user = {"quit", "disconnected", "counter"}, !.steps = 2, !.frames = 1]}

Sdk == [control |-> TRUE, camera |-> FALSE, hover |-> TRUE, repeats |-> TRUE,
        legacyPaste |-> FALSE, autosync |-> TRUE, keyboard |-> "sdk", mouse |-> "sdk",
        gamepad |-> FALSE, mode |-> "mixed", keys |-> {"V", "Z", "UP"},
        mods |-> {{}, {"ctrl"}, {"mod"}, {"mod", "shift"}},
        click |-> [shift \in BOOLEAN |-> IF shift THEN "panel" ELSE "BACK_OR_SCREEN_ON"]]
MCConfigs ==
    {Sdk,
     [Sdk EXCEPT !.mode = "raw", !.legacyPaste = TRUE, !.hover = FALSE, !.repeats = FALSE,
                 !.keys = {"N", "V"}, !.click = [shift \in BOOLEAN |-> "click"]],
     [Sdk EXCEPT !.keyboard = "aoa", !.mouse = "relative", !.gamepad = TRUE,
                 !.keys = {"V", "K", "MOD"},
                 !.click = [shift \in BOOLEAN |-> IF shift THEN "disabled" ELSE "HOME"]],
     [Sdk EXCEPT !.camera = TRUE, !.keyboard = "none", !.mouse = "none",
                 !.keys = {"T", "UP", "R"}],
     [Sdk EXCEPT !.control = FALSE, !.keyboard = "none", !.mouse = "none", !.keys = {"Z", "H"}]}

Modes(transport, keyboard, mouse, gamepad, inputs) ==
    [transport |-> transport, keyboard |-> keyboard, mouse |-> mouse, gamepad |-> gamepad,
     inputs |-> inputs, locks |-> "release"]
MCHidSetups ==
    {Modes("aoa", TRUE, FALSE, FALSE, 4), Modes("aoa", FALSE, FALSE, TRUE, 5),
     Modes("aoa", TRUE, TRUE, FALSE, 2), Modes("uhid", TRUE, FALSE, FALSE, 5),
     [Modes("uhid", TRUE, FALSE, FALSE, 4) EXCEPT !.locks = "press"],
     Modes("uhid", FALSE, TRUE, TRUE, 5)}

(* What is not in focus has one initial state.                                *)
Unfocused(name, state, states) == focus # name => state = CHOOSE s \in states : TRUE

MCInit ==
    /\ focus \in {"options", "screen", "audio", "input", "hid"}
    /\ OptionsInit /\ ScreenInit /\ AudioInit /\ InputInit /\ HidInit
    /\ Unfocused("screen", setup, Setups) /\ Unfocused("screen", stream.session.size, Sizes)
    /\ Unfocused("input", config, Configs)
    /\ Unfocused("hid", modes, HidSetups) /\ Unfocused("hid", caps.host, BOOLEAN)

Options_Next == focus = "options" /\ OptionsNext
                /\ UNCHANGED <<videoVars, screenVars, audioVars, inputVars, hidVars>>
Screen_Next == focus = "screen" /\ ScreenNext
               /\ UNCHANGED <<optionVars, audioVars, inputVars, hidVars>>
Audio_Next == focus = "audio" /\ AudioNext
              /\ UNCHANGED <<optionVars, videoVars, screenVars, inputVars, hidVars>>
Input_Next == focus = "input" /\ InputNext
              /\ UNCHANGED <<optionVars, videoVars, screenVars, audioVars, hidVars>>
Hid_Next == focus = "hid" /\ HidNext
            /\ UNCHANGED <<optionVars, videoVars, screenVars, audioVars, inputVars>>

MCNext == (Options_Next \/ Screen_Next \/ Audio_Next \/ Input_Next \/ Hid_Next)
          /\ UNCHANGED focus

MCSpec == MCInit /\ [][MCNext]_<<clientVars, focus>>

(* Only the part in focus changes.                                            *)
ClientView == CASE focus = "options" -> optionVars
                [] focus = "screen" -> <<videoVars, screenVars>>
                [] focus = "audio" -> audioVars
                [] focus = "input" -> inputVars
                [] focus = "hid" -> hidVars

-------------------------------------------------------------------------------
(* The types of the five parts, and what their code asserts.                  *)
ClientTypeOK == OptionsTypeOK /\ ScreenTypeOK /\ AudioTypeOK /\ InputTypeOK /\ HidTypeOK

(* A command line that is accepted satisfies what the session assumes, and    *)
(* means the same on the device (cli.c, server.c, Options.java).              *)
CommandLineAgrees == AcceptedIsReady /\ SameOnDevice

(* Frames reach the screen in order, each announced once, no thread of the    *)
(* sinks sleeps on work, and the data of an event is freed even if the event  *)
(* is never handled (video_regulator.c, v4l2_sink.c, screen.c).               *)
EventsAreHandled == FramesReachTheScreen /\ PostedDataIsFreed

(* The window takes the ratio of what is displayed, and the points of the     *)
(* window are those of the frame, in any orientation (screen.c, options.c).   *)
DisplayIsRight == WindowFitsContent /\ RotatesTheDisplay

(* The device has the buttons and the virtual finger that the client thinks   *)
(* it has, and a character arrives once (input_manager.c, keyboard_sdk.c).    *)
InputIsFaithful == MouseStateIsTrue /\ TypedOnce

(* A paste waits for the clipboard that was just sent, and finds it or a      *)
(* later one on the device (input_manager.c, aoa_hid.c, acksync.c).           *)
PasteIsCurrent == PasteFollowsClipboard /\ PasteIsNew
===============================================================================
