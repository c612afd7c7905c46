----------------------------- MODULE MCDisplay ------------------------------
(***************************************************************************)
(* One screen, from its first switching on: a caller makes up to MaxCalls  *)
(* calls, one after the other, and the frame interrupt strikes between any *)
(* two steps of them.                                                      *)
(***************************************************************************)
EXTENDS DispScreen, TLC

CONSTANTS MaxCalls   \* calls after the screen was switched on

VARIABLES calls,     \* made so far
          scanning   \* the screen is being shown: its interrupt is on
vars == <<screenVars, calls, scanning>>

Panel == [type |-> "LCD", hwdev |-> 0, width |-> 720, cs |-> "rgb", range |-> "0_255", interlace |-> 0]

\* A layer: shown or not, zorder, format, the part of the buffer and the window it fills.
Off == disp_init_lyr[<<0, 0>>]
Layer(z, fmt, crop, win, buf) ==
  [Off EXCEPT !.en = TRUE, !.z = z, !.fmt = fmt, !.crop = [x |-> crop[1], w |-> crop[2]],
              !.win = [x |-> win[1], w |-> win[2]], !.buf = buf]
Stereo(layer) == [layer EXCEPT !.trd = "SS", !.trd_out = TRUE, !.out = "SS"]

\* The whole screen; video cut at an odd pixel and scaled up; a picture scaled down eight
\* times and more, over a small one at the edge; a stereo picture; a second layer alone; nothing.
\* The two layers of a video channel are always configured together.
Scenes == {
  <<1, 0>> :> Layer(0, "rgb", <<0, 720>>, <<0, 720>>, 1),
  <<0, 0>> :> Layer(1, "yuv420", <<1, 101>>, <<100, 400>>, 2) @@ <<0, 1>> :> Off,
  <<0, 0>> :> Layer(0, "rgb", <<0, 1280>>, <<600, 100>>, 3) @@ <<0, 1>> :> Off
    @@ <<1, 0>> :> Layer(1, "rgb", <<0, 10>>, <<700, 20>>, 4),
  <<0, 0>> :> Stereo(Layer(0, "rgb", <<0, 100>>, <<0, 60>>, 5)) @@ <<0, 1>> :> Off,
  <<1, 1>> :> Layer(3, "rgb", <<0, 20>>, <<300, 20>>, 6),
  <<1, 0>> :> Off }

Strong == [enable |-> TRUE, sharp |-> [peak |-> 1, lti |-> 1]]
Request == [buf |-> 9, bufw |-> 720, win |-> 360, x |-> 0, crop |-> 0]

Calls ==
  {SA("set_layer_config", c) : c \in Scenes}
    \cup {SA("mgr_blank", b) : b \in BOOLEAN}
    \cup {SA("set_back_color", 5), S("set_color_key"), SA("set_output_color_range", "16_235"),
          S("update_color_space"), S("mgr_disable"), S("mgr_enable"),
          S("enhance_enable"), S("enhance_disable"), S("enhance_demo_enable"), S("enhance_demo_disable"),
          SA("enhance_set_mode", 2), SA("enhance_set_para", Strong),
          S("capture_start") \o SA("capture_commit", Request), S("capture_stop")}

Init == ScreenInit(Panel) /\ calls = 0 /\ scanning = FALSE

\* The boot loader may have left the screen on.
Begin ==
  /\ ~scanning /\ todo = <<>> /\ calls = 0
  /\ \/ ~manager.enabled /\ todo' \in {S("mgr_enable"), S("mgr_sw_enable")} /\ UNCHANGED scanning
     \/ manager.enabled /\ scanning' = TRUE /\ UNCHANGED todo
  /\ UNCHANGED <<engine, manager, layers, enhancer, captor, cfgCnt, alPriv, shown, calls>>

CallStarts ==
  /\ scanning /\ todo = <<>> /\ calls < MaxCalls
  /\ calls' = calls + 1 /\ todo' \in Calls
  /\ UNCHANGED <<engine, manager, layers, enhancer, captor, cfgCnt, alPriv, shown, scanning>>

\* The interrupt comes late or in time; a write back ends well or not.
Frame ==
  /\ scanning /\ \E timeout \in BOOLEAN, done \in 0 .. 2 : sync_event_proc(timeout, done)
  /\ UNCHANGED <<calls, scanning>>

Next ==
  \/ ManagerStep /\ UNCHANGED <<calls, scanning>>
  \/ EnhanceStep /\ UNCHANGED <<calls, scanning>>
  \/ CaptureStep /\ UNCHANGED <<calls, scanning>>
  \/ Begin \/ CallStarts \/ Frame

Spec == Init /\ [][Next]_vars
=============================================================================
