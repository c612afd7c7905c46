------------------------------ MODULE MCOutputs -----------------------------
(***************************************************************************)
(* The display is brought up on some boards; when the panel is open the    *)
(* caller makes up to MaxCalls calls.                                      *)
(***************************************************************************)
EXTENDS DispDriver

CONSTANTS MaxCalls   \* calls after the display was brought up

Lines == {0, 100}    \* the beam when the interrupt is taken: in the blank before the picture, or later

VARIABLES calls
vars == <<driverVars, calls>>

MCRegulators == [vcc_lcd |-> "dldo1", vcc_dsi |-> "eldo3", vcc_hdmi |-> "dldo1", vcc_pd |-> "dc1sw"]

\* The panel of the phone, and variants of it.
Dsi == [used |-> TRUE, intf |-> "DSI", dsi_if |-> "video", x |-> 720, y |-> 1440, ht |-> 1000, hbp |-> 80, hspw |-> 40,
        vt |-> 1485, vbp |-> 21, vspw |-> 4, dclk_freq |-> 69, lane |-> 4, pwm_used |-> TRUE, pwm_freq |-> 50000,
        pwm_pol |-> 1, bl_en |-> {"PH10"}, bl_power |-> {"none"}, power |-> {"vcc_dsi"}, fix_power |-> {"vcc_lcd"},
        pin_power |-> {"vcc_pd"}, gpios |-> {"PD23"}, backlight |-> 50, percent |-> <<10, 20>>, driver |-> "default_panel"]
BurstPanel == [Dsi EXCEPT !.dsi_if = "burst", !.backlight = 300]
CommandPanel == [Dsi EXCEPT !.dsi_if = "command"]
HvPanel == [[Dsi EXCEPT !.intf = "HV", !.gpios = {"PD23", "PD24"}] EXCEPT !.bl_power = {"vcc_pd"}]
LvdsPanel == [[Dsi EXCEPT !.intf = "LVDS", !.dclk_freq = 50] EXCEPT !.pwm_used = FALSE]
OtherPanel == [Dsi EXCEPT !.driver = "other"]
NoPanel == [used |-> FALSE]

Hdmi == [mode |-> "m1080P_60", plugged |-> TRUE, hdcp |-> FALSE, cts |-> FALSE, full |-> FALSE, lines |-> {"DDC"}, power |-> {"vcc_hdmi"}]
Protected == [Hdmi EXCEPT !.hdcp = TRUE, !.mode = "m480I", !.full = TRUE]
Unplugged == [Hdmi EXCEPT !.plugged = FALSE, !.cts = TRUE, !.mode = "unknown"]

Board(panel, hdmi, late, slow) == Machine([lcd |-> panel, hdmi |-> hdmi], late, slow)
Boards ==
  {Board(Dsi, Hdmi, late, FALSE) : late \in SUBSET Media}
    \cup {Board(p, Protected, {}, TRUE) : p \in {BurstPanel, CommandPanel, HvPanel}}
    \cup {Board(p, Unplugged, {}, FALSE) : p \in {LvdsPanel, OtherPanel, NoPanel}}

Calls ==
  {bsp_disp_device_switch(1, "HDMI", mode) : mode \in {"m1080P_60", "m720P_50", "m1080P_24_3D_FP"}}
    \cup {bsp_disp_device_switch(0, "HDMI", "m576P")}
    \cup {bsp_disp_device_switch(s, "none", "none") : s \in {0, 1}}
    \cup {board_display_show(s) : s \in {0, 1}} \cup {SA("layer_close", [s |-> s]) : s \in {0, 1}}
    \cup {SA("set_bright", [s |-> s, bright |-> 200]) : s \in {0, 1}}
    \cup {S("hdmi_detect")}

Init == sys \in Boards /\ todo = Display_Initialize /\ calls = 0

CallStarts ==
  /\ Idle /\ calls < MaxCalls
  /\ calls' = calls + 1 /\ todo' \in Calls /\ UNCHANGED sys

Step == CallerStep /\ UNCHANGED calls
Timer == OpenTimer /\ UNCHANGED calls
Frame(s) == Vblank(s) /\ UNCHANGED calls
Irq(s, line) == Interrupt(s, line) /\ UNCHANGED calls
Next ==
  \/ CallStarts \/ Step \/ Timer
  \/ \E s \in {0, 1} : Frame(s) \/ \E line \in Lines : Irq(s, line)

\* The processor goes on, timers strike, controllers that scan show frame after frame, and
\* HDMI's interrupt is not late for ever.  The first disjunction is WF_vars(Step): a step can
\* be made just when one is left to make.
Fairness ==
  /\ []<>(todo = <<>>) \/ []<><<Step>>_vars
  /\ WF_vars(Timer)
  /\ \A s \in {0, 1} : WF_vars(Frame(s)) /\ SF_vars(Irq(s, 0))
Spec == Init /\ [][Next]_vars /\ Fairness
=============================================================================
