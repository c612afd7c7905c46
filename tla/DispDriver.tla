----------------------------- MODULE DispDriver -----------------------------
(***************************************************************************)
(* The display driver as its caller sees it: it brings up the panel on     *)
(* screen 0 and HDMI on screen 1 and switches them.  The panel is opened   *)
(* by a chain of timer callbacks that interrupt whatever the caller does   *)
(* meanwhile; the frame interrupts of both screens strike between any two  *)
(* steps.  todo holds the steps that are still to be made, the next first. *)
(***************************************************************************)
EXTENDS OutputDevices

VARIABLES sys,   \* the machine: see DispBoard
          todo
driverVars == <<sys, todo>>

S(op) == <<[op |-> op, arg |-> [s |-> 0]]>>
SA(op, arg) == <<[op |-> op, arg |-> arg]>>
At(op) == todo # <<>> /\ Head(todo).op = op
Arg == Head(todo).arg
Act(op, m, then) == At(op) /\ sys' = m /\ todo' = then \o Tail(todo)
When(c, steps) == IF c THEN steps ELSE <<>>

NoFb == [en |-> FALSE]
\* script, late and slow are the board's; everything else starts as reset leaves it.
Machine(script, late, slow) ==
  [script |-> script, late |-> late, slow |-> slow, clk |-> init_clocks, tcon |-> [s \in {0, 1} |-> TconZero], dsi |-> DsiZero,
   pwm |-> PwmZero, rails |-> {}, lines |-> {}, handlers |-> {}, gic |-> {}, asserted |-> FALSE,
   mgr |-> [s \in {0, 1} |-> MgrZero], lcd |-> LcdZero, hdmi |-> HdmiZero, core |-> CoreZero,
   flow |-> [cnt |-> 0, finished |-> FALSE, start |-> FALSE, timer |-> FALSE], fb |-> [s \in {0, 1} |-> NoFb], inited |-> FALSE]

-----------------------------------------------------------------------------
(* Bringing up.                                                            *)
\* The panel gets screen 0; HDMI is attached when it is switched to.
disp_init_connections(m) == disp_device_set_manager(m, "LCD", 0)
bsp_disp_init(m) == disp_init_connections(disp_lcd_init(m))
lcd_init(m) == disp_lcd_set_panel_funs(m, "default_panel")
SetParents(c) ==
  clk_set_parent(clk_set_parent(clk_set_parent(clk_set_parent(c, "tcon0", "pll_mipi"), "tcon1", "pll_video0"),
                                "pll_mipi", "pll_video0"), "de", "pll_de")
drv_disp_init(m) ==
  [hdmi_init(lcd_init(bsp_disp_init([m EXCEPT !.clk = SetParents(@)]))) EXCEPT !.inited = TRUE]
DriverInit == Act("drv_disp_init", drv_disp_init(sys), <<>>)

-----------------------------------------------------------------------------
(* Opening the panel.                                                      *)
RunFlowStep(name, m) ==
  CASE name = "lcd_pre_enable" -> disp_lcd_pre_enable(m)
    [] name = "LCD_power_on" -> LCD_power_on(m)
    [] name = "LCD_panel_init" -> LCD_panel_init(m)
    [] name = "tcon_enable" -> disp_lcd_tcon_enable(m)
    [] name = "LCD_bl_open" -> LCD_bl_open(m)
    [] name = "lcd_post_enable" -> disp_lcd_post_enable(m)

drv_lcd_enable ==
  Act("drv_lcd_enable", [sys EXCEPT !.flow = [@ EXCEPT !.cnt = 0, !.finished = FALSE, !.start = TRUE]], S("lcd_open_callback"))
\* A step without a delay is followed by the next at once.
drv_lcd_open_callback ==
  LET flow == disp_lcd_get_open_flow(sys)
      i == sys.flow.cnt + 1
      next == [sys EXCEPT !.flow.cnt = i]
  IN \/ /\ i <= Len(flow)
        /\ Act("lcd_open_callback", [RunFlowStep(flow[i][1], next) EXCEPT !.flow.timer = flow[i][2] > 0],
               When(flow[i][2] = 0, S("lcd_open_callback")))
     \/ /\ i > Len(flow)
        /\ Act("lcd_open_callback", [next EXCEPT !.flow.finished = TRUE, !.flow.timer = FALSE], <<>>)
\* The timer strikes.
OpenTimer ==
  /\ sys.flow.timer /\ sys' = [sys EXCEPT !.flow.timer = FALSE] /\ todo' = S("lcd_open_callback") \o todo
drv_lcd_check_open_finished(m) == m.flow.start => m.flow.finished

-----------------------------------------------------------------------------
(* Closing it: the close flow, then what is left.                          *)
disp_lcd_disable ==
  LET on == sys.lcd.manager # NoManager /\ sys.lcd.enabled
      steps == [i \in 1 .. 4 |-> [op |-> LCD_close_flow[i], arg |-> [s |-> 0]]]
  IN Act("lcd_disable", IF on THEN [sys EXCEPT !.lcd.enabled = FALSE, !.lcd.bl_need = FALSE] ELSE sys,
         When(on, When(sys.lcd.funs, steps) \o S("lcd_post_disable")))
CloseBacklight == Act("LCD_bl_close", LCD_bl_close(sys), <<>>)
CloseTcon == Act("tcon_disable", disp_lcd_tcon_disable(sys), <<>>)
ClosePanel == Act("LCD_panel_exit", LCD_panel_exit(sys), <<>>)
ClosePower == Act("LCD_power_off", LCD_power_off(sys), <<>>)
CloseRest == Act("lcd_post_disable", disp_lcd_post_disable(sys), <<>>)

-----------------------------------------------------------------------------
(* HDMI.                                                                   *)
disp_hdmi_enable ==
  \/ At("hdmi_enable") /\ ~CanEnable(sys) /\ Act("hdmi_enable", sys, <<>>)
  \/ At("hdmi_enable") /\ CanEnable(sys)
     /\ LET r == EnableClock(sys) IN Act("hdmi_enable", r.m, When(r.ok, S("hdmi_cfg") \o S("hdmi_open")))
HdmiCfg == Act("hdmi_cfg", EnableCfg(sys), <<>>)
HdmiOpen == Act("hdmi_open", EnableOpen(sys), <<>>)
disp_hdmi_disable ==
  Act("hdmi_disable", IF CanDisable(sys) THEN DisableOutput(sys) ELSE sys, When(CanDisable(sys), S("hdmi_clk_disable")))
HdmiClkDisable == Act("hdmi_clk_disable", DisableClock(sys), <<>>)
HdmiSetMode == Act("hdmi_set_mode", disp_hdmi_set_mode(sys, Arg.mode), <<>>)
HdmiDetect == Act("hdmi_detect", disp_hdmi_detect(sys), <<>>)

-----------------------------------------------------------------------------
(* Switching screen s to HDMI in a mode, or to nothing.  dev is the number *)
(* of the device that is looked for; there is one HDMI device, number 0,   *)
(* and it must be free.  When it is not, the others are tried, after the   *)
(* screen has lost what it had.                                            *)
UnsetManager == Act("unset_manager", disp_device_unset_manager(sys, Arg.dev), <<>>)
IsEnabled(m, dev) == IF dev = "LCD" THEN m.lcd.enabled ELSE dev = "HDMI" /\ m.hdmi.enabled
Off(dev) == S(IF dev = "LCD" THEN "lcd_disable" ELSE "hdmi_disable")
Detach(m, dev) == When(IsEnabled(m, dev), Off(dev)) \o When(dev # "none", SA("unset_manager", [dev |-> dev]))

disp_device_attached_and_enable ==
  LET dev == sys.mgr[Arg.s].device
      start == SA("hdmi_set_mode", [mode |-> Arg.mode]) \o S("hdmi_enable")
      same == IsEnabled(sys, dev) /\ disp_hdmi_get_mode(sys) = Arg.mode
  IN At("device_switch") /\
     \/ Arg.type = "none" /\ Act("device_switch", sys, Detach(sys, dev))
     \/ /\ Arg.type = "HDMI" /\ dev = "HDMI"
        /\ Act("device_switch", sys, When(~same, When(IsEnabled(sys, dev), Off(dev)) \o start))
     \/ /\ Arg.type = "HDMI" /\ dev # "HDMI"
        /\ Act("device_switch", sys, Detach(sys, dev) \o SA("attach", Arg))
\* disp_device_get, and the loop of bsp_disp_device_switch when it finds nothing.
disp_device_get ==
  LET free == Arg.devs # <<>> /\ Head(Arg.devs) = 0 /\ sys.hdmi.manager = NoManager
  IN At("attach") /\
     \/ /\ free
        /\ Act("attach", disp_device_set_manager(sys, "HDMI", Arg.s),
               SA("hdmi_set_mode", [mode |-> Arg.mode]) \o S("hdmi_enable"))
     \/ /\ ~free
        /\ Act("attach", sys, When(Len(Arg.devs) > 1, SA("device_switch", [Arg EXCEPT !.devs = Tail(@)])))
bsp_disp_device_switch(s, type, mode) == SA("device_switch", [s |-> s, type |-> type, mode |-> mode, devs |-> <<s, 0, 1>>])

-----------------------------------------------------------------------------
(* Pictures.                                                               *)
\* The brightness of a screen that is no panel is not set.
SetBright == Act("set_bright", IF sys.mgr[Arg.s].device = "LCD" THEN disp_lcd_set_bright(sys, Arg.bright) ELSE sys, <<>>)

Width(m, s) == CASE m.mgr[s].device = "LCD" -> m.lcd.panel.x [] m.mgr[s].device = "HDMI" -> m.hdmi.x [] OTHER -> 0
Height(m, s) == CASE m.mgr[s].device = "LCD" -> m.lcd.panel.y [] m.mgr[s].device = "HDMI" -> m.hdmi.y [] OTHER -> 0

\* Half the difference of unsigned numbers.
Centred(screen, size) == IF screen >= size THEN (screen - size) \div 2 ELSE (2147483647 + ((screen - size) \div 2)) + 1
\* The picture has the size w, h: all of the screen if the script says so, or in its middle.
board_display_framebuffer_set(m, s, w, h) ==
  [en |-> FALSE, w |-> w, h |-> h,
   win |-> IF m.script.hdmi.full THEN <<0, 0, Width(m, s), Height(m, s)>>
           ELSE <<Centred(Width(m, s), w), Centred(Height(m, s), h), w, h>>]
\* Both screens show one frame buffer, of the size of HDMI's.
SetFrameBuffers ==
  Act("framebuffers", [sys EXCEPT !.fb = [s \in {0, 1} |-> board_display_framebuffer_set(sys, s, Width(sys, 1), Height(sys, 1))]], <<>>)

SetLayer(m, s, en) == [disp_mgr_set_layer_config(m, s, [m.fb[s] EXCEPT !.en = en]) EXCEPT !.fb[s].en = en]
board_display_layer_para_set == Act("layer_para_set", SetLayer(sys, Arg.s, sys.fb[Arg.s].en), <<>>)
board_display_layer_open == Act("layer_open", SetLayer(sys, Arg.s, TRUE), <<>>)
board_display_layer_close == Act("layer_close", SetLayer(sys, Arg.s, FALSE), <<>>)
board_display_show(s) == SA("layer_para_set", [s |-> s]) \o SA("layer_open", [s |-> s])

\* DisplayV3Dxe's start.
Display_Initialize ==
  S("drv_disp_init") \o S("drv_lcd_enable")
    \o bsp_disp_device_switch(1, "HDMI", sys.script.hdmi.mode) \o S("framebuffers") \o board_display_show(1) \o board_display_show(0)

-----------------------------------------------------------------------------
(* Frames.  A controller that scans out raises its flag at every frame.    *)
DsiScans(m) ==
  m.clk["mipidsi"].on /\ m.dsi.en /\ m.dsi.prog = "HSD" /\ m.dsi.busy /\ m.dsi.loop /\ ~m.dsi.leave
Scans(m, s) ==
  IF s = 1 THEN m.clk["tcon1"].on /\ m.tcon[1].en /\ m.tcon[1].en1
  ELSE m.clk["tcon0"].on /\ m.tcon[0].en /\ m.tcon[0].en0 /\ (m.lcd.panel.intf = "DSI" => DsiScans(m))
Source(m, s) == IF s = 1 THEN "tcon1" ELSE LcdIrq(m)
Pending(m, s) ==
  IF s = 1 THEN tcon_irq_query(m.tcon[1], "TCON1_VBLK") ELSE disp_al_lcd_query_irq(m)

Vblank(s) ==
  /\ sys.inited /\ Scans(sys, s)
  /\ sys' = IF s = 1 THEN [sys EXCEPT !.tcon[1].flag = @ \cup {"TCON1_VBLK"}]
            ELSE IF Source(sys, 0) = "dsi" THEN [sys EXCEPT !.dsi.flag = @ \cup {"VIDEO_VBLK"}]
            ELSE [sys EXCEPT !.tcon[0].flag = @ \cup {"TCON0_VBLK"}]
  /\ UNCHANGED todo
\* Only HDMI's handler looks at the line the beam is in.
Interrupt(s, line) ==
  /\ sys.inited /\ Pending(sys, s) /\ Source(sys, s) \in sys.gic \cap sys.handlers
  /\ line > 0 => s = 1
  /\ sys' = IF s = 1 THEN disp_hdmi_event_proc(sys, line) ELSE disp_lcd_event_proc(sys)
  /\ UNCHANGED todo

CallerStep ==
  \/ DriverInit \/ drv_lcd_enable \/ drv_lcd_open_callback
  \/ disp_lcd_disable \/ CloseBacklight \/ CloseTcon \/ ClosePanel \/ ClosePower \/ CloseRest
  \/ disp_hdmi_enable \/ HdmiCfg \/ HdmiOpen \/ disp_hdmi_disable \/ HdmiClkDisable \/ HdmiSetMode \/ HdmiDetect
  \/ UnsetManager \/ disp_device_attached_and_enable \/ disp_device_get
  \/ SetBright \/ SetFrameBuffers \/ board_display_layer_para_set \/ board_display_layer_open \/ board_display_layer_close

-----------------------------------------------------------------------------
(* Properties.                                                             *)

Idle == todo = <<>> /\ sys.inited /\ drv_lcd_check_open_finished(sys)
Failed == \E s \in {0, 1} : sys.mgr[s].failed
Count(b) == IF b THEN 1 ELSE 0
Link(x) == sys.lcd.enabled /\ LinkClocks(sys.lcd.panel) = x

\* How often each clock must have been enabled for the devices that are on.
Users(x) ==
  CASE x = "de" -> Cardinality({s \in {0, 1} : sys.mgr[s].enabled})
    [] x = "tcon0" -> Count(sys.lcd.enabled) + Count(Link("lvds"))
    [] x = "tcon1" -> Count(sys.hdmi.enabled)
    [] x \in {"lvds", "mipidsi"} -> Count(Link(x))
    [] x \in {"hdmi", "hdmi_slow"} -> Count(sys.hdmi.func)
    [] x \in {"hosc", "none"} -> 0
    [] OTHER -> Cardinality({y \in Clocks : sys.clk[y].parent = x /\ sys.clk[y].count > 0})

\* Between calls, whatever was switched on and off before in whatever order (disp_lcd.c and
\* disp_hdmi.c, enable and disable): a device that is on has a manager that is on, its
\* controller, its clocks and its interrupt, at the source and at the interrupt controller; and
\* every clock has been enabled exactly as often as the devices that are on need it, so that
\* none is lost to the other screen and none is left running.  Runs in which a manager's own
\* clock failed, and panels without a frame interrupt, are left out.
ScreenRuns ==
  Idle /\ ~Failed =>
    /\ \A x \in Clocks : sys.clk[x].count = Users(x) /\ (sys.clk[x].count > 0 => sys.clk[x].on)
    /\ sys.lcd.enabled /\ sys.lcd.funs /\ sys.lcd.manager # NoManager =>
         /\ sys.mgr[sys.lcd.manager].enabled /\ Source(sys, 0) \in sys.gic
         /\ ~Triggered(sys.lcd.panel) => Scans(sys, 0)
    /\ sys.hdmi.enabled => /\ sys.mgr[sys.hdmi.manager].enabled /\ Scans(sys, 1)
                           /\ "tcon1" \in sys.gic /\ "TCON1_VBLK" \in sys.tcon[1].irq

\* At every moment, even half way through the timed open flow or the close flow
\* (default_panel.c, LCD_open_flow and LCD_close_flow): while the backlight is lit the panel has
\* its supplies, and the controller behind it sends a picture; a DSI panel has been given its
\* commands.
BacklightNeedsPicture ==
  LET p == sys.lcd.panel IN
  sys.inited /\ p.bl_en # {} /\ p.bl_en \subseteq sys.lines /\ sys.pwm.en =>
    /\ find_regulator_str(p.power \cup p.fix_power) \subseteq sys.rails
    /\ Triggered(p) \/ Scans(sys, 0)
    /\ p.intf = "DSI" => {c[1] : c \in Range(PanelCommands)} \subseteq sys.dsi.sent

\* What a screen was told is on it in the end: a manager whose device shows frames writes
\* what was set, at a frame interrupt that comes in time (sync_event_proc).
Showing(s) ==
  \/ s = sys.hdmi.manager /\ sys.hdmi.enabled
  \/ s = sys.lcd.manager /\ sys.lcd.enabled /\ sys.lcd.funs /\ ~Triggered(sys.lcd.panel)
PictureShown ==
  \A s \in {0, 1} : Showing(s) /\ sys.mgr[s].enabled /\ sys.mgr[s].dirty
                      ~> ~sys.mgr[s].dirty \/ ~Showing(s) \/ ~sys.mgr[s].enabled
=============================================================================
