---------------------------- MODULE OutputDevices ---------------------------
(***************************************************************************)
(* The two outputs.                                                        *)
(*                                                                         *)
(* The panel: its clocks, its supplies, its backlight and its open and     *)
(* close flows.  m.script.lcd is the panel as the script describes it.     *)
(*                                                                         *)
(* HDMI: the device (m.hdmi), the functions the driver registers for it,   *)
(* and the core that watches the plug (m.core).  A mode and the format of  *)
(* the same name are not told apart.                                       *)
(***************************************************************************)
EXTENDS DispBoard

-----------------------------------------------------------------------------
(* What is read from the script.                                           *)
\* What the script does not say is zero, or unused.
PanelZero ==
  [used |-> FALSE, intf |-> "HV", dsi_if |-> "video", hv_if |-> "HV", fdly |-> "2LINE", interlace |-> FALSE, x |-> 0, y |-> 0,
   ht |-> 0, hbp |-> 0, hspw |-> 0, vt |-> 0, vbp |-> 0, vspw |-> 0, dclk_freq |-> 0, lane |-> 1, format |-> "RGB888",
   frm |-> 0, cpu_te |-> 0, dsi_te |-> 0, lvds_if |-> "single", fresh |-> 0, gamma_en |-> FALSE,
   pwm_used |-> FALSE, pwm_ch |-> 0, pwm_freq |-> 0, pwm_pol |-> 0, bl_en |-> {}, bl_power |-> {}, fix_power |-> {},
   power |-> {}, gpio_power |-> {}, pin_power |-> {}, gpios |-> {}, backlight |-> 197, percent |-> <<>>, driver |-> "none"]
LcdZero ==
  [manager |-> NoManager, enabled |-> FALSE, enabling |-> FALSE, bl_need |-> FALSE, bright |-> 0, dimming |-> 0, hdl |-> {},
   period |-> 0, duty |-> 0, funs |-> FALSE, panel |-> PanelZero]

lcd_parse_panel_para(script) == script @@ PanelZero
lcd_get_sys_config(panel) == IF panel.backlight > 256 THEN 256 ELSE panel.backlight

\* percent gives some of the hundred steps a brightness; the last one is full unless it is given.
CurveAdjust(percent, i) ==
  IF i \in DOMAIN percent THEN ((IF percent[i] > 100 THEN 100 ELSE percent[i]) * 255) \div 100
  ELSE IF i = 100 THEN 255 ELSE 0
\* The table is drawn through the steps that are not zero, from nothing.
disp_lcd_bright_curve_init(percent) ==
  LET points == {0} \cup {i \in 0 .. 100 : CurveAdjust(percent, i) # 0}
      at(i) == (255 * i) \div 100
      value(b) == LET lo == CHOOSE i \in points : at(i) <= b /\ \A j \in points : at(j) <= b => j <= i
                      hi == CHOOSE i \in points : i > lo /\ \A j \in points : j > lo => i <= j
                  IN CurveAdjust(percent, lo)
                     + (((CurveAdjust(percent, hi) - CurveAdjust(percent, lo)) * (b - at(lo))) \div (at(hi) - at(lo)))
      last == CHOOSE i \in points : \A j \in points : j <= i
  IN [b \in 0 .. 255 |-> IF b >= at(last) THEN CurveAdjust(percent, last) ELSE value(b)]
disp_lcd_bright_get_adjust_value(m, b) == 
  disp_lcd_bright_curve_init(m.lcd.panel.percent)[IF b > 255 THEN 255 ELSE b]

disp_lcd_is_used(m) == m.lcd.panel.used

-----------------------------------------------------------------------------
(* Brightness.                                                             *)
\* (bright * dimming * period / 256 + 128) / 256, in 64 bits.
Duty(x, period) ==
  LET q == period \div 65536 u == (period % 65536) \div 256 v == period % 256
  IN (x * q) + (((x * u) + ((x * v) \div 256) + 128) \div 256)
disp_lcd_set_bright(m, bright) ==
  LET b == IF bright > 255 THEN 255 ELSE bright
      dim == IF m.lcd.dimming = 0 THEN 256 ELSE m.lcd.dimming
      duty == Duty(disp_lcd_bright_get_adjust_value(m, IF b = 0 THEN 0 ELSE b + 1) * dim, m.lcd.period)
      set == [m EXCEPT !.lcd.bright = b]
  IN IF m.lcd.manager = NoManager THEN m
     ELSE IF ~m.lcd.panel.pwm_used THEN set
     ELSE pwm_config([set EXCEPT !.lcd.dimming = dim, !.lcd.duty = duty], m.lcd.panel.pwm_ch, duty, m.lcd.period)
disp_lcd_get_bright(m) == m.lcd.bright

disp_lcd_pwm_enable(m) == IF disp_lcd_is_used(m) /\ m.lcd.panel.pwm_used THEN pwm_enable(m, m.lcd.panel.pwm_ch) ELSE m
disp_lcd_pwm_disable(m) == IF disp_lcd_is_used(m) /\ m.lcd.panel.pwm_used THEN pwm_disable(m, m.lcd.panel.pwm_ch) ELSE m
disp_lcd_backlight_enable(m) ==
  LET need == [m EXCEPT !.lcd.bl_need = TRUE]
      p == m.lcd.panel
      lit == IF p.bl_en = {} THEN need ELSE disp_sys_gpio_request(disp_sys_power_enable(need, p.bl_power), p.bl_en)
  IN IF disp_lcd_is_used(m) THEN disp_lcd_set_bright(lit, disp_lcd_get_bright(lit)) ELSE need
disp_lcd_backlight_disable(m) ==
  LET p == m.lcd.panel
  IN IF disp_lcd_is_used(m) /\ p.bl_en # {}
       THEN disp_sys_power_disable(disp_sys_gpio_release(m, p.bl_en), p.bl_power) ELSE m

-----------------------------------------------------------------------------
(* Clocks.  The rates go down from the loop: what it can do decides.       *)
clk_tbl == [HV |-> [tcon |-> 6, lcd |-> 1, dsi |-> 1, rate |-> 0], CPU |-> [tcon |-> 12, lcd |-> 1, dsi |-> 1, rate |-> 0],
            LVDS |-> [tcon |-> 7, lcd |-> 1, dsi |-> 1, rate |-> 0], DSI |-> [tcon |-> 4, lcd |-> 1, dsi |-> 4, rate |-> 148500]]
disp_al_lcd_get_clk_info(p) ==
  LET info == IF p.intf \in DOMAIN clk_tbl THEN clk_tbl[p.intf] ELSE [tcon |-> 6, lcd |-> 1, dsi |-> 4, rate |-> 0]
  IN IF p.intf = "DSI" THEN [info EXCEPT !.dsi = dsi_pixel_bits[p.format] \div p.lane] ELSE info
lcd_clk_config(m) ==
  LET p == m.lcd.panel
      info == disp_al_lcd_get_clk_info(p)
      want == p.dclk_freq * 1000 * (IF p.intf = "DSI" THEN info.dsi ELSE info.tcon)
      pll == clk_set_rate(m.clk, "pll_mipi", want * info.lcd)
      tcon == clk_set_rate(pll, "tcon0", clk_get_rate(pll, "pll_mipi") \div info.lcd)
  IN [m EXCEPT !.clk = IF p.intf = "DSI" THEN clk_set_rate(tcon, "mipidsi", info.rate) ELSE tcon]

\* The clocks of the link besides that of the controller.
LinkClocks(p) == IF p.intf = "LVDS" THEN "lvds" ELSE IF p.intf = "DSI" THEN "mipidsi" ELSE "none"
\* The result is [m, ok].
lcd_clk_enable(m) ==
  LET r == clk_prepare_enable(lcd_clk_config(m).clk, "tcon0", m.late)
      x == LinkClocks(m.lcd.panel)
      l == clk_prepare_enable(r.c, x, m.late)
  IN IF ~r.ok \/ x = "none" THEN [m |-> [m EXCEPT !.clk = r.c], ok |-> r.ok]
     ELSE [m |-> [m EXCEPT !.clk = l.c], ok |-> l.ok]
\* Mutant: the link's clock is forgotten.
MutLcdClkDisable(m) == [m EXCEPT !.clk = clk_disable(@, "tcon0")]
lcd_clk_disable(m) ==
  LET x == LinkClocks(m.lcd.panel)
  IN [m EXCEPT !.clk = clk_disable(IF x = "none" THEN @ ELSE clk_disable(@, x), "tcon0")]

-----------------------------------------------------------------------------
(* The controller behind the panel.                                        *)
LcdIrq(m) == IF m.lcd.panel.intf = "DSI" THEN "dsi" ELSE "tcon0"
disp_al_lcd_cfg(m) ==
  LET p == m.lcd.panel
      ext == [gamma |-> ~m.lcd.funs /\ p.gamma_en, cmap |-> FALSE]
      fresh == [p EXCEPT !.fresh = FreshMode(p)]
  IN [m EXCEPT !.tcon[0] = tcon0_cfg_ext(tcon0_cfg(tcon0_set_dclk_div(tcon_init(@), disp_al_lcd_get_clk_info(p).tcon), p), ext),
               !.dsi = IF p.intf = "DSI" THEN dsi_cfg(@, fresh) ELSE @,
               !.lcd.panel = fresh]
disp_al_lcd_enable(m) ==
  LET p == m.lcd.panel t == tcon0_open(m.tcon[0], p)
  IN [m EXCEPT !.tcon[0] = IF p.intf = "LVDS" THEN lvds_open(t, p, 0) ELSE t,
               !.dsi = IF p.intf = "DSI" THEN dsi_open(@, p) ELSE @]
disp_al_lcd_disable(m) ==
  LET p == m.lcd.panel
  IN [m EXCEPT !.tcon[0] = tcon_exit(tcon0_close(IF p.intf = "LVDS" THEN lvds_close(@) ELSE @)),
               !.dsi = IF p.intf = "DSI" THEN dsi_close(@) ELSE @]
disp_al_lcd_io_cfg(m, on) ==
  IF m.lcd.panel.intf # "DSI" THEN m ELSE [m EXCEPT !.dsi = IF on THEN dsi_io_open(@, m.lcd.panel) ELSE dsi_io_close(@)]
disp_al_lcd_query_irq(m) ==
  IF m.lcd.panel.intf = "DSI" THEN dsi_irq_query(m.dsi, "VIDEO_VBLK") ELSE tcon_irq_query(m.tcon[0], "TCON0_VBLK")
LcdIrqClear(m) ==
  IF m.lcd.panel.intf = "DSI" THEN [m EXCEPT !.dsi = dsi_irq_clear(@, "VIDEO_VBLK")]
  ELSE [m EXCEPT !.tcon[0] = tcon_irq_clear(@, "TCON0_VBLK")]

\* In time or late, the frame is written.
disp_lcd_event_proc(m) ==
  IF ~disp_al_lcd_query_irq(m) THEN m
  ELSE IF m.lcd.manager = NoManager THEN LcdIrqClear(m)
  ELSE sync_event_proc(LcdIrqClear(m), m.lcd.manager, FALSE)

-----------------------------------------------------------------------------
(* Supplies and lines of the panel.                                        *)
disp_lcd_power_enable(m) == IF disp_lcd_is_used(m) THEN disp_sys_power_enable(m, m.lcd.panel.power) ELSE m
disp_lcd_power_disable(m) == IF disp_lcd_is_used(m) THEN disp_sys_power_disable(m, m.lcd.panel.power) ELSE m
disp_lcd_pin_cfg(m, on) ==
  IF on THEN disp_al_lcd_io_cfg(disp_sys_power_enable(m, m.lcd.panel.pin_power), TRUE)
  ELSE disp_sys_power_disable(disp_al_lcd_io_cfg(m, FALSE), m.lcd.panel.pin_power)
disp_lcd_gpio_init(m) ==
  disp_sys_gpio_request([disp_sys_power_enable(m, m.lcd.panel.gpio_power) EXCEPT !.lcd.hdl = m.lcd.panel.gpios], m.lcd.panel.gpios)
disp_lcd_gpio_exit(m) ==
  disp_sys_power_disable([disp_sys_gpio_release(m, m.lcd.hdl) EXCEPT !.lcd.hdl = {}], m.lcd.panel.gpio_power)

-----------------------------------------------------------------------------
(* Opening and closing.                                                    *)
disp_lcd_tcon_enable(m) == disp_al_lcd_enable(m)
disp_lcd_tcon_disable(m) == disp_al_lcd_disable(m)

\* Everything up to the controller's configuration; a clock that fails ends it, unnoticed.
disp_lcd_pre_enable(m) ==
  LET s == m.lcd.manager
      on == disp_sys_power_enable(disp_mgr_enable(m, s, m.lcd.panel.x, 0), m.lcd.panel.fix_power)
      irq == disp_sys_enable_irq(disp_sys_register_irq(on, LcdIrq(m)), LcdIrq(m))
      r == lcd_clk_enable(disp_lcd_gpio_init([irq EXCEPT !.lcd.enabling = TRUE, !.lcd.bl_need = FALSE]))
  IN IF s = NoManager \/ m.lcd.enabled THEN m
     ELSE IF r.ok THEN disp_al_lcd_cfg(r.m) ELSE r.m
disp_lcd_post_enable(m) ==
  disp_lcd_set_bright([m EXCEPT !.lcd.enabled = TRUE, !.lcd.enabling = FALSE], disp_lcd_get_bright(m))
\* What is left to do when the close flow has run.
disp_lcd_post_disable(m) ==
  LET off == lcd_clk_disable(disp_lcd_gpio_exit(m))
  IN disp_mgr_disable(disp_sys_power_disable(disp_sys_disable_irq(off, LcdIrq(m)), m.lcd.panel.fix_power), m.lcd.manager)

-----------------------------------------------------------------------------
(* The panel driver (default_panel.c).  Its commands: <<command, first     *)
(* parameter, how many>>.                                                  *)
PanelCommands ==
  <<<<185, 241, 3>>, <<186, 51, 27>>, <<184, 37, 4>>, <<179, 16, 10>>, <<192, 115, 9>>, <<188, 78, 1>>, <<204, 11, 1>>,
    <<180, 128, 1>>, <<178, 37, 3>>, <<227, 0, 14>>, <<198, 1, 5>>, <<193, 116, 12>>, <<181, 7, 2>>, <<182, 44, 2>>,
    <<191, 2, 3>>, <<233, 130, 63>>, <<234, 2, 61>>, <<224, 0, 34>>>>
DSI_DCS_SET_DISPLAY_OFF == 40
SendCommand(d, c) == dsi_dcs_wr(d, c[1], c[2], c[3], TRUE)

LCD_power_on(m) == disp_lcd_pin_cfg(disp_lcd_power_enable(m), TRUE)
LCD_power_off(m) == disp_lcd_power_disable(disp_lcd_pin_cfg(m, FALSE))
\* The commands follow one another; the first may find a program that does not end in time.
LCD_panel_init(m) ==
  [m EXCEPT !.dsi = FoldLeft(SendCommand, dsi_dcs_wr(@, PanelCommands[1][1], PanelCommands[1][2], PanelCommands[1][3], ~m.slow),
                             Tail(PanelCommands))]
LCD_panel_exit(m) == [m EXCEPT !.dsi = dsi_dcs_wr_0para(@, DSI_DCS_SET_DISPLAY_OFF, ~m.slow)]
LCD_bl_open(m) == disp_lcd_backlight_enable(disp_lcd_pwm_enable(m))
LCD_bl_close(m) == disp_lcd_pwm_disable(disp_lcd_backlight_disable(m))

\* <<step, delay in ms>>; a panel without a driver of its name has none.
\* Mutant: the backlight before the picture.
MutOpenFlow == <<<<"LCD_power_on", 30>>, <<"LCD_panel_init", 50>>, <<"LCD_bl_open", 0>>, <<"tcon_enable", 100>>>>
LCD_open_flow == <<<<"LCD_power_on", 30>>, <<"LCD_panel_init", 50>>, <<"tcon_enable", 100>>, <<"LCD_bl_open", 0>>>>
LCD_close_flow == <<"LCD_bl_close", "tcon_disable", "LCD_panel_exit", "LCD_power_off">>
disp_lcd_get_open_flow(m) ==
  IF ~disp_lcd_is_used(m) THEN <<>>
  ELSE <<<<"lcd_pre_enable", 0>>>> \o (IF m.lcd.funs THEN LCD_open_flow ELSE <<>>) \o <<<<"lcd_post_enable", 0>>>>
disp_lcd_set_panel_funs(m, name) == [m EXCEPT !.lcd.funs = m.lcd.panel.driver = name]

-----------------------------------------------------------------------------
\* The device as it is registered.
disp_lcd_init(m) ==
  LET p == lcd_parse_panel_para(m.script.lcd)
      period == IF p.pwm_freq # 0 THEN 1000000000 \div p.pwm_freq ELSE 1000000
      bright == lcd_get_sys_config(p)
      duty == (bright * (period \div 256)) + ((bright * (period % 256)) \div 256)
      set == [m EXCEPT !.lcd = [@ EXCEPT !.panel = IF p.used THEN p ELSE PanelZero, !.bright = IF p.used THEN bright ELSE 0]]
  IN IF ~p.used \/ ~p.pwm_used THEN set
     ELSE pwm_config(pwm_set_polarity(pwm_request([set EXCEPT !.lcd.period = period, !.lcd.duty = duty], p.pwm_ch),
                                      p.pwm_ch, p.pwm_pol), p.pwm_ch, duty, period)

-----------------------------------------------------------------------------
(* Formats: pixel clock in kHz, times each pixel is repeated, size, line   *)
(* and frame with their back porches and syncs, fields, and the lines      *)
(* between the pictures of both eyes.                                      *)
Timing(clk, repeat, x, y, ht, hbp, hsync, vt, vbp, vsync, interlace, space) ==
  [clk |-> clk, repeat |-> repeat, x |-> x, y |-> y, ht |-> ht, hbp |-> hbp, hsync |-> hsync, vt |-> vt, vbp |-> vbp,
   vsync |-> vsync, interlace |-> interlace, space |-> space]
video_timing ==
  [m480I |-> Timing(13500, 1, 720, 480, 858, 57, 62, 525, 15, 3, 1, 0),
   m576I |-> Timing(13500, 1, 720, 576, 864, 69, 63, 625, 19, 3, 1, 0),
   m480P |-> Timing(27000, 0, 720, 480, 858, 60, 62, 525, 30, 6, 0, 0),
   m576P |-> Timing(27000, 0, 720, 576, 864, 68, 64, 625, 39, 5, 0, 0),
   m720P_50 |-> Timing(74250, 0, 1280, 720, 1980, 220, 40, 750, 20, 5, 0, 0),
   m720P_60 |-> Timing(74250, 0, 1280, 720, 1650, 220, 40, 750, 20, 5, 0, 0),
   m1080I_50 |-> Timing(74250, 0, 1920, 1080, 2640, 148, 44, 1125, 15, 5, 1, 0),
   m1080I_60 |-> Timing(74250, 0, 1920, 1080, 2200, 148, 44, 1125, 15, 5, 1, 0),
   m1080P_50 |-> Timing(148500, 0, 1920, 1080, 2640, 148, 44, 1125, 36, 5, 0, 0),
   m1080P_60 |-> Timing(148500, 0, 1920, 1080, 2200, 148, 44, 1125, 36, 5, 0, 0),
   m1080P_24 |-> Timing(74250, 0, 1920, 1080, 2750, 148, 44, 1125, 36, 5, 0, 0),
   m1080P_25 |-> Timing(74250, 0, 1920, 1080, 2640, 148, 44, 1125, 36, 5, 0, 0),
   m1080P_30 |-> Timing(74250, 0, 1920, 1080, 2200, 148, 44, 1125, 36, 5, 0, 0),
   m1080P_24_3D_FP |-> Timing(148500, 0, 1920, 2160, 2750, 148, 44, 1125, 36, 5, 0, 45),
   m720P_50_3D_FP |-> Timing(148500, 0, 1280, 1440, 1980, 220, 40, 750, 20, 5, 0, 30),
   m720P_60_3D_FP |-> Timing(148500, 0, 1280, 1440, 1650, 220, 40, 750, 20, 5, 0, 30),
   m3840_2160P_30 |-> Timing(297000, 0, 3840, 2160, 4400, 296, 88, 2250, 72, 10, 0, 0),
   m3840_2160P_25 |-> Timing(297000, 0, 3840, 2160, 5280, 296, 88, 2250, 72, 10, 0, 0)]
hdmi_mode_tbl == DOMAIN video_timing
NoInfo == [clk |-> 0]

HdmiZero == [manager |-> NoManager, enabled |-> FALSE, mode |-> "m720P_50", func |-> FALSE, info |-> NoInfo, x |-> 0, y |-> 0]
CoreZero == [bopen |-> FALSE, mode |-> "none", state |-> "Idle", vic |-> "none", video_on |-> FALSE, video_enable |-> FALSE]

-----------------------------------------------------------------------------
(* The core.                                                               *)
hdmi_para_init(k) == [k EXCEPT !.vic = "m720P_50"]
hdmi_core_initial(k) == hdmi_para_init(k)

\* No plug is sensed: the script says whether it is there.
main_Hpd_Check(m) == m.script.hdmi.plugged
hdmi_core_hpd_check(k) == k.state = "HPD_Done"
hdmi_core_set_video_mode(k, vic) == [k EXCEPT !.vic = vic]

\* Switching on what is on already switches it off.
hdmi_core_set_video_enable(k, enable) ==
  [k EXCEPT !.video_on = k.state = "HPD_Done" /\ enable /\ ~k.video_on, !.video_enable = enable]

\* The state in which the plug is found falls through to the one that starts over, unless
\* a protected picture is shown.
hdmi_core_loop(m) ==
  LET k == m.core
      out == IF k.state = "Wait_Hpd" THEN k ELSE [k EXCEPT !.state = "Wait_Hpd", !.video_on = FALSE]
      found == IF k.state = "HPD_Done" THEN k
               ELSE LET done == [k EXCEPT !.state = "HPD_Done"]
                    IN IF k.video_enable THEN hdmi_core_set_video_enable(done, TRUE) ELSE done
  IN [m EXCEPT !.core = IF ~main_Hpd_Check(m) THEN out
                        ELSE IF found.video_on /\ m.script.hdmi.hdcp THEN found
                        ELSE [found EXCEPT !.state = "Idle"]]

hdmi_core_get_csc_type(m) == IF m.script.hdmi.cts THEN 0 ELSE 1

-----------------------------------------------------------------------------
(* The functions of the driver.                                            *)
hdmi_enable(m) ==
  LET l == IF hdmi_core_hpd_check(m.core) THEN m ELSE hdmi_core_loop(m)
  IN IF m.core.bopen THEN m
     ELSE [l EXCEPT !.clk = clk_set_rate(@, "hdmi", video_timing[m.core.mode].clk),
                    !.core = [hdmi_core_set_video_enable(@, TRUE) EXCEPT !.bopen = TRUE]]
hdmi_disable(m) ==
  IF m.core.bopen THEN [m EXCEPT !.core = [hdmi_core_set_video_enable(@, FALSE) EXCEPT !.bopen = FALSE]] ELSE m
hdmi_get_HPD_status(m) == hdmi_core_loop(m)
hdmi_set_display_mode(m, mode) == [m EXCEPT !.core = hdmi_core_set_video_mode([@ EXCEPT !.mode = mode], mode)]
hdmi_get_video_timming_info(m) ==
  IF m.core.mode \in DOMAIN video_timing THEN video_timing[m.core.mode] ELSE m.hdmi.info

\* The clocks of the link; a result is [m, ok].
hdmi_clk_enable(m) ==
  LET r == clk_prepare_enable(m.clk, "hdmi", m.late)
      slow == clk_prepare_enable(r.c, "hdmi_slow", m.late)
  IN IF ~r.ok THEN [m |-> [m EXCEPT !.clk = r.c], ok |-> FALSE]
     ELSE IF slow.ok THEN [m |-> [m EXCEPT !.clk = slow.c], ok |-> TRUE]
     ELSE [m |-> [m EXCEPT !.clk = clk_disable(slow.c, "hdmi")], ok |-> FALSE]

\* Without its clocks the driver registers nothing; the lines stay configured.
hdmi_init(m) ==
  LET r == hdmi_clk_enable(disp_sys_gpio_request(m, m.script.hdmi.lines))
  IN IF ~r.ok THEN r.m
     ELSE [disp_sys_power_enable(r.m, m.script.hdmi.power) EXCEPT !.core = hdmi_core_initial(@), !.hdmi.func = TRUE]

-----------------------------------------------------------------------------
(* The device.                                                             *)
disp_al_hdmi_cfg(m, v, cs) ==
  [m EXCEPT !.tcon[1] = tcon1_hdmi_color_remap(tcon1_set_timming(tcon_init(@), v, 1), cs # 0)]
disp_al_hdmi_enable(m) == [m EXCEPT !.tcon[1] = tcon1_open(@)]
disp_al_hdmi_disable(m) == [m EXCEPT !.tcon[1] = tcon_exit(tcon1_close(@))]
disp_al_device_query_irq(m) == tcon_irq_query(m.tcon[1], "TCON1_VBLK")

\* The pixels that are repeated cost clocks too.
hdmi_clk_config(m) == [m EXCEPT !.clk = clk_set_rate(@, "tcon1", m.hdmi.info.clk * (m.hdmi.info.repeat + 1))]

disp_al_device_get_start_delay(m) == tcon_get_start_delay(m.tcon[1], 1)

\* When the beam is too near the picture, or in it, the frame is left as it is.
disp_hdmi_event_proc(m, line) ==
  LET seen == [m EXCEPT !.tcon[1] = tcon_irq_clear(@, "TCON1_VBLK")]
  IN IF ~disp_al_device_query_irq(m) \/ m.hdmi.manager = NoManager THEN seen
     ELSE sync_event_proc(seen, m.hdmi.manager, line > disp_al_device_get_start_delay(m) - 4)

disp_hdmi_set_mode(m, mode) ==
  IF m.hdmi.func /\ mode \in hdmi_mode_tbl THEN [hdmi_set_display_mode(m, mode) EXCEPT !.hdmi.mode = mode] ELSE m
disp_hdmi_get_mode(m) == m.hdmi.mode
disp_hdmi_detect(m) == IF m.hdmi.func THEN hdmi_get_HPD_status(m) ELSE m

\* Enabling, in three steps.  First: the manager, the interrupt and the clock.  When the clock
\* fails, the first two are left on.
CanEnable(m) ==
  ~m.hdmi.enabled /\ m.hdmi.manager # NoManager /\ m.hdmi.func /\ hdmi_get_video_timming_info(m) # NoInfo
EnableClock(m) ==
  LET v == hdmi_get_video_timming_info(m)
      info == [m EXCEPT !.hdmi.info = v, !.hdmi.x = v.x, !.hdmi.y = v.y]
      on == disp_mgr_enable(info, m.hdmi.manager, v.x, hdmi_core_get_csc_type(m))
      irq == hdmi_clk_config(disp_sys_enable_irq(disp_sys_register_irq(on, "tcon1"), "tcon1"))
      r == clk_prepare_enable(irq.clk, "tcon1", m.late)
  IN [m |-> [irq EXCEPT !.clk = r.c], ok |-> r.ok]
\* Then the controller is configured; then it is opened.
EnableCfg(m) == disp_al_hdmi_cfg(m, m.hdmi.info, m.mgr[m.hdmi.manager].cs)
EnableOpen(m) == [hdmi_enable(disp_al_hdmi_enable(m)) EXCEPT !.hdmi.enabled = TRUE]

\* Disabling, in two steps.
CanDisable(m) == m.hdmi.enabled /\ m.hdmi.manager # NoManager /\ m.hdmi.func
DisableOutput(m) == disp_al_hdmi_disable(hdmi_disable([m EXCEPT !.hdmi.enabled = FALSE]))
DisableClock(m) ==
  disp_sys_disable_irq(disp_mgr_disable([m EXCEPT !.clk = clk_disable(@, "tcon1")], m.hdmi.manager), "tcon1")
=============================================================================
