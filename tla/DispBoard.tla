----------------------------- MODULE DispBoard ------------------------------
(***************************************************************************)
(* The clocks of the display: phase-locked loops on the oscillator, and    *)
(* the gates and dividers of the modules below them.  A tree c gives every *)
(* clock its parent, how often it was enabled (count), the rate the driver *)
(* believes it has, and its registers: on, and set, which is the frequency *)
(* of a loop, the multiplier and divisor of pll_mipi, or the divider of a  *)
(* module.  Rates are in kHz.                                              *)
(***************************************************************************)
EXTENDS Integers, Sequences, FiniteSetsExt, PanelRegs

hosc == 24000
Media == {"pll_video0", "pll_de"}
Modules == {"de", "tcon0", "tcon1", "hdmi", "hdmi_slow", "lvds", "mipidsi"}
Divided == {"de", "tcon1", "hdmi", "mipidsi"}   \* the others have no divider
Clocks == Media \cup Modules \cup {"pll_mipi", "hosc"}

\* The frequencies the loops can be set to (MHz); 297 and 270 have a mode of their own.
factor_pllvideo0_tbl ==
  <<168, 192, 204, 208, 216, 222, 224, 228, 232, 234, 240, 246, 248, 252, 256, 258, 264, 267, 270, 272, 273,
    276, 279, 280, 282, 285, 288, 291, 294, 296, 297, 300, 303, 304, 306, 309, 312, 315, 318, 320, 321, 324,
    327, 328, 330, 333, 336, 339, 342, 345, 348, 351, 354, 357, 360, 366, 369, 372, 375, 378, 381, 384>>
    \o [i \in 1 .. 64 |-> 384 + 6 * i] \o [i \in 1 .. 10 |-> 768 + 24 * i]
factor_pllde_tbl ==
  <<120, 128, 132, 136, 144, 152, 156, 160, 162, 168, 174, 176, 177, 180, 183, 184, 186, 189, 192, 195, 198,
    200, 201, 204, 207, 208, 210, 213, 216, 219, 222, 224, 225, 228, 231, 232, 234, 237, 240, 243, 246, 248,
    249, 252, 255, 256, 258, 261, 264, 267, 270, 272, 273, 276, 279, 280, 282, 285, 288, 291, 294, 296, 297,
    300, 303, 304, 306, 309, 312, 315, 318, 320, 321, 324, 327, 328, 330, 333, 336, 339, 342, 345, 348, 351,
    354, 357, 360, 363, 366, 369, 372, 375, 378, 381, 384>>
    \o [i \in 1 .. 64 |-> 384 + 6 * i] \o [i \in 1 .. 10 |-> 768 + 24 * i]

Distance(a, b) == IF a > b THEN a - b ELSE b - a

\* Binary search ends at the last entry that is not above f, or at the first entry; the next
\* one is taken when it is nearer.
sunxi_clk_freq_search(tbl, f) ==
  LET below == {i \in DOMAIN tbl : tbl[i] <= f}
  IN IF below = {} THEN 1 ELSE CHOOSE i \in below : \A j \in below : j <= i
sunxi_clk_freq_find(tbl, f) ==
  LET i == sunxi_clk_freq_search(tbl, f)
  IN IF i < Len(tbl) /\ Distance(f, tbl[i + 1]) < Distance(f, tbl[i]) THEN i + 1 ELSE i
sunxi_clk_com_ftr_sr(tbl, rate) ==
  LET top == tbl[Len(tbl)] mhz == rate \div 1000
  IN 1000 * tbl[sunxi_clk_freq_find(tbl, IF mhz > top THEN top ELSE mhz)]
get_factors_pll_video0(rate) == sunxi_clk_com_ftr_sr(factor_pllvideo0_tbl, rate)
get_factors_pll_de(rate) == sunxi_clk_com_ftr_sr(factor_pllde_tbl, rate)

\* The first of the best <<m, k, n>>, all three small numbers, that makes parent * k * n / m the rate.
get_factors_pll_mipi(rate, parent) ==
  LET want == (IF rate > 1440000 THEN 1440000 ELSE rate) \div 1000
      new(f) == ((parent \div 1000) * f[2] * f[3]) \div f[1]
      all == (1 .. 16) \X (2 .. 4) \X (1 .. 16)
      best == Min({Distance(new(f), want) : f \in all})
      rank(f) == f[1] * 1000 + f[2] * 100 + f[3]
      good == {f \in all : Distance(new(f), want) = best}
  IN CHOOSE f \in good : \A g \in good : rank(f) <= rank(g)
calc_rate_pll_mipi(parent, f) == (parent * f[2] * f[3]) \div f[1]

\* A divider of one to sixteen; tcon0 and the like have none.
Division(x, div) == LET most == IF x \in Divided THEN 16 ELSE 1
                    IN IF div <= most THEN div ELSE IF (div \div 2) > most THEN most ELSE div \div 2
sunxi_clk_periph_round_rate(x, rate, parent) ==
  LET div == ((parent + (rate \div 2)) - 1) \div rate
  IN IF div = 0 THEN parent ELSE parent \div Division(x, div)
sunxi_clk_periph_set_rate(x, rate, parent, old) ==
  LET div == parent \div rate
  IN IF x \notin Divided THEN old ELSE IF div = 0 THEN 1 ELSE IF div > 16 THEN 16 ELSE div
sunxi_clk_periph_recalc_rate(x, set, parent) == IF x \in Divided THEN parent \div set ELSE parent

\* What the registers of x, set to s, make of the parent's rate.
recalc_rate(x, s, parent) ==
  CASE x \in Media -> s
    [] x = "pll_mipi" -> calc_rate_pll_mipi(parent, s)
    [] OTHER -> sunxi_clk_periph_recalc_rate(x, s, parent)
round_rate(x, rate, parent) ==
  CASE x = "pll_video0" -> get_factors_pll_video0(rate)
    [] x = "pll_de" -> get_factors_pll_de(rate)
    [] x = "pll_mipi" -> calc_rate_pll_mipi(parent, get_factors_pll_mipi(rate, parent))
    [] OTHER -> sunxi_clk_periph_round_rate(x, rate, parent)
set_rate(x, rate, parent, old) ==
  CASE x = "pll_video0" -> get_factors_pll_video0(rate)
    [] x = "pll_de" -> get_factors_pll_de(rate)
    [] x = "pll_mipi" -> get_factors_pll_mipi(rate, parent)
    [] OTHER -> sunxi_clk_periph_set_rate(x, rate, parent, old)

\* A rate equal to the one believed in is not set again; the children keep theirs.
clk_set_rate(c, x, rate) ==
  LET parent == c[c[x].parent].rate
      s == set_rate(x, round_rate(x, rate, parent), parent, c[x].set)
  IN IF rate = c[x].rate THEN c
     ELSE [c EXCEPT ![x].set = s, ![x].rate = recalc_rate(x, s, parent)]
clk_get_rate(c, x) == c[x].rate

-----------------------------------------------------------------------------
(* Enabling, from the parent down; a result is [c, ok].  late: the loops   *)
(* that are locked at the last poll.  Those alone count as not locked: a   *)
(* loop that never locks passes for a good one.                            *)
sunxi_clk_is_lock(x, late) == x \notin late
Switched(c, x, on) == [c EXCEPT ![x].on = on]

\* A loop that is on already is not waited for; pll_mipi is never waited for.
sunxi_clk_fators_enable(c, x, late) == [c |-> Switched(c, x, TRUE), ok |-> c[x].on \/ sunxi_clk_is_lock(x, late)]
clk_enable_pll_mipi(c) == [c |-> Switched(c, "pll_mipi", TRUE), ok |-> TRUE]
sunxi_clk_periph_enable(c, x) == [c |-> Switched(c, x, TRUE), ok |-> TRUE]
clk_ops_enable(c, x, late) ==
  CASE x \in Media -> sunxi_clk_fators_enable(c, x, late)
    [] x = "pll_mipi" -> clk_enable_pll_mipi(c)
    [] OTHER -> sunxi_clk_periph_enable(c, x)
\* The loops on the oscillator are left on.
sunxi_clk_fators_disable(c, x) == c
clk_disable_pll_mipi(c) == Switched(c, "pll_mipi", FALSE)
sunxi_clk_periph_disable(c, x) == Switched(c, x, FALSE)
clk_ops_disable(c, x) ==
  CASE x \in Media -> sunxi_clk_fators_disable(c, x)
    [] x = "pll_mipi" -> clk_disable_pll_mipi(c)
    [] OTHER -> sunxi_clk_periph_disable(c, x)

RECURSIVE clk_disable(_, _), clk_prepare_enable(_, _, _)
clk_disable(c, x) ==
  IF c[x].count = 0 THEN c
  ELSE IF c[x].count > 1 THEN [c EXCEPT ![x].count = @ - 1]
  ELSE clk_disable(clk_ops_disable([c EXCEPT ![x].count = 0], x), c[x].parent)
clk_prepare_enable(c, x, late) ==
  IF x = "hosc" THEN [c |-> c, ok |-> TRUE]
  ELSE IF c[x].count > 0 THEN [c |-> [c EXCEPT ![x].count = @ + 1], ok |-> TRUE]
  ELSE LET up == clk_prepare_enable(c, c[x].parent, late)
           here == clk_ops_enable(up.c, x, late)
       IN IF ~up.ok THEN up
          ELSE IF here.ok THEN [c |-> [here.c EXCEPT ![x].count = @ + 1], ok |-> TRUE]
          ELSE [c |-> clk_disable(here.c, c[x].parent), ok |-> FALSE]

\* A clock in use takes its use to the new parent.
clk_move(c, x, p) ==
  LET new == [IF c[x].count > 0 THEN clk_prepare_enable(c, p, {}).c ELSE c EXCEPT ![x].parent = p]
  IN IF c[x].count > 0 THEN clk_disable(new, c[x].parent) ELSE new
\* The rate is worked out again only when the new parent was refused.
clk_set_parent(c, x, p) == IF c[x].parent = p THEN c ELSE clk_move(c, x, p)

-----------------------------------------------------------------------------
(* The clocks as they are registered: parents and rates from registers     *)
(* that hold their values of reset.  The mixers start below a loop that    *)
(* is not registered (none).                                               *)
ResetParent == [pll_video0 |-> "hosc", pll_de |-> "hosc", pll_mipi |-> "pll_video0", de |-> "none", tcon0 |-> "pll_mipi",
                tcon1 |-> "pll_video0", hdmi |-> "pll_video0", hdmi_slow |-> "hosc", lvds |-> "tcon0",
                mipidsi |-> "pll_video0", hosc |-> "none"]
ResetRate == [pll_video0 |-> 297000, pll_de |-> 297000, pll_mipi |-> 594000, de |-> 0, tcon0 |-> 594000,
              tcon1 |-> 297000, hdmi |-> 297000, hdmi_slow |-> hosc, lvds |-> 594000, mipidsi |-> 297000, hosc |-> hosc]
init_clocks ==
  [x \in Clocks |-> [parent |-> ResetParent[x], rate |-> ResetRate[x], count |-> 0, on |-> FALSE,
                     set |-> CASE x \in Media -> 297000 [] x = "pll_mipi" -> <<6, 2, 6>> [] OTHER -> 1]]

\* The rate that a clock really has.
RECURSIVE TrueRate(_, _)
TrueRate(c, x) == IF x = "hosc" THEN hosc ELSE recalc_rate(x, c[x].set, TrueRate(c, c[x].parent))

-----------------------------------------------------------------------------
(* What the display drivers share: supplies, lines, interrupts, the        *)
(* backlight's pulse generator, the clocks and the managers.  The whole    *)
(* machine is a record m:                                                  *)
(*   script     what the configuration says of the panel and of HDMI       *)
(*   late, slow the loops that lock late; commands that end late           *)
(*   clk, tcon, dsi, pwm                              registers            *)
(*   rails, lines                     supplies and lines that are on       *)
(*   handlers, gic     interrupts that have a handler, and that are let in *)
(*   asserted              an assertion failed (release builds go on)      *)
(*   mgr, lcd, hdmi, core, flow, inited                the drivers' state  *)

CONSTANTS Regulators   \* of each name the script gives a regulator, the supply

NoManager == -1

-----------------------------------------------------------------------------
(* Supplies.  Names that are not in the table are ignored; a supply has no *)
(* count of its users.                                                     *)
find_regulator_str(names) == {Regulators[n] : n \in names \cap DOMAIN Regulators}
axp_set_supply_status_byregulator(m, names, on) ==
  [m EXCEPT !.rails = IF on THEN @ \cup find_regulator_str(names) ELSE @ \ find_regulator_str(names)]
disp_sys_power_enable(m, names) == axp_set_supply_status_byregulator(m, names \ {""}, TRUE)
disp_sys_power_disable(m, names) == axp_set_supply_status_byregulator(m, names, FALSE)

\* A line is driven as the script says, or is an input again (mul_sel 7).
disp_sys_gpio_request(m, L) == [m EXCEPT !.lines = @ \cup L]
disp_sys_gpio_release(m, L) == [m EXCEPT !.lines = @ \ L]

-----------------------------------------------------------------------------
(* Interrupts.  A source takes one handler for ever: registering it again  *)
(* fails an assertion and leaves the first, which serves the same device.  *)
disp_sys_register_irq(m, irq) ==
  [m EXCEPT !.handlers = @ \cup {irq}, !.asserted = @ \/ irq \in m.handlers]
disp_sys_enable_irq(m, irq) == [m EXCEPT !.gic = @ \cup {irq}]
disp_sys_disable_irq(m, irq) == [m EXCEPT !.gic = @ \ {irq}]

-----------------------------------------------------------------------------
(* The pulse generator.                                                    *)
PwmZero == [listed |-> {}, gate |-> FALSE, en |-> FALSE, pol |-> 0, bypass |-> FALSE, prescale |-> 0, active |-> 0, entire |-> 0]

\* The divisors of 24 MHz, with their codes; the first that makes the cycle fit 16 bits is taken.
pre_scal == <<<<15, 1>>, <<0, 120>>, <<1, 180>>, <<2, 240>>, <<3, 360>>, <<4, 480>>, <<8, 12000>>, <<9, 24000>>,
              <<10, 36000>>, <<11, 48000>>, <<12, 72000>>>>
Frequency(period) == IF period < 10667 THEN 93747 ELSE IF period > 1000000000 THEN 1 ELSE 1000000000 \div period
Cycles(period, i) == (24000000 \div Frequency(period)) \div pre_scal[i][2]
PreScaler(period) ==
  LET fits == {i \in DOMAIN pre_scal : Cycles(period, i) <= 65536}
  IN IF fits = {} THEN Len(pre_scal) ELSE CHOOSE i \in fits : \A j \in fits : i <= j

\* Long times are first made coarser, so that the product keeps to 32 bits.
ActiveCycles(duty, period, entire) ==
  LET unit == IF period < 500000 THEN 1 ELSE IF period < 6553500 THEN 100 ELSE 10000
  IN (((duty \div unit) * entire) + ((period \div 2) \div unit)) \div (period \div unit)
sunxi_pwm_config2(w, duty, period) ==
  LET i == PreScaler(period)
      entire == Cycles(period, i)
  IN IF period < 42 THEN [w EXCEPT !.bypass = TRUE]
     ELSE [w EXCEPT !.bypass = FALSE, !.prescale = pre_scal[i][1],
                    !.active = ActiveCycles(duty, period, entire) % 65536, !.entire = (entire - 1) % 65536]
sunxi_pwm_enable2(w) == [w EXCEPT !.gate = TRUE, !.en = TRUE]
sunxi_pwm_disable2(w) == [w EXCEPT !.en = FALSE, !.gate = FALSE]
sunxi_pwm_set_polarity2(w, polarity) == [w EXCEPT !.pol = IF polarity = 0 THEN 1 ELSE 0]

\* A channel can be requested once.
pwm_request(m, ch) == [m EXCEPT !.pwm.listed = @ \cup {ch}]
pwm_config(m, ch, duty, period) ==
  IF ch \in m.pwm.listed THEN [m EXCEPT !.pwm = sunxi_pwm_config2(@, duty, period)] ELSE m
pwm_enable(m, ch) == IF ch \in m.pwm.listed THEN [m EXCEPT !.pwm = sunxi_pwm_enable2(@)] ELSE m
pwm_disable(m, ch) == IF ch \in m.pwm.listed THEN [m EXCEPT !.pwm = sunxi_pwm_disable2(@)] ELSE m
pwm_set_polarity(m, ch, polarity) ==
  IF ch \in m.pwm.listed THEN [m EXCEPT !.pwm = sunxi_pwm_set_polarity2(@, polarity)] ELSE m

-----------------------------------------------------------------------------
(* Managers.  A manager takes the size and the colours of its device; what *)
(* it was told is dirty until a frame interrupt writes it.  When its clock *)
(* does not start it stays off, and nobody looks at the result (failed).   *)
MgrZero == [enabled |-> FALSE, failed |-> FALSE, device |-> "none", dirty |-> FALSE, size |-> 0, cs |-> 0, layer |-> <<>>]

disp_mgr_enable(m, s, size, cs) ==
  LET r == clk_prepare_enable(m.clk, "de", m.late)
      g == m.mgr[s]
  IN [m EXCEPT !.clk = r.c,
               !.mgr[s] = IF r.ok THEN [g EXCEPT !.enabled = TRUE, !.dirty = TRUE, !.size = size, !.cs = cs]
                          ELSE [g EXCEPT !.failed = TRUE]]
disp_mgr_disable(m, s) == [m EXCEPT !.mgr[s].enabled = FALSE, !.clk = clk_disable(@, "de")]
disp_mgr_set_layer_config(m, s, layer) == [m EXCEPT !.mgr[s].layer = layer, !.mgr[s].dirty = TRUE]
disp_mgr_sync(m, s) == IF m.mgr[s].enabled THEN [m EXCEPT !.mgr[s].dirty = FALSE] ELSE m

\* Nothing is written in a frame whose interrupt came too late.
disp_sync_all(m, s) == disp_mgr_sync(m, s)
\* Mutant: the test is swapped.
MutSyncEventProc(m, s, timeout) == IF timeout THEN disp_sync_all(m, s) ELSE m
sync_event_proc(m, s, timeout) == IF timeout THEN m ELSE disp_sync_all(m, s)

\* A device and its manager know each other.
disp_device_set_manager(m, dev, s) ==
  [IF dev = "LCD" THEN [m EXCEPT !.lcd.manager = s] ELSE [m EXCEPT !.hdmi.manager = s] EXCEPT !.mgr[s].device = dev]
disp_device_unset_manager(m, dev) ==
  LET s == IF dev = "LCD" THEN m.lcd.manager ELSE m.hdmi.manager
      off == IF s = NoManager THEN m ELSE [m EXCEPT !.mgr[s].device = "none"]
  IN IF dev = "LCD" THEN [off EXCEPT !.lcd.manager = NoManager] ELSE [off EXCEPT !.hdmi.manager = NoManager]
=============================================================================
