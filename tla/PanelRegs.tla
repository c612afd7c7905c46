----------------------------- MODULE PanelRegs ------------------------------
(***************************************************************************)
(* The timing controllers: TCON 0 drives the panel, TCON 1 the HDMI        *)
(* output.  A controller is a record t of its registers; the settings that *)
(* no other register depends on are kept by name.  A panel is a record of  *)
(* its interface (intf), its timings and its fresh mode, which is written  *)
(* when the controller is configured: 1 when every frame is triggered.     *)
(***************************************************************************)
EXTENDS Integers, Sequences, FiniteSets, SequencesExt

\* All registers zero.
TconZero ==
  [en |-> FALSE, en0 |-> FALSE, en1 |-> FALSE, dclk |-> FALSE, irq |-> {}, flag |-> {},
   delay0 |-> 0, delay1 |-> 0, hdmi_src |-> 0]

(* Interrupts.  Every cause has its enable and its flag.                   *)
tcon_irq_enable(t, id) == [t EXCEPT !.irq = @ \cup {id}]
tcon_irq_disable(t, id) == [t EXCEPT !.irq = @ \ {id}]
tcon_irq_query(t, id) == id \in t.irq \cap t.flag
tcon_irq_clear(t, id) == IF tcon_irq_query(t, id) THEN [t EXCEPT !.flag = @ \ {id}] ELSE t
tcon_get_start_delay(t, index) == IF index = 0 THEN t.delay0 ELSE t.delay1

tcon_init(t) == [t EXCEPT !.en0 = FALSE, !.en1 = FALSE, !.irq = {}, !.flag = {}, !.en = TRUE]
tcon_exit(t) == [t EXCEPT !.en = FALSE]

-----------------------------------------------------------------------------
(* TCON 0.                                                                 *)
HasDclk(panel) == panel.intf \in {"HV", "LVDS", "EXT_DSI"}
Triggered(panel) == panel.intf = "CPU" \/ (panel.intf = "DSI" /\ panel.dsi_if = "command")

\* A DSI panel in video mode has no interrupt here: the DSI controller has one.
tcon0_open(t, panel) ==
  LET c == [t EXCEPT !.flag = {}] IN
  IF HasDclk(panel) THEN tcon_irq_enable([c EXCEPT !.dclk = TRUE, !.en0 = TRUE], "TCON0_VBLK")
  ELSE IF Triggered(panel) THEN tcon_irq_enable([c EXCEPT !.en0 = TRUE], "TCON0_CNTR")
  ELSE IF panel.intf = "DSI" THEN [c EXCEPT !.dclk = TRUE, !.en0 = TRUE]
  ELSE c
tcon0_close(t) ==
  [t EXCEPT !.irq = @ \ {"TCON0_CNTR", "TCON0_VBLK", "TCON0_TRIF"}, !.en0 = FALSE, !.dclk = FALSE]

Less1(n) == IF n = 0 THEN 0 ELSE n - 1
Less1Double(n) == IF n = 0 THEN 0 ELSE 2 * n - 1
Between(n, lo, hi) == IF n < lo THEN lo ELSE IF n > hi THEN hi ELSE n

\* CCIR656 has two cycles a pixel and fields of a fixed number of lines.
tcon0_cfg_mode_auto(t, p) ==
  LET ccir == p.hv_if = "CCIR656_2CYC"
      lines == IF p.fdly = "2LINE" THEN 525 ELSE 625
      dly == IF ccir /\ p.interlace THEN (p.vt \div 2) - (p.y \div 2) - 10 ELSE p.vt - p.y - 10
  IN [time0 |-> [x |-> p.x - 1, y |-> IF ccir /\ p.interlace THEN (p.y \div 2) - 1 ELSE p.y - 1,
                 ht |-> IF ccir THEN Less1Double(p.ht) ELSE p.ht - 1,
                 hbp |-> IF ccir THEN Less1Double(p.hbp) ELSE Less1(p.hbp),
                 vt |-> IF ~ccir THEN p.vt * 2 ELSE IF p.interlace THEN lines ELSE 2 * lines,
                 vbp |-> Less1(p.vbp), hspw |-> IF ccir THEN Less1Double(p.hspw) ELSE Less1(p.hspw),
                 vspw |-> Less1(p.vspw)],
      delay0 |-> Between(dly, 10, 31)] @@ t

\* Frames are pushed to the panel in blocks of a line; the controller is switched on at once.
\* Command panels ask for a frame by their TE line or by a counter of m * n cycles.
dsi_pixel_bits == [RGB888 |-> 24, RGB666 |-> 24, RGB666P |-> 18, RGB565 |-> 16]
tcon_div == 4
TriMode(p) ==
  LET te == IF p.intf = "CPU" THEN p.cpu_te ELSE p.dsi_te
      cycles == (p.ht * p.vt) \div 4
      ms == {m \in 1 .. 255 : (cycles \div m) < 65535}
  IN IF p.fresh = 0 THEN <<0>>
     ELSE IF te = 2 THEN <<3>> ELSE IF te = 1 THEN <<2>>
     ELSE IF ms = {} THEN <<0>>
     ELSE LET m == CHOOSE m \in ms : \A k \in ms : m <= k IN <<1, m - 1, (cycles \div m) - 1>>
tcon0_cfg_mode_tri(t, p) ==
  [time0 |-> [x |-> p.x - 1, y |-> p.y - 1],
   block |-> [size |-> p.x - 1, num |-> p.y - 1,
              space |-> IF Triggered(p) THEN p.ht - p.x - 1
                        ELSE ((p.ht * dsi_pixel_bits[p.format]) \div (tcon_div * p.lane)) - p.x - 40,
              start |-> IF Triggered(p) THEN p.x - 1 ELSE 10,
              delay |-> ((((p.vt - p.y - 11) * p.ht * 149) \div p.dclk_freq) \div 8)],
   tri |-> TriMode(p), en0 |-> TRUE, en |-> TRUE] @@ t

\* The fresh mode that the configuration writes back to the panel's description.
FreshMode(p) == IF Triggered(p) THEN 1 ELSE 0

tcon0_frm(t, mode) == [frm |-> mode] @@ t
tcon_gamma(t, en) == [gamma |-> en] @@ t
tcon_cmap(t, en) == [cmap |-> en] @@ t
tcon0_cfg_ext(t, ext) == tcon_cmap(tcon_gamma(t, ext.gamma), ext.cmap)
tcon0_set_dclk_div(t, d) == [div |-> d] @@ t

tcon0_cfg(t, panel) ==
  LET p == [panel EXCEPT !.fresh = FreshMode(panel)]
      te == IF p.intf = "CPU" THEN p.cpu_te ELSE p.dsi_te
      mode == CASE p.intf \in {"HV", "EXT_DSI"} -> tcon0_cfg_mode_auto([if0 |-> "HV", hv |-> p.hv_if] @@ t, p)
                [] p.intf = "LVDS" -> tcon0_cfg_mode_auto([if0 |-> "HV", hv |-> "HV", link |-> p.lvds_if] @@ t, p)
                [] p.intf \in {"CPU", "DSI"} -> tcon0_cfg_mode_tri([if0 |-> "CPU"] @@ t, p)
                [] OTHER -> t
  IN [safe |-> p.dclk_freq * 15, io0 |-> p.fresh = 1 /\ te # 0] @@ tcon0_frm(mode, p.frm)

\* LVDS transmitters, one or two.
lvds_open(t, panel, sel) ==
  [lvds |-> [en |-> TRUE, ana |-> IF panel.lvds_if = "dual" THEN {0, 1} ELSE {sel}]] @@ t
lvds_close(t) == [lvds |-> [en |-> FALSE, ana |-> {}]] @@ t

-----------------------------------------------------------------------------
(* TCON 1.  Closing it masks the interrupt of the other part: its own      *)
(* stays enabled.                                                          *)
tcon1_open(t) == tcon_irq_enable([t EXCEPT !.en1 = TRUE], "TCON1_VBLK")
tcon1_close(t) == tcon_irq_disable([t EXCEPT !.en1 = FALSE], "TCON0_VBLK")

\* v: a mode [x, y, ht, hbp, hsync, vt, vbp, vsync, interlace, space].
tcon1_cfg(t, v) ==
  LET rows == v.y \div (v.interlace + 1)
      dly == ((v.vt - v.y) \div (v.interlace + 1)) - 5
  IN [time1 |-> [x |-> v.x - 1, y |-> rows - 1, yo |-> rows + v.space - 1, ht |-> v.ht - 1,
                 hbp |-> v.hsync + v.hbp - 1, vt |-> v.vt * (2 - v.interlace) * (IF v.space # 0 THEN 2 ELSE 1),
                 vbp |-> v.vsync + v.vbp - 1, hspw |-> v.hsync - 1, vspw |-> v.vsync - 1,
                 interlace |-> v.interlace, fill |-> v.space # 0],
      delay1 |-> IF dly < 0 \/ dly > 31 THEN 31 ELSE dly] @@ t
hmdi_src_sel(t, sel) == [t EXCEPT !.hdmi_src = sel]
tcon1_set_timming(t, v, sel) == hmdi_src_sel(tcon1_cfg(t, v), sel)
\* The HDMI output takes its colours in another order.
tcon1_hdmi_color_remap(t, on) == [ceu |-> on] @@ t

-----------------------------------------------------------------------------
(* The DSI controller and its physical layer.  It works by an instruction  *)
(* program: prog is the program that was started last, busy (inst_st) says *)
(* that it still runs, and loop that pixels are sent until the program is  *)
(* told to leave its loop.  A packet has a header of three bytes with      *)
(* their error-correcting code and, when it is long, data with a checksum. *)

DsiZero ==
  [en |-> FALSE, irq |-> {}, flag |-> {}, prog |-> "none", busy |-> FALSE, loop |-> FALSE, leave |-> FALSE, lp11_cen |-> FALSE,
   tx |-> <<>>, tx_size |-> 0, io |-> 0, dphy |-> 0, sent |-> {}, forced |-> FALSE]

dsi_irq_enable(d, id) == [d EXCEPT !.irq = @ \cup {id}]
dsi_irq_disable(d, id) == [d EXCEPT !.irq = @ \ {id}]
dsi_irq_query(d, id) == id \in d.irq \cap d.flag
\* Writing a one clears the flag.
dsi_irq_clear(d, id) == IF dsi_irq_query(d, id) THEN [d EXCEPT !.flag = @ \ {id}] ELSE d

-----------------------------------------------------------------------------
(* Programs: from LP11, the instructions in the order they are jumped to.  *)
JumpTable ==
  [TBA |-> <<"TBA">>, HSTX |-> <<"HSC", "NOP", "HSD", "DLY", "NOP">>, LPTX |-> <<"LPDT">>,
   LPRX |-> <<"LPDT", "DLY", "TBA">>, HSC |-> <<"HSC">>, HSD |-> <<"NOP", "HSD", "DLY", "NOP">>, END |-> <<>>]
Loops(prog) == Len(JumpTable[prog]) > 0 /\ Last(JumpTable[prog]) = "NOP"
dsi_start(d, func) ==
  [d EXCEPT !.prog = func, !.busy = TRUE, !.loop = Loops(func), !.lp11_cen = IF func = "HSC" THEN FALSE ELSE @]

\* The hardware ends a program.
DsiDone(d) == [d EXCEPT !.busy = FALSE, !.loop = FALSE]

dsi_open(d, panel) ==
  IF panel.fresh = 0 THEN dsi_start(dsi_irq_enable(d, "VIDEO_VBLK"), "HSD") ELSE d
dsi_close(d) == [dsi_irq_disable(d, "VIDEO_VBLK") EXCEPT !.leave = TRUE]

-----------------------------------------------------------------------------
(* Packets.  A byte is the set of its one bits.                            *)
Bits(n) == {i \in 0 .. 7 : (n \div 2 ^ i) % 2 = 1}
Shifted(S, k) == {i + k : i \in S}
Odd(S) == Cardinality(S) % 2 = 1

\* Bit i of the code is the parity of these bits of the header.
EccBits ==
  <<{0, 1, 2, 4, 5, 7, 10, 11, 13, 16, 20, 21, 22, 23},
    {0, 1, 3, 4, 6, 8, 10, 12, 14, 17, 20, 21, 22, 23},
    {0, 2, 3, 5, 6, 9, 11, 12, 15, 18, 20, 21, 22},
    {1, 2, 3, 7, 8, 9, 13, 14, 15, 19, 20, 21, 23},
    {4, 5, 6, 7, 8, 9, 16, 17, 18, 19, 20, 22, 23},
    {10, 11, 12, 13, 14, 15, 16, 17, 18, 19, 21, 22, 23}>>
dsi_ecc_pro(header) == {i \in 0 .. 5 : Odd(header \cap EccBits[i + 1])}
Header(b0, b1, b2) == Bits(b0) \cup Shifted(Bits(b1), 8) \cup Shifted(Bits(b2), 16)

DSI_DT_DCS_WR_P0 == 5
DSI_DT_DCS_WR_P1 == 21
DSI_DT_DCS_LONG_WR == 57

\* A command with n parameters (first: the first of them), of the types ty = <<none, one, more>>.
Packet(d, ty, cmd, first, n) ==
  LET h == IF n = 0 THEN Header(ty[1], cmd, 0)
           ELSE IF n = 1 THEN Header(ty[2], cmd, first)
           ELSE Header(ty[3], (n + 1) % 256, (n + 1) \div 256)
  IN dsi_start([d EXCEPT !.tx = <<h, dsi_ecc_pro(h)>>, !.tx_size = IF n > 1 THEN 4 + 1 + n + 2 - 1 ELSE 4 - 1,
                         !.sent = @ \cup {cmd}], "LPTX")

\* A program that does not end within the polls is cut off; done: it does end.
dsi_dcs_wr(d, cmd, first, n, done) ==
  LET idle == IF d.busy /\ ~done THEN [d EXCEPT !.busy = FALSE, !.loop = FALSE, !.forced = TRUE] ELSE DsiDone(d)
  IN Packet(idle, <<DSI_DT_DCS_WR_P0, DSI_DT_DCS_WR_P1, DSI_DT_DCS_LONG_WR>>, cmd, first, n)
dsi_dcs_wr_0para(d, cmd, done) == dsi_dcs_wr(d, cmd, 0, 0, done)

-----------------------------------------------------------------------------
(* Configuration.                                                          *)
dsi_lane_den == <<1, 3, 7, 15>>
Smaller(a, b) == IF a < b THEN a ELSE b

\* Burst mode works out when the pixels of a line are asked for; the other video mode, how early.
Burst(p) ==
  LET bytes(n) == (n * dsi_pixel_bits[p.format]) \div (8 * p.lane)
      line == bytes(p.ht)
      edge1 == Smaller(40 + bytes(p.x + p.hbp + 20), line)
      sum == edge1 + (((p.x + 40) * tcon_div) \div 8)
  IN [line |-> line, edge0 |-> IF sum > line THEN sum - line ELSE 1, edge1 |-> edge1, fill |-> p.lane = 4]
Drq(p) ==
  IF p.ht - p.x - p.hbp < 21 THEN 0 ELSE ((p.ht - p.x - p.hbp - 20) * dsi_pixel_bits[p.format]) \div 32
VideoDelay(p) ==
  LET n == p.y + p.vbp + 1
      m == IF n > p.vt THEN n - p.vt ELSE n
  IN IF m = 0 THEN 1 ELSE m
dsi_basic_cfg(d, p) ==
  LET mode == CASE p.dsi_if = "command" -> [mode |-> 0, leave |-> TRUE, jumps |-> p.y, loop_n1 |-> 0]
                [] p.dsi_if = "video" -> [mode |-> 1, leave |-> FALSE, jumps |-> 1, loop_n1 |-> 49,
                                          delay |-> VideoDelay(p), drq |-> Drq(p)]
                [] p.dsi_if = "burst" -> [mode |-> 1, leave |-> FALSE, jumps |-> 1, delay |-> VideoDelay(p),
                                          loop_n1 |-> (((p.ht - p.x) * 150) \div (p.dclk_freq * 8)) - 50,
                                          burst |-> Burst(p)]
  IN [lp11_cen |-> TRUE, lanes |-> dsi_lane_den[p.lane], en |-> TRUE] @@ mode @@ d

\* The blanks between the pixels of a line, in bytes.
Blanks(p) ==
  LET bytes(n) == (n * dsi_pixel_bits[p.format]) \div 8
      act == bytes(p.x)
      hbp == bytes(p.hbp - p.hspw) - 6
      blk == bytes(p.ht - p.hspw) - 10
      rest == (bytes(p.ht) * p.vt) - (blk + 6)
  IN IF p.dsi_if = "burst" THEN [hsa |-> 0, hbp |-> 0, hfp |-> 0, hblk |-> act, vblk |-> 0]
     ELSE [hsa |-> bytes(p.hspw) - 10, hbp |-> hbp, hfp |-> blk - (act + 6) - (hbp + 6), hblk |-> blk,
           vblk |-> IF p.lane = 4 THEN 4 - (rest % 4) ELSE 0]
dsi_packet_cfg(d, p) ==
  LET wc == (p.x * dsi_pixel_bits[p.format]) \div 8 IN
  IF p.dsi_if = "command" THEN [wc |-> wc + 1] @@ d
  ELSE [wc |-> wc, blanks |-> Blanks(p),
        size |-> [vsa |-> p.vspw, vbp |-> p.vbp - p.vspw, vact |-> p.y, vt |-> p.vt]] @@ d

\* The physical layer, and its supplies and drivers for the lanes in use.
dsi_dphy_cfg(d, p) == [d EXCEPT !.dphy = p.lane]
dsi_io_open(d, p) == [d EXCEPT !.io = dsi_lane_den[p.lane]]
dsi_io_close(d) == [d EXCEPT !.io = 0]
dsi_cfg(d, p) == dsi_dphy_cfg(dsi_packet_cfg(dsi_basic_cfg(d, p), p), p)
=============================================================================
