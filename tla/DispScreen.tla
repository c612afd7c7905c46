----------------------------- MODULE DispScreen -----------------------------
(***************************************************************************)
(* The picture enhancement and the write back of a screen, and its frame   *)
(* interrupt.                                                              *)
(***************************************************************************)
EXTENDS DispManager

-----------------------------------------------------------------------------
(* Enhancement: disp_enhance.c.  Its flags stay set once they were.        *)

ENHANCE_ALL_DIRTY == {"ENABLE", "SIZE", "DEMO", "MODE", "SHARP"}

\* What the engine is given: the configuration, and whether it was switched on or off.
EnhanceConfig == [dirty |-> "ENABLE" \in enhancer.flags] @@ enhancer.cfg

disp_enhance_apply ==
  /\ At("enhance_apply")
  /\ IF enhancer.flags # {}
       THEN /\ enhancer' = [enhancer EXCEPT !.applied = TRUE]
            /\ Call(S("protect")
                    \o SA("al_enhance_apply", [cfg |-> EnhanceConfig, mode |-> "MODE" \in enhancer.flags])
                    \o S("unprotect") \o S("enhance_applied"))
       ELSE UNCHANGED enhancer /\ Return
  /\ UNCHANGED <<engine, manager, layers, captor, cfgCnt, alPriv, shown>>
EnhanceApplied ==
  /\ At("enhance_applied") /\ enhancer' = [enhancer EXCEPT !.applied = TRUE] /\ Return
  /\ UNCHANGED <<engine, manager, layers, captor, cfgCnt, alPriv, shown>>

\* A new set of modes also changes the conversion of the device.
disp_al_enhance_apply ==
  /\ At("al_enhance_apply")
  /\ engine' = de_enhance_apply(
                 IF Arg.mode
                   THEN de_dcsc_apply(engine, [de_dcsc_get_config(engine) EXCEPT !.enhance_mode = Arg.cfg.em])
                   ELSE engine,
                 Arg.cfg)
  /\ Return
  /\ UNCHANGED <<manager, layers, enhancer, captor, cfgCnt, alPriv, shown>>

disp_enhance_update_regs ==
  /\ At("enhance_update_regs")
  /\ engine' = de_enhance_update_regs(engine)
  /\ enhancer' = [enhancer EXCEPT !.applied = FALSE] /\ Return
  /\ UNCHANGED <<manager, layers, captor, cfgCnt, alPriv, shown>>

disp_enhance_force_apply ==
  /\ At("enhance_force_apply")
  /\ enhancer' = [enhancer EXCEPT !.flags = ENHANCE_ALL_DIRTY]
  /\ Call(S("enhance_apply") \o S("enhance_update_regs"))
  /\ UNCHANGED <<engine, manager, layers, captor, cfgCnt, alPriv, shown>>

\* The calls that change a setting of the enhancement.
SetEnhance(e) ==
  /\ enhancer' = e /\ Call(S("enhance_apply"))
  /\ UNCHANGED <<engine, manager, layers, captor, cfgCnt, alPriv, shown>>
disp_enhance_enable ==
  /\ At("enhance_enable")
  /\ SetEnhance([enhancer EXCEPT !.enabled = TRUE, !.cfg.enable = TRUE,
                                 !.cfg.mode = IF manager.device = NoDevice THEN @
                                              ELSE IF manager.device.type = "HDMI" THEN 1 ELSE 0,
                                 !.flags = @ \cup {"ENABLE", "SIZE"}])
disp_enhance_disable ==
  /\ At("enhance_disable")
  /\ SetEnhance([enhancer EXCEPT !.enabled = FALSE, !.cfg.enable = FALSE, !.flags = @ \cup {"ENABLE"}])
disp_enhance_demo_enable ==
  /\ At("enhance_demo_enable") /\ SetEnhance([enhancer EXCEPT !.cfg.demo = TRUE, !.flags = @ \cup {"DEMO"}])
disp_enhance_demo_disable ==
  /\ At("enhance_demo_disable") /\ SetEnhance([enhancer EXCEPT !.cfg.demo = FALSE, !.flags = @ \cup {"DEMO"}])
disp_enhance_set_mode ==
  /\ At("enhance_set_mode") /\ SetEnhance([enhancer EXCEPT !.cfg.em = Arg, !.flags = @ \cup {"MODE"}])
\* Arg: enable and the strengths.
disp_enhance_set_para ==
  /\ At("enhance_set_para")
  /\ SetEnhance([enhancer EXCEPT !.enabled = Arg.enable, !.cfg = Arg @@ @,
                                 !.flags = @ \cup {"ENABLE", "SIZE", "SHARP"}])

EnhanceStep ==
  \/ disp_enhance_apply \/ EnhanceApplied \/ disp_al_enhance_apply \/ disp_enhance_update_regs
  \/ disp_enhance_force_apply \/ disp_enhance_enable \/ disp_enhance_disable \/ disp_enhance_demo_enable
  \/ disp_enhance_demo_disable \/ disp_enhance_set_mode \/ disp_enhance_set_para

-----------------------------------------------------------------------------
(* Write back: disp_capture.c and de_wb.c.  A request is [buf, bufw, win,  *)
(* x, crop]: the buffer and its width, the width of the picture in it, and *)
(* the part of the screen it shows (crop 0: all of it).                    *)

SetCaptor(c) ==
  /\ captor' = c /\ Return
  /\ UNCHANGED <<engine, manager, layers, enhancer, cfgCnt, alPriv, shown>>
disp_capture_start ==
  /\ At("capture_start")
  /\ SetCaptor(IF captor.enabled THEN captor ELSE [captor EXCEPT !.enabled = TRUE, !.clk = TRUE])
disp_capture_stop ==
  /\ At("capture_stop")
  /\ SetCaptor(IF captor.enabled THEN [captor EXCEPT !.enabled = FALSE, !.clk = FALSE] ELSE captor)
disp_capture_commit ==
  /\ At("capture_commit")
  /\ SetCaptor(IF manager.enabled /\ captor.enabled THEN [captor EXCEPT !.req = Append(@, Arg)] ELSE captor)
CaptureStep == disp_capture_start \/ disp_capture_stop \/ disp_capture_commit

MININWIDTH == 8
MAXINWIDTH == 4096

\* Out of range, the registers keep what they had.
WB_EBIOS_Set_Para(c) ==
  LET r == c.wb IN
  IF /\ {r.in, r.crop, r.win} \subseteq MININWIDTH .. MAXINWIDTH
     /\ r.x + r.crop <= r.in /\ r.win <= r.bufw /\ r.win <= r.crop
    THEN [c EXCEPT !.regs = [buf |-> r.buf, x |-> r.x, size |-> r.crop - 1, out |-> r.win - 1,
                             coarse |-> r.crop > 2 * r.win, fine |-> r.crop # r.win]]
    ELSE c
WB_EBIOS_Writeback_Enable(c) == [c EXCEPT !.writing = TRUE]
WB_EBIOS_Apply(c, r) == [c EXCEPT !.wb = r]

\* 0 finished, 1 overflow, 2 timeout, 3 nothing; reading clears it.
WB_EBIOS_Get_Status(c) == [c EXCEPT !.status = c.done, !.done = 3]

\* One request is taken in each frame.
disp_capture_sync(c) ==
  LET polled == WB_EBIOS_Get_Status(c)
      r == Head(polled.req)
      w == manager.device.width
      cfg == [in |-> w, crop |-> IF r.crop = 0 THEN w ELSE r.crop] @@ r
  IN IF ~manager.enabled \/ manager.device = NoDevice \/ ~c.enabled THEN c
     ELSE IF polled.req = <<>> THEN polled
     ELSE WB_EBIOS_Writeback_Enable(WB_EBIOS_Set_Para(WB_EBIOS_Apply([polled EXCEPT !.req = Tail(@)], cfg)))

-----------------------------------------------------------------------------
(* The frame interrupt.                                                    *)

\* The hardware takes the registers over when it is told to, which clears the request.
Ready(d) == "dbuff" \in DOMAIN d.reg[<<"glb">>]
Latched(d) == [d EXCEPT !.reg[<<"glb">>] = [f \in DOMAIN @ \ {"dbuff"} |-> @[f]]]

disp_mgr_sync(d) == de_enhance_update_regs(de_al_mgr_update_regs(de_al_mgr_sync(d)))
disp_mgr_tasklet(d) == IF enhancer.enabled THEN de_enhance_tasklet(d) ELSE d

\* Without a setting in progress the registers are written; the tasklet runs either way.
sync_event_proc(timeout, done) ==
  LET wb == IF captor.writing THEN [captor EXCEPT !.writing = FALSE, !.done = done] ELSE captor IN
  /\ shown' = IF Ready(engine) THEN [reg |-> engine.reg, half |-> HalfUpdated] ELSE shown
  /\ IF cfgCnt = 0 /\ ~timeout /\ manager.enabled
       THEN /\ engine' = disp_mgr_tasklet(disp_mgr_sync(Latched(engine)))
            /\ manager' = [manager EXCEPT !.applied = FALSE]
            /\ enhancer' = [enhancer EXCEPT !.applied = FALSE]
            /\ captor' = disp_capture_sync(wb)
       ELSE /\ engine' = IF manager.enabled THEN disp_mgr_tasklet(Latched(engine)) ELSE Latched(engine)
            /\ captor' = wb
            /\ UNCHANGED <<manager, enhancer>>
  /\ UNCHANGED <<layers, cfgCnt, alPriv, todo>>

-----------------------------------------------------------------------------
(* The state after bsp_disp_init: copies zero, nothing switched on.        *)

disp_init_lyr ==
  [k \in Layers |-> [en |-> FALSE, z |-> 0, fmt |-> "rgb", cs |-> 0, crop |-> EmptyRect, win |-> EmptyRect,
                     buf |-> 0, right |-> 0, trd |-> "no", trd_out |-> FALSE, out |-> "TB", premul |-> 0,
                     fc |-> 0, color |-> 0, flag |-> FALSE]]
disp_init_mgr(device) ==
  [enabled |-> FALSE, applied |-> FALSE, modified |-> FALSE, device |-> device, clk |-> FALSE, core |-> FALSE,
   cfg |-> [en |-> FALSE, blank |-> FALSE, back |-> 0, size |-> 0, cs |-> "rgb", range |-> "0_255",
            hwdev |-> 0, interlace |-> 0, flag |-> {}]]
EnhanceZero ==
  [enable |-> FALSE, mode |-> 0, em |-> 0, demo |-> FALSE, sharp |-> NoSharp, contrast |-> NoContrast,
   color |-> NoColor, fancy |-> <<0, 0, 0>>]
disp_init_enhance == [enabled |-> FALSE, applied |-> FALSE, cfg |-> EnhanceZero, flags |-> {}]
disp_init_capture ==
  [enabled |-> FALSE, status |-> 0, req |-> <<>>, wb |-> 0, regs |-> 0, writing |-> FALSE, done |-> 3, clk |-> FALSE]
RegistersZero == [b \in Blocks |-> <<>>]
disp_init_al ==
  de_dcsc_init(de_ccsc_init(de_enhance_init(de_al_init(
    [img |-> RegistersZero, reg |-> RegistersZero, dirty |-> {}, mux |-> 0, blank |-> FALSE,
     dcsc |-> [infmt |-> "rgb", inmod |-> "601", outfmt |-> "rgb", outmod |-> "601", sat |-> 50,
               range |-> "0_255", enhance_mode |-> 0],
     enh |-> [format |-> 255, bypass |-> FALSE, demo |-> FALSE, cfg |-> [dirty |-> FALSE] @@ EnhanceZero,
              hist |-> [c \in VepChns |-> [run |-> 0, two |-> FALSE, en |-> FALSE]],
              ce |-> [c \in VepChns |-> [en |-> FALSE, auto |-> FALSE]]]]))))

ScreenInit(device) ==
  /\ engine = disp_init_al
  /\ manager = disp_init_mgr(device)
  /\ layers = disp_init_lyr
  /\ enhancer = disp_init_enhance
  /\ captor = disp_init_capture
  /\ cfgCnt = 0
  /\ alPriv = [device |-> 0, type |-> <<"none", "none">>, cs |-> <<"rgb", "rgb">>, remap |-> <<FALSE, FALSE>>]
  /\ shown = [reg |-> RegistersZero, half |-> FALSE]
  /\ todo = <<>>

-----------------------------------------------------------------------------
(* Properties.  r stands for the registers of the hardware.                *)

Field(r, b, f, default) == IF f \in DOMAIN r[b] THEN r[b][f] ELSE default
Width1(r, b, f) == Field(r, b, f, 0) + 1

PipeOn(r, p) == Field(r, <<"bld_attr">>, <<"pen">>, [q \in Pipes |-> FALSE])[p]
RouteOf(r, p) == Field(r, <<"bld_ctl">>, <<"route", p>>, 0)
LayerOn(r, ch, l) == Field(r, <<"attr", ch, l>>, "en", FALSE)
Scaled(r, ch) == Field(r, <<IF ch \in ViChns THEN "vsu_glb" ELSE "gsu_glb", ch>>, "en", FALSE)
ScalerIn(r, ch) == Width1(r, <<IF ch \in ViChns THEN "vsu_yscale" ELSE "gsu_scale", ch>>, "size")
ScalerOut(r, ch) == Width1(r, <<IF ch \in ViChns THEN "vsu_out" ELSE "gsu_out", ch>>, "size")
Coarse(r, ch) == Field(r, <<"size", ch>>, "ds", <<0, 0>>)[1] # 0
Overlay(r, ch) == Width1(r, <<"size", ch>>, "ovl")

\* What the pipe is given by its channel is what it blends: the overlay, through the scaler.
PipeWhole(r, p) ==
  LET ch == RouteOf(r, p) rect == r[<<"bld_attr">>][<<"rect", p>>] IN
  /\ \E l \in Lays : LayerOn(r, ch, l)
  /\ rect.w + 1 = IF Scaled(r, ch) THEN ScalerOut(r, ch) ELSE Overlay(r, ch)
  /\ Scaled(r, ch) /\ ~Coarse(r, ch) => ScalerIn(r, ch) = Overlay(r, ch)
  /\ \A l \in Lays : LayerOn(r, ch, l) =>
       LET y == r[<<"attr", ch, l>>].layer IN y.x + y.w <= Overlay(r, ch)

\* What the hardware scans out mixes two settings only if it was taken over in the midst of
\* disp_mgr_update_regs, which a call that forces the settings runs without protection; and
\* then for one frame only.  Otherwise the blender works on the size of the screen, and every
\* pipe in use is fed by a channel whose overlay, scaler and layers were set together, though
\* the layers are set in five stages of which the frame interrupt can separate any two
\* (disp_manager.c: bsp_disp_shadow_protect around disp_al_layer_apply).
NoTornFrame ==
  ~shown.half =>
    LET r == shown.reg IN
    /\ Field(r, <<"glb">>, "size", 0) = Field(r, <<"bld_ctl">>, <<"size">>, 0)
    /\ \A p \in Pipes : PipeOn(r, p) => PipeWhole(r, p)

\* When no call runs and the manager says that nothing waits to be written, the registers
\* hold what was asked for: background, blanking, the layers' buffers, the pipes in the order of
\* the channels (disp_manager.c: applied, cleared in disp_mgr_update_regs).
AppliedIsInRegisters ==
  todo = <<>> /\ manager.enabled /\ ~manager.applied =>
    LET r == engine.reg IN
    /\ Width1(r, <<"glb">>, "size") = manager.device.width
    /\ Field(r, <<"bld_ctl">>, <<"bkcolor">>, 0) = manager.cfg.back
    /\ \A k \in Layers : /\ LayerOn(r, k[1], k[2]) = LayEn(layers, k[1], k[2])
                         /\ layers[k].en => r[<<"attr", k[1], k[2]>>].laddr = layers[k].buf
    /\ \A p \in Pipes : PipeOn(r, p) = (OnPipe(layers, p) # {} /\ ~manager.cfg.blank)
    /\ \A ch \in Chns : ChnUsed(layers, ch) /\ ~manager.cfg.blank =>
         \E p \in Pipes : /\ PipeOn(r, p) /\ RouteOf(r, p) = ch
                           /\ \A q \in Pipes : PipeOn(r, q) /\ q < p => ChnZorder(layers, RouteOf(r, q)) <= ChnZorder(layers, ch)
=============================================================================
