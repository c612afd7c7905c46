---------------------------- MODULE DispManager -----------------------------
(***************************************************************************)
(* One screen of the display driver: the manager with its layers, the      *)
(* picture enhancement and the write back of frames to memory, and the     *)
(* frame interrupt that carries their settings to the hardware.            *)
(*                                                                         *)
(* A call runs as a sequence of steps, todo, between any two of which the  *)
(* frame interrupt may strike.  The interrupt runs to its end.  Locks of   *)
(* the code are empty functions in this build; cfgCnt (shadow protection)  *)
(* is what keeps the interrupt from a half-written setting, but is not     *)
(* used around disp_mgr_update_regs.                                       *)
(***************************************************************************)
EXTENDS DeHal

VARIABLES engine,    \* the registers of the screen and their copies (DeRtmx)
          manager,   \* [enabled, applied, modified, device, cfg, clk, core]
          layers,    \* the layers' configurations, each with its dirty flag
          enhancer,  \* [enabled, applied, cfg, flags]
          captor,    \* [enabled, status, req, wb, regs, writing, done, clk]
          cfgCnt,    \* settings being written: the interrupt leaves the registers alone
          alPriv,    \* disp_al.c: the output of the screen and the type and colours of each output
          shown,     \* [reg, half]: the registers the hardware took over at the last
                     \* frame; history: they were half updated
          todo       \* the steps that the running call still has to take

screenVars == <<engine, manager, layers, enhancer, captor, cfgCnt, alPriv, shown, todo>>

MANAGER_ALL_DIRTY == {"ENABLE", "CK", "BACK_COLOR", "SIZE", "COLOR_RANGE", "COLOR_SPACE", "BLANK"}
NoDevice == [type |-> "none", hwdev |-> 0, width |-> 0, cs |-> "rgb", range |-> "0_255", interlace |-> 0]

\* A call is a sequence of steps; a step has a name and, where it needs one, an argument.
S(name) == <<[op |-> name, arg |-> 0]>>
SA(name, a) == <<[op |-> name, arg |-> a]>>
At(name) == todo # <<>> /\ Head(todo).op = name
Arg == Head(todo).arg
Return == todo' = Tail(todo)
Call(steps) == todo' = steps \o Tail(todo)

-----------------------------------------------------------------------------
(* Shadow protection: disp_display.c.                                      *)
\* Mutant: nothing keeps the interrupt out.
MutShadowProtect(on) == UNCHANGED cfgCnt
bsp_disp_shadow_protect(on) == cfgCnt' = IF on THEN cfgCnt + 1 ELSE cfgCnt - 1

Protect ==
  /\ At("protect") /\ bsp_disp_shadow_protect(TRUE) /\ Return
  /\ UNCHANGED <<engine, manager, layers, enhancer, captor, alPriv, shown>>
Unprotect ==
  /\ At("unprotect") /\ bsp_disp_shadow_protect(FALSE) /\ Return
  /\ UNCHANGED <<engine, manager, layers, enhancer, captor, alPriv, shown>>

-----------------------------------------------------------------------------
(* The manager: disp_manager.c.                                            *)

\* A new configuration makes the whole layer dirty, whatever the comparisons before say.
disp_lyr_save_and_dirty_check(ls, k, c) == [ls EXCEPT ![k] = [c EXCEPT !.flag = TRUE]]
disp_lyr_is_dirty(ls, k) == ls[k].flag
disp_lyr_dirty_clear(ls) == [k \in DOMAIN ls |-> [ls[k] EXCEPT !.flag = FALSE]]
disp_lyr_force_apply(ls) == [k \in DOMAIN ls |-> [ls[k] EXCEPT !.flag = TRUE]]

\* The layers are set in the engine in these stages.
disp_al_layer_apply == S("scalers") \o S("conversion") \o S("overlays") \o S("pipes") \o S("picture")

\* A snapshot of what changed, then the engine's copies under protection.
disp_mgr_apply ==
  /\ At("mgr_apply")
  /\ LET dirty == manager.enabled /\ manager.cfg.flag # {}
         lyr_dirty == \E k \in Layers : disp_lyr_is_dirty(layers, k)
     IN /\ manager' = [manager EXCEPT !.applied = TRUE, !.cfg.flag = IF dirty THEN {} ELSE @]
        /\ Call(S("protect") \o (IF dirty THEN SA("al_manager_apply", manager.cfg) ELSE <<>>)
                \o (IF lyr_dirty THEN disp_al_layer_apply ELSE <<>>) \o S("unprotect") \o S("applied"))
  /\ UNCHANGED <<engine, layers, enhancer, captor, cfgCnt, alPriv, shown>>
\* Mutant: an interrupt before the protection is taken for the one that shows the change.
MutApplied ==
  /\ At("applied") /\ Return
  /\ UNCHANGED <<engine, manager, layers, enhancer, captor, cfgCnt, alPriv, shown>>
Applied ==
  /\ At("applied") /\ manager' = [manager EXCEPT !.applied = TRUE] /\ Return
  /\ UNCHANGED <<engine, layers, enhancer, captor, cfgCnt, alPriv, shown>>

\* An HDMI output is told whether it is given RGB or YUV.
Directed(al, m) ==
  IF "ENABLE" \in m.flag THEN [al EXCEPT !.device = m.hwdev, !.cs[m.hwdev + 1] = m.cs] ELSE al
Remapped(al, m) ==
  IF al.type[al.device + 1] = "HDMI" THEN [al EXCEPT !.remap[al.device + 1] = m.cs # "rgb"] ELSE al
disp_al_manager_apply ==
  /\ At("al_manager_apply")
  /\ alPriv' = Remapped(Directed(alPriv, Arg), Arg)
  /\ engine' = de_al_mgr_apply(engine, Arg) /\ Return
  /\ UNCHANGED <<manager, layers, enhancer, captor, cfgCnt, shown>>

\* The stages of de_al_lyr_apply; width and rc are worked out once, from the same layers.
Width == de_rtmx_get_display_size(engine)
Rects == [ch \in Chns |-> de_calc_overlay_scaler_para(layers, ch, Width)]
ApplyStage(name, result) ==
  /\ At(name) /\ engine' = result /\ Return
  /\ UNCHANGED <<manager, layers, enhancer, captor, cfgCnt, alPriv, shown>>
ApplyScalers == ApplyStage("scalers", SetScalers(engine, layers, Rects, Width))
ApplyConversion == ApplyStage("conversion", SetConversion(engine, layers))
ApplyOverlays == ApplyStage("overlays", SetOverlays(engine, layers, Rects))
ApplyPipes == ApplyStage("pipes", SetPipes(engine, layers, Rects))
ApplyPicture == ApplyStage("picture", SetPicture(engine, layers, Rects))

\* The calls of bsp_disp_shadow_protect around it are commented out: the frame interrupt may
\* strike after any block.  Arg: a block has been copied.
disp_mgr_update_regs ==
  /\ At("mgr_update_regs")
  /\ IF MgrDirty(engine) # <<>>
       THEN /\ engine' = Flush(engine, {Head(MgrDirty(engine))})
            /\ Call(SA("mgr_update_regs", TRUE)) /\ UNCHANGED manager
       ELSE /\ manager' = [manager EXCEPT !.applied = FALSE]
            /\ Return /\ UNCHANGED engine
  /\ UNCHANGED <<layers, enhancer, captor, cfgCnt, alPriv, shown>>

\* Some of the blocks that belong together are in the registers, and others are not.
HalfUpdated == At("mgr_update_regs") /\ Arg = TRUE /\ MgrDirty(engine) # <<>>

\* Everything is dirty; the registers are written at once, without waiting for a frame.
disp_mgr_force_apply ==
  /\ At("mgr_force_apply")
  /\ manager' = [manager EXCEPT !.cfg.flag = MANAGER_ALL_DIRTY]
  /\ layers' = disp_lyr_force_apply(layers)
  /\ Call(S("mgr_apply") \o SA("mgr_update_regs", FALSE) \o S("enhance_force_apply"))
  /\ UNCHANGED <<engine, enhancer, captor, cfgCnt, alPriv, shown>>

\* The clock may fail, and then nothing else happens; core is the clock of the mixer.
Configured(m, dev, range) ==
  [m EXCEPT !.enabled = TRUE,
            !.cfg = [@ EXCEPT !.en = TRUE, !.size = dev.width, !.cs = dev.cs, !.hwdev = dev.hwdev,
                              !.interlace = dev.interlace, !.range = range,
                              !.flag = @ \cup {"ENABLE", "SIZE"}]]
disp_mgr_enable ==
  /\ At("mgr_enable")
  /\ \/ /\ manager' = [Configured(manager, manager.device,
                                  IF manager.modified THEN manager.cfg.range ELSE manager.device.range)
                         EXCEPT !.clk = TRUE, !.core = TRUE, !.cfg.flag = @ \cup {"COLOR_SPACE"}]
        /\ Call(S("mgr_force_apply"))
     \/ UNCHANGED manager /\ Return
  /\ UNCHANGED <<engine, layers, enhancer, captor, cfgCnt, alPriv, shown>>

\* The boot loader has switched the screen on already: no clocks, and the device's range.
disp_mgr_sw_enable ==
  /\ At("mgr_sw_enable")
  /\ manager' = Configured(manager, manager.device, manager.device.range)
  /\ Call(S("mgr_force_apply"))
  /\ UNCHANGED <<engine, layers, enhancer, captor, cfgCnt, alPriv, shown>>

\* Being disabled, the manager leaves its own part of the engine as it was.
disp_mgr_disable ==
  /\ At("mgr_disable")
  /\ manager' = [manager EXCEPT !.enabled = FALSE, !.cfg.flag = @ \cup {"ENABLE"}]
  /\ Call(S("mgr_force_apply") \o S("mgr_clk_disable"))
  /\ UNCHANGED <<engine, layers, enhancer, captor, cfgCnt, alPriv, shown>>
disp_mgr_clk_disable ==
  /\ At("mgr_clk_disable")
  /\ manager' = [manager EXCEPT !.core = FALSE, !.clk = FALSE] /\ Return
  /\ UNCHANGED <<engine, layers, enhancer, captor, cfgCnt, alPriv, shown>>

\* The calls that change a setting of the manager: it becomes dirty, then is applied.
SetManager(m) ==
  /\ manager' = m /\ Call(S("mgr_apply"))
  /\ UNCHANGED <<engine, layers, enhancer, captor, cfgCnt, alPriv, shown>>
disp_mgr_set_back_color ==
  /\ At("set_back_color")
  /\ SetManager([manager EXCEPT !.cfg.back = Arg, !.cfg.flag = @ \cup {"BACK_COLOR"}])
disp_mgr_set_color_key ==
  /\ At("set_color_key")
  /\ SetManager([manager EXCEPT !.cfg.flag = @ \cup {"CK"}])
disp_mgr_set_output_color_range ==
  /\ At("set_output_color_range")
  /\ SetManager([manager EXCEPT !.cfg.range = Arg, !.modified = TRUE, !.cfg.flag = @ \cup {"COLOR_RANGE"}])
disp_mgr_update_color_space ==
  /\ At("update_color_space")
  /\ SetManager([manager EXCEPT !.cfg.cs = manager.device.cs,
                                !.cfg.range = IF manager.modified THEN @ ELSE manager.device.range,
                                !.cfg.flag = @ \cup {"COLOR_SPACE"}])

disp_mgr_blank ==
  /\ At("mgr_blank")
  /\ layers' = disp_lyr_force_apply(layers)
  /\ manager' = [manager EXCEPT !.cfg.blank = Arg, !.cfg.flag = @ \cup {"BLANK"}]
  /\ Call(S("mgr_apply"))
  /\ UNCHANGED <<engine, enhancer, captor, cfgCnt, alPriv, shown>>

\* Arg: the layers to change, each with its configuration.
disp_mgr_set_layer_config ==
  /\ At("set_layer_config")
  /\ layers' = FoldLeft(LAMBDA ls, k : disp_lyr_save_and_dirty_check(ls, k, Arg[k]), layers,
                        SetToSeq(DOMAIN Arg))
  /\ Call(S("mgr_apply") \o S("dirty_clear"))
  /\ UNCHANGED <<engine, manager, enhancer, captor, cfgCnt, alPriv, shown>>
DirtyClear ==
  /\ At("dirty_clear") /\ layers' = disp_lyr_dirty_clear(layers) /\ Return
  /\ UNCHANGED <<engine, manager, enhancer, captor, cfgCnt, alPriv, shown>>

ManagerStep ==
  \/ Protect \/ Unprotect \/ disp_mgr_apply \/ Applied \/ disp_al_manager_apply
  \/ ApplyScalers \/ ApplyConversion \/ ApplyOverlays \/ ApplyPipes \/ ApplyPicture
  \/ disp_mgr_update_regs \/ disp_mgr_force_apply \/ disp_mgr_enable \/ disp_mgr_sw_enable
  \/ disp_mgr_disable \/ disp_mgr_clk_disable \/ disp_mgr_set_back_color \/ disp_mgr_set_color_key
  \/ disp_mgr_set_output_color_range \/ disp_mgr_update_color_space \/ disp_mgr_blank
  \/ disp_mgr_set_layer_config \/ DirtyClear
=============================================================================
