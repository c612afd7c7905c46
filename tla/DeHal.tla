------------------------------- MODULE DeHal --------------------------------
(***************************************************************************)
(* The hardware layer of the display engine: a set of layers, or a change  *)
(* of the manager, becomes the settings of mixer, scalers, colour          *)
(* conversion and enhancement.  data[<<ch, l>>] is the layer l of channel  *)
(* ch: [en, z, fmt, cs, crop, win, buf, right, trd, trd_out, out, premul,  *)
(* fc, color, flag]; flag says that it changed.  A stereo picture takes    *)
(* two layers, the first of them an even one.                              *)
(***************************************************************************)
EXTENDS DeEnhance

Layers == Chns \X Lays

\* The second of two layers that show a stereo picture; the layer it is configured by.
Second(data, ch, l) == l % 2 = 1 /\ data[<<ch, l - 1>>].trd # "no"
Source(data, ch, l) == data[IF Second(data, ch, l) THEN <<ch, l - 1>> ELSE <<ch, l>>]
LayEn(data, ch, l) ==
  IF Second(data, ch, l) THEN data[<<ch, l - 1>>].en /\ data[<<ch, l - 1>>].trd_out ELSE data[<<ch, l>>].en

\* The channels in use, and the one of the layers that is last decides their order.
ChnUsed(data, ch) == \E l \in Lays : data[<<ch, l>>].en
ChnZorder(data, ch) ==
  IF ChnUsed(data, ch) THEN data[<<ch, Max({l \in Lays : data[<<ch, l>>].en})>>].z ELSE 0
ChnIsYuv(data, ch) == \E l \in Lays : data[<<ch, l>>].en /\ data[<<ch, l>>].fmt = "yuv420"

\* Channels in use are given pipes from the lowest zorder up; a zorder of 255 is never
\* chosen and leaves the channel on the pipe of its own number.
PipeOf(data, ch) ==
  LET before(c) == ChnZorder(data, c) < ChnZorder(data, ch) \/ (ChnZorder(data, c) = ChnZorder(data, ch) /\ c < ch)
  IN IF ChnZorder(data, ch) = 255 THEN ch ELSE Cardinality({c \in Chns : ChnUsed(data, c) /\ before(c)})
OnPipe(data, p) == {ch \in Chns : ChnUsed(data, ch) /\ PipeOf(data, ch) = p}
PipeSel(data, p) == IF OnPipe(data, p) = {} THEN 0 ELSE Max(OnPipe(data, p))
PipeUsed(d, data, p) == OnPipe(data, p) # {} /\ ~d.blank

\* A video channel takes its format from any YUV layer, switched off or not.
VideoFormat(data, ch) ==
  IF ch \in ViChns /\ \E l \in Lays : data[<<ch, l>>].fmt = "yuv420" THEN "yuv420" ELSE "rgb"

EmptyRect == [x |-> 0, w |-> 0]

\* Of one channel: the scaler parameters of its layers, where they lie in the overlay, the
\* size of the overlay and the rectangle it fills on the screen.
CropOf(data, ch, l) ==
  LET c == Source(data, ch, l) IN
  IF c.trd # "no" /\ (~Second(data, ch, l) \/ c.trd_out) THEN de_rtmx_get_3d_in_single_size(c.trd, c.crop) ELSE c.crop
FrameOf(data, ch, l, scn) ==
  LET c == Source(data, ch, l) IN IF Second(data, ch, l) THEN de_rtmx_get_3d_out(c.win, scn, c.out) ELSE c.win
LayerPara(data, ch, l, scn) ==
  IF ch \in ViChns
    THEN de_vsu_calc_scaler_para(VideoFormat(data, ch), CropOf(data, ch, l), FrameOf(data, ch, l, scn))
    ELSE de_gsu_calc_scaler_para(CropOf(data, ch, l), FrameOf(data, ch, l, scn))
de_rtmx_calc_chnrect(data, ch, scn) ==
  LET on == SelectSeq(LaySeq, LAMBDA l : LayEn(data, ch, l))
      para == [l \in ToSet(on) |-> LayerPara(data, ch, l, scn)]
      frame == [l \in ToSet(on) |-> FrameOf(data, ch, l, scn)]
      minx == Min({frame[l].x : l \in ToSet(on)})
      layer == [l \in ToSet(on) |-> [x |-> de_calc_ovl_coord(frame[l].x - minx, para[l].y.step, One(ch)),
                                     w |-> para[l].crop.w]]
  IN [en |-> [l \in Lays |-> l \in ToSet(on)],
      para |-> [i \in DOMAIN on |-> para[on[i]]],
      crop |-> [l \in Lays |-> IF l \in ToSet(on) THEN para[l].crop ELSE EmptyRect],
      layer |-> [l \in Lays |-> IF l \in ToSet(on) THEN layer[l] ELSE EmptyRect],
      ovlw |-> FoldLeft(LAMBDA r, l : de_rtmx_extend_rect(r, layer[l]), EmptyRect, on).w,
      bld |-> FoldLeft(LAMBDA r, l : de_rtmx_extend_rect(r, frame[l]), EmptyRect, on)]

\* The scalers of the channels are set; rc[ch] is the channel's overlay and window.
de_set_coarse(ovlw, outw, fmt) == de_rtmx_get_coarse_fac(ovlw, outw, fmt)
SetVideoScaler(d, ch, fmt, r, on, para) ==
  LET f == de_set_coarse(r.ovlw, r.bld.w, fmt) IN
  de_vsu_set_para(de_rtmx_set_coarse_fac(d, ch, f), ch, on, fmt, f.midyw, r.bld.w,
                  de_vsu_recalc_scale_para(f, r.bld.w, para))
ScalerOn(fmt, r) == ~(fmt = "rgb" /\ r.ovlw = r.bld.w)
de_calc_overlay_scaler_para(data, ch, scn) ==
  LET r == de_rtmx_calc_chnrect(data, ch, scn)
      on == ScalerOn(VideoFormat(data, ch), r)
      step == IF ch \in ViChns THEN de_vsu_sel_ovl_scaler_para(r.para).y.step
              ELSE de_gsu_sel_ovl_scaler_para(r.para).step
  IN IF on THEN de_recalc_ovl_bld_for_scale(r, step, One(ch), scn) ELSE r
SetScalers(d, data, rc, scn) ==
  FoldLeft(LAMBDA e, ch :
             LET raw == de_rtmx_calc_chnrect(data, ch, scn)
                 fmt == VideoFormat(data, ch)
             IN IF ch \in ViChns
                  THEN SetVideoScaler(e, ch, fmt, rc[ch], ScalerOn(fmt, raw), de_vsu_sel_ovl_scaler_para(raw.para))
                  ELSE de_gsu_set_para(e, ch, ScalerOn(fmt, raw), rc[ch].ovlw, rc[ch].bld.w,
                                       de_gsu_sel_ovl_scaler_para(raw.para)),
           d, ChnSeq)

\* The phone's memory lies below 4 GiB.
HighByte == 0

\* The overlay of a channel: its size, then the registers of the layers that changed.
Changed(data, ch, l) == Source(data, ch, l).flag
SetLayer(d, data, ch, l, r) ==
  LET c == Source(data, ch, l)
      buf == IF Second(data, ch, l) THEN de_rtmx_get_3d_in(c.trd, c.buf, c.right) ELSE c.buf
      premul == de_rtmx_get_premul_ctl([k \in Lays |-> Source(data, ch, k).premul])
      cfg == [en |-> LayEn(data, ch, l), fc |-> c.fc, fmt |-> c.fmt, premul |-> premul.lay[l], layer |-> r.layer[l]]
      own == data[<<ch, l>>]
  IN de_rtmx_set_lay_haddr(
       de_rtmx_set_lay_fcolor(
         de_rtmx_set_lay_laddr(de_rtmx_set_lay_cfg(d, ch, l, cfg), ch, l, buf, r.crop[l],
                               IF Second(data, ch, l) THEN "second" ELSE c.trd),
         ch, l, own.fc, own.color),
       ch, l, HighByte)
SetOverlays(d, data, rc) ==
  FoldLeft(LAMBDA e, ch :
             LET sized == IF \E l \in Lays : Changed(data, ch, l) THEN de_rtmx_set_overlay_size(e, ch, rc[ch].ovlw) ELSE e
             IN FoldLeft(LAMBDA f, l : IF Changed(data, ch, l) THEN SetLayer(f, data, ch, l, rc[ch]) ELSE f, sized, LaySeq),
           d, ChnSeq)

\* A used video channel is converted to RGB.
SetConversion(d, data) ==
  FoldLeft(LAMBDA e, ch :
             IF ChnUsed(data, ch)
               THEN de_ccsc_apply(e, ch, [infmt |-> IF ChnIsYuv(data, ch) THEN "yuv" ELSE "rgb", inmod |-> "601",
                                          outfmt |-> "rgb", outmod |-> "601", sat |-> 50, range |-> "0_255"])
               ELSE e,
           d, SelectSeq(ChnSeq, LAMBDA ch : ch \in ViChns))

\* Pipes are set every time, changed or not; the blend mode between each two of them.
SetPipes(d, data, rc) ==
  LET on == de_rtmx_set_pf_en(d, [p \in Pipes |-> PipeUsed(d, data, p)])
      set(e, p) ==
        de_rtmx_set_premul(
          de_rtmx_set_route(
            de_rtmx_set_pipe_cfg(e, p, IF PipeUsed(d, data, p) THEN rc[PipeSel(data, p)].bld ELSE EmptyRect),
            p, PipeSel(data, p)),
          p, de_rtmx_get_premul_ctl([k \in Lays |-> Source(data, p, k).premul]).mode)
  IN FoldLeft(LAMBDA e, p : de_rtmx_set_blend_mode(e, p), FoldLeft(set, on, ChnSeq), Front(ChnSeq))

\* The size of the enhanced picture is taken by pipe, not by channel.
SetPicture(d, data, rc) ==
  de_enhance_set_format(
    de_enhance_set_size(d, [p \in Pipes |-> IF PipeUsed(d, data, p) THEN rc[p].bld.w ELSE 0]),
    IF ChnIsYuv(data, 0) THEN 1 ELSE 0)

\* m: the manager's [en, blank, back, size, cs, range, hwdev, interlace, flag], flag the set
\* of what changed.  A change of the colour range or of the colour key sets nothing.
de_al_mgr_apply(d, m) ==
  LET blanked == [d EXCEPT !.blank = m.blank]
      back == IF "BACK_COLOR" \in m.flag THEN de_rtmx_set_background_color(blanked, m.back) ELSE blanked
      size == IF "SIZE" \in m.flag THEN de_rtmx_set_display_size(de_rtmx_set_blend_size(back, m.size), m.size) ELSE back
      enable == IF "ENABLE" \in m.flag
                  THEN de_rtmx_set_outitl(de_rtmx_mux(de_rtmx_set_enable(size, m.en), m.hwdev), m.interlace)
                  ELSE size
  IN IF "COLOR_SPACE" \in m.flag
       THEN de_dcsc_apply(enable, [infmt |-> "rgb", inmod |-> "601", outfmt |-> m.cs,
                                   outmod |-> IF m.size < 1280 THEN "601" ELSE "709", sat |-> 50, range |-> m.range,
                                   enhance_mode |-> de_dcsc_get_config(d).enhance_mode])
       ELSE enable

\* The next frame shows what the registers hold.
de_al_mgr_sync(d) == de_rtmx_set_dbuff_rdy(d)

de_al_mgr_update_regs(d) ==
  de_dcsc_update_regs(de_ccsc_update_regs(de_gsu_update_regs(de_vsu_update_regs(de_rtmx_update_regs(d)))))

\* What it copies, in this order; the next block that it has still to copy.
MgrSeq == RtmxSeq \o VsuSeq \o GsuSeq \o CcscSeq \o DcscSeq
MgrDirty(d) == SelectSeq(MgrSeq, LAMBDA b : b \in d.dirty)

de_al_init(d) == de_gsu_init(de_vsu_init(de_rtmx_init(d)))
=============================================================================
