------------------------------- MODULE DeRtmx -------------------------------
(***************************************************************************)
(* The register blocks of one display engine screen.  Every driver of the  *)
(* engine (mixer, scalers, colour conversion, enhancement) writes a copy   *)
(* of its registers in memory and marks the block it wrote dirty; the      *)
(* update_regs functions copy the dirty blocks to the hardware.            *)
(*                                                                         *)
(* A block is a tuple: its name, then its channel and layer where it has   *)
(* one.  Its content is a function from field names to values.             *)
(***************************************************************************)
EXTENDS Integers, Sequences, FiniteSets, SequencesExt, FiniteSetsExt

CONSTANTS Chns,     \* the channels of the screen, 0 .. n
          ViChns,   \* those that can show video
          VepChns,  \* those with the picture enhancement
          Lays      \* the layers of a channel, 0 .. m

ASSUME ChannelAssumption ==
  /\ Chns = 0 .. Cardinality(Chns) - 1
  /\ Lays = 0 .. Cardinality(Lays) - 1
  /\ VepChns \subseteq ViChns /\ ViChns \subseteq Chns

de_feat_get_num_chns == Cardinality(Chns)
de_feat_get_num_vi_chns == Cardinality(ViChns)

\* The channels in the order of the driver's loops, and the blender's pipes.
ChnSeq == [i \in 1 .. de_feat_get_num_chns |-> i - 1]
LaySeq == [i \in 1 .. Cardinality(Lays) |-> i - 1]
Pipes == Chns

\* de_rtmx.c, de_vsu.c, de_gsu.c, de_ccsc.c, de_dcsc.c, de_fce.c ...: the static block tables.
RtmxBlocks ==
  ({"attr"} \X Chns \X Lays) \cup ({"haddr", "size"} \X Chns) \cup ({"fc"} \X ViChns)
    \cup {<<"glb">>, <<"bld_attr">>, <<"bld_ctl">>, <<"bld_out">>}
VsuBlocks == {"vsu_glb", "vsu_out", "vsu_yscale", "vsu_cscale", "vsu_coeff"} \X ViChns
GsuBlocks == {"gsu_glb", "gsu_out", "gsu_scale", "gsu_coeff"} \X (Chns \ ViChns)
CcscBlocks == ({"csc"} \X ViChns) \cup ({"icsc"} \X VepChns)
DcscBlocks == {<<"dcsc_enable">>, <<"dcsc_coeff">>}
EnhanceBlocks ==
  {"fce_para", "fce_celut", "peak", "peak_gain", "lti", "ase", "fcc"} \X VepChns
Blocks == RtmxBlocks \cup VsuBlocks \cup GsuBlocks \cup CcscBlocks \cup DcscBlocks \cup EnhanceBlocks

\* The blocks in the order in which the update_regs functions copy them.
OfChannels(S, names) ==
  FlattenSeq([i \in 1 .. Cardinality(S) |-> [j \in DOMAIN names |-> <<names[j], SetToSortSeq(S, <)[i]>>]])
RtmxSeq ==
  <<<<"glb">>>>
  \o FlattenSeq([i \in DOMAIN ChnSeq |->
       [j \in DOMAIN LaySeq |-> <<"attr", ChnSeq[i], LaySeq[j]>>]
         \o OfChannels({ChnSeq[i]}, IF ChnSeq[i] \in ViChns THEN <<"fc", "haddr", "size">> ELSE <<"haddr", "size">>)])
  \o <<<<"bld_attr">>, <<"bld_ctl">>, <<"bld_out">>>>
VsuSeq == OfChannels(ViChns, <<"vsu_glb", "vsu_out", "vsu_yscale", "vsu_cscale", "vsu_coeff">>)
GsuSeq == OfChannels(Chns \ ViChns, <<"gsu_glb", "gsu_out", "gsu_scale", "gsu_coeff">>)
CcscSeq == OfChannels(VepChns, <<"csc", "icsc">>) \o OfChannels(ViChns \ VepChns, <<"csc">>)
DcscSeq == <<<<"dcsc_enable">>, <<"dcsc_coeff">>>>

\* Fields f of block b are written in memory; Poke forgets the dirty mark, Put sets it.
Poke(d, b, f) == [d EXCEPT !.img[b] = f @@ @]
Put(d, b, f) == [d EXCEPT !.img[b] = f @@ @, !.dirty = @ \cup {b}]

\* The dirty blocks of B are copied to the hardware.
Flush(d, B) ==
  [d EXCEPT !.reg = [b \in Blocks |-> IF b \in B \cap d.dirty THEN d.img[b] ELSE @[b]],
            !.dirty = @ \ B]

-----------------------------------------------------------------------------
(* The mixer: overlays of the channels, blender and global control.        *)
(* Geometry is kept in one dimension (x and width); the code does the same *)
(* computation for y and height.  A rectangle is [x |-> , w |-> ].         *)

de_rtmx_update_regs(d) == Flush(d, RtmxBlocks)

de_rtmx_force_dirty(d) == [d EXCEPT !.dirty = @ \cup RtmxBlocks]

\* The copies start as zero and dirty.
de_rtmx_init(d) == [d EXCEPT !.img = [b \in RtmxBlocks |-> <<>>] @@ @, !.dirty = @ \cup RtmxBlocks]

\* A size register holds the size minus one, and zero for an empty one.
SizeReg(w) == IF w = 0 THEN 0 ELSE w - 1

de_rtmx_set_display_size(d, w) == Put(d, <<"glb">>, [size |-> SizeReg(w)])
de_rtmx_get_display_size(d) ==
  IF "size" \in DOMAIN d.img[<<"glb">>] THEN d.img[<<"glb">>].size + 1 ELSE 1

\* Tells the hardware to take over the double-buffered registers at the next frame.
de_rtmx_set_dbuff_rdy(d) == Put(d, <<"glb">>, [dbuff |-> 1])

\* Only switching on marks anything dirty: all the blocks of the mixer.
de_rtmx_set_enable(d, en) ==
  LET p == Poke(d, <<"glb">>, [rt_en |-> en]) IN IF en THEN de_rtmx_force_dirty(p) ELSE p

de_rtmx_mux(d, hwdev) == [d EXCEPT !.mux = hwdev]

\* Formats of a video channel have codes of their own; a packed RGB format sets ui_sel.
de_rtmx_set_lay_cfg(d, ch, l, cfg) ==
  Put(d, <<"attr", ch, l>>,
      [en |-> cfg.en, fcolor_en |-> cfg.fc, fmt |-> cfg.fmt, alpctl |-> cfg.premul, layer |-> cfg.layer])

\* The low part of the address of the first visible pixel; carry is the byte that overflows it.
de_rtmx_set_lay_laddr(d, ch, l, buf, crop, trd) ==
  Put(d, <<"attr", ch, l>>, [laddr |-> buf, off |-> crop.x, trd |-> trd])

\* The high bytes of the layers share a register.  Layer l's byte is cleared, and its new
\* value added shifted by l bits, not bytes.
de_rtmx_set_lay_haddr(d, ch, l, high) ==
  LET old == IF "top" \in DOMAIN d.img[<<"haddr", ch>>] THEN d.img[<<"haddr", ch>>].top ELSE 0
  IN Put(d, <<"haddr", ch>>, [top |-> old - 256^l * ((old \div 256^l) % 256) + high * 2^l])

de_rtmx_set_lay_fcolor(d, ch, l, en, color) ==
  LET c == IF en = 1 THEN color ELSE 0 IN
  IF ch \in ViChns THEN Put(d, <<"fc", ch>>, l :> c) ELSE Put(d, <<"attr", ch, l>>, [fcolor |-> c])

de_rtmx_set_overlay_size(d, ch, w) == Put(d, <<"size", ch>>, [ovl |-> SizeReg(w)])

\* Stereo pictures: the part of the picture that one eye sees, where the other
\* eye's part lies in memory, and where it goes on the screen.
de_rtmx_get_3d_in_single_size(trd, crop) ==
  IF trd = "SS" THEN [crop EXCEPT !.w = @ \div 2] ELSE crop
de_rtmx_get_3d_in(trd, buf, right) == IF trd = "FP" THEN right ELSE buf
de_rtmx_get_3d_out(frame, scn, out) ==
  IF out \in {"CI", "SS", "LI"} THEN [frame EXCEPT !.x = @ + scn] ELSE frame

\* Chroma planes are this many times narrower than the luma plane (as a power of two).
WShift(fmt) == IF fmt = "yuv420" THEN 1 ELSE 0
Mask(w, shift) == w - (w % 2^shift)

\* A picture more than 8 times too wide is first reduced m : n by dropping pixels.
de_rtmx_get_coarse_fac(ovlw, outw, fmt) ==
  LET s == WShift(fmt) w == Mask(ovlw, s) n == Mask(8 * outw, s) IN
  IF w > 8 * outw
    THEN [m |-> w, n |-> n, midyw |-> n, midcw |-> n \div 2^s, status |-> TRUE]
    ELSE [m |-> 0, n |-> 0, midyw |-> w, midcw |-> w \div 2^s, status |-> FALSE]
de_rtmx_set_coarse_fac(d, ch, f) == Put(d, <<"size", ch>>, [ds |-> <<f.m, f.n>>])

de_rtmx_set_pf_en(d, pen) == Put(d, <<"bld_attr">>, <<"pen">> :> pen)
de_rtmx_set_pipe_cfg(d, p, rect) ==
  Put(d, <<"bld_attr">>, <<"rect", p>> :> [x |-> rect.x, w |-> SizeReg(rect.w)])
de_rtmx_set_route(d, p, ch) == Put(d, <<"bld_ctl">>, <<"route", p>> :> ch)
de_rtmx_set_premul(d, p, m) == Put(d, <<"bld_ctl">>, <<"premul", p>> :> m)
de_rtmx_set_blend_mode(d, p) == Put(d, <<"bld_ctl">>, <<"mode", p>> :> "srcover")
de_rtmx_set_background_color(d, color) == Put(d, <<"bld_ctl">>, <<"bkcolor">> :> color)
de_rtmx_set_blend_size(d, w) == Put(d, <<"bld_ctl">>, <<"size">> :> SizeReg(w))
de_rtmx_set_outitl(d, itl) == Put(d, <<"bld_out">>, [interlace |-> itl])

\* The smallest rectangle around both, the first one if it is not empty.
de_rtmx_extend_rect(a, b) ==
  LET x == Min({a.x, b.x}) IN
  IF a.w = 0 THEN b ELSE [x |-> x, w |-> Max({a.x + a.w, b.x + b.w}) - x]

\* Premultiplied layers of a channel keep their alpha; a channel that has one makes
\* the others premultiplied too (1), one without any blends straight (mode 0).
de_rtmx_get_premul_ctl(premul) ==
  LET any == \E l \in DOMAIN premul : premul[l] = 1 IN
  [mode |-> IF any THEN 1 ELSE 0,
   lay |-> [l \in DOMAIN premul |-> IF premul[l] = 1 THEN 2 ELSE IF any THEN 1 ELSE 0]]

-----------------------------------------------------------------------------
(* The scalers of the channels: the video scaler (vsu) and the graphics    *)
(* scaler (gsu).  A scaler parameter is [step |-> , phase |-> ] in fixed   *)
(* point, for the one dimension that is modelled; crops start at a whole   *)
(* pixel, so a phase comes from rounding to the chroma grid only.          *)

VSU_ONE == 2^19    \* 1 << VSU_PHASE_FRAC_BITWIDTH
GSU_ONE == 2^18    \* 1 << GSU_PHASE_FRAC_BITWIDTH
One(ch) == IF ch \in ViChns THEN VSU_ONE ELSE GSU_ONE
SC_MIN_WIDTH == 32

de_vsu_update_regs(d) == Flush(d, VsuBlocks)
de_gsu_update_regs(d) == Flush(d, GsuBlocks)

\* The copies start as zero and clean.
de_vsu_init(d) == [d EXCEPT !.img = [b \in VsuBlocks |-> <<>>] @@ @, !.dirty = @ \ VsuBlocks]
de_gsu_init(d) == [d EXCEPT !.img = [b \in GsuBlocks |-> <<>>] @@ @, !.dirty = @ \ GsuBlocks]

Step(one, in, out) == IF out = 0 THEN 0 ELSE (in * one) \div out

\* A 4:2:0 crop is moved to even pixels; the pixel cut off becomes phase.
de_vsu_calc_scaler_para(fmt, crop, frame) ==
  LET step == Step(VSU_ONE, crop.w, frame.w)
      odd == fmt = "yuv420" /\ crop.x % 2 = 1
      w == IF fmt # "yuv420" THEN crop.w
           ELSE IF odd THEN ((crop.w + 1) \div 2) * 2 ELSE (crop.w \div 2) * 2
      phase == IF odd THEN VSU_ONE ELSE 0
  IN [crop |-> [x |-> IF odd THEN crop.x - 1 ELSE crop.x, w |-> w],
      y |-> [step |-> step, phase |-> phase],
      c |-> IF fmt = "yuv420" THEN [step |-> step \div 2, phase |-> phase \div 2]
            ELSE [step |-> step, phase |-> phase]]

de_gsu_calc_scaler_para(crop, frame) ==
  LET p == [step |-> Step(GSU_ONE, crop.w, frame.w), phase |-> 0] IN [crop |-> crop, y |-> p, c |-> p]

\* The position inside the overlay of a layer that starts coord pixels into the frame.
de_calc_ovl_coord(coord, step, one) == (coord * step + one \div 2) \div one

\* The channel uses the steps of its first layer, and the first phase that is not zero.
\* layers: the enabled layers' parameters in the order of the layers.
SelectPara(layers, one) ==
  IF layers = <<>> THEN [step |-> one, phase |-> 0]
  ELSE LET ph == SelectSeq(layers, LAMBDA p : p.phase # 0)
       IN [layers[1] EXCEPT !.phase = IF ph = <<>> THEN @ ELSE ph[1].phase]
de_vsu_sel_ovl_scaler_para(layers) ==
  LET y == SelectPara([i \in DOMAIN layers |-> layers[i].y], VSU_ONE)
      first == SelectSeq(layers, LAMBDA p : p.y.phase # 0)
      c == SelectPara([i \in DOMAIN layers |-> layers[i].c], VSU_ONE)
  IN [y |-> y, c |-> IF first = <<>> THEN c ELSE [c EXCEPT !.phase = first[1].c.phase]]
de_gsu_sel_ovl_scaler_para(layers) == SelectPara([i \in DOMAIN layers |-> layers[i].y], GSU_ONE)

\* After a coarse reduction the steps follow the reduced width.
de_vsu_recalc_scale_para(f, outw, para) ==
  IF f.status
    THEN [y |-> [step |-> Step(VSU_ONE, f.midyw, outw), phase |-> 0],
          c |-> [step |-> Step(VSU_ONE, f.midcw, outw), phase |-> 0]]
    ELSE para

\* A scaler works on at least SC_MIN_WIDTH pixels: a narrower overlay or window is
\* widened, to the left when it would leave the screen; the layers move with it.
de_recalc_ovl_bld_for_scale(r, step, one, scn) ==
  IF r.ovlw = 0 \/ r.bld.w = 0 \/ step = 0 \/ (r.ovlw >= SC_MIN_WIDTH /\ r.bld.w >= SC_MIN_WIDTH) THEN r
  ELSE LET w == IF step > one THEN SC_MIN_WIDTH ELSE (SC_MIN_WIDTH * one) \div step
           ovlw == IF step > one THEN (step * SC_MIN_WIDTH) \div one ELSE SC_MIN_WIDTH
           more == w - r.bld.w
           left == w + r.bld.x > scn
       IN [r EXCEPT !.ovlw = ovlw,
                    !.bld = [x |-> IF left THEN @.x - more ELSE @.x, w |-> w],
                    !.layer = [l \in Lays |-> IF left /\ r.en[l]
                                               THEN [@[l] EXCEPT !.x = @ + (step * more) \div one]
                                               ELSE @[l]]]

\* The filter bank for a scaling step (one of 64 phases' tables per ratio).
de_vsu_calc_fir_coef(step) ==
  LET ratio == step \div (VSU_ONE \div 8) int == ratio \div 8 frac == ratio % 8
  IN 32 * (CASE int = 0 -> 1 [] int = 1 -> 1 + frac [] int = 2 -> 9 + (frac \div 2)
             [] int = 3 -> 13 [] int = 4 -> 14 [] OTHER -> 15)
de_gsu_calc_fir_coef(step) ==
  LET ratio == step \div (GSU_ONE \div 8) int == ratio \div 8 frac == ratio % 8
  IN 16 * (CASE int = 0 -> 1 [] int = 1 -> 1 + frac [] int = 2 -> 9 + (frac \div 2)
             [] int = 3 -> 13 [] int = 4 -> 14 [] OTHER -> 15)

\* Switching a scaler off touches nothing but its enable bit.
de_vsu_set_para(d, ch, en, fmt, inw, outw, para) ==
  LET on == Put(d, <<"vsu_glb", ch>>, [en |-> en]) IN
  IF ~en THEN on
  ELSE Put(Put(Put(Put(on, <<"vsu_out", ch>>, [size |-> outw - 1]),
                   <<"vsu_yscale", ch>>, [size |-> inw - 1, para |-> para.y]),
               <<"vsu_cscale", ch>>,
               [size |-> ((inw + 2^WShift(fmt) - 1) \div 2^WShift(fmt)) - 1, para |-> para.c]),
           <<"vsu_coeff", ch>>,
           [y |-> de_vsu_calc_fir_coef(para.y.step), c |-> de_vsu_calc_fir_coef(para.c.step),
            table |-> IF fmt = "rgb" THEN "lan" ELSE "bicubic"])

de_gsu_set_para(d, ch, en, inw, outw, para) ==
  LET on == Put(d, <<"gsu_glb", ch>>, [en |-> en]) IN
  IF ~en THEN on
  ELSE Put(Put(Put(on, <<"gsu_out", ch>>, [size |-> outw - 1]),
               <<"gsu_scale", ch>>, [size |-> inw - 1, para |-> para]),
           <<"gsu_coeff", ch>>, [h |-> de_gsu_calc_fir_coef(para.step)])
=============================================================================
