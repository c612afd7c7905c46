----------------------------- MODULE DeEnhance ------------------------------
(***************************************************************************)
(* Colour space conversion: of a video channel (ccsc, with the input       *)
(* converter icsc in front of the enhancement) and of the device (dcsc).   *)
(* A conversion matrix is named by the sequence of the tables of the code  *)
(* whose product it is.                                                    *)
(***************************************************************************)
EXTENDS DeRtmx

de_ccsc_update_regs(d) == Flush(d, CcscBlocks)
de_dcsc_update_regs(d) == Flush(d, DcscBlocks)

de_ccsc_init(d) ==
  [d EXCEPT !.img = [b \in CcscBlocks |-> <<>>] @@ @,
            !.dirty = (@ \ CcscBlocks) \cup ({"csc"} \X ViChns)]
de_dcsc_init(d) ==
  [d EXCEPT !.img = [b \in DcscBlocks |-> <<>>] @@ @, !.dirty = @ \cup DcscBlocks, !.dcsc.enhance_mode = 0]

\* c: infmt, inmod, outfmt, outmod, sat (the picture adjustment, 50 for none), range.
de_csc_coeff_calc(c) ==
  LET toYuv == IF c.infmt = "rgb"
                 THEN IF c.outfmt = "rgb" THEN <<"r2y_709">> ELSE <<"r2y_" \o c.outmod>>
                 ELSE IF c.outfmt = "yuv" /\ c.inmod # c.outmod THEN <<"y2y_" \o c.outmod>> ELSE <<>>
      adjust == IF c.sat # 50 THEN <<"enhance">> ELSE <<>>
      toRgb == IF c.outfmt # "rgb" THEN <<>>
               ELSE IF c.infmt = "rgb"
                 THEN <<"y2r_709">> \o (IF c.range = "16_235" THEN <<"r2r">> ELSE <<>>)
                 ELSE <<(IF c.range = "16_235" THEN "y2r_lim_" ELSE "y2r_") \o c.inmod>>
  IN IF c.infmt = c.outfmt /\ c.inmod = c.outmod /\ c.range = "0_255" /\ c.sat = 50
       THEN <<"bypass">>
       ELSE toYuv \o adjust \o toRgb

\* A channel with enhancement works in YUV: RGB input goes through the input converter.
de_ccsc_apply(d, ch, c) ==
  LET inside == ch \in VepChns /\ c.infmt = "rgb" /\ c.outfmt = "rgb"
      icsc == IF ch \in VepChns THEN Put(d, <<"icsc", ch>>, [enable |-> inside]) ELSE d
      conv == IF inside THEN [c EXCEPT !.infmt = "yuv", !.inmod = "enhance", !.outmod = "601"] ELSE c
  IN Put(icsc, <<"csc", ch>>, [coeff |-> de_csc_coeff_calc(conv), enable |-> 1])

\* A mode beyond the table leaves the one in use; mode 2 has less contrast.
de_dcsc_apply(d, c) ==
  LET em == IF c.enhance_mode > 2 THEN d.dcsc.enhance_mode ELSE c.enhance_mode
      cfg == [c EXCEPT !.enhance_mode = em, !.sat = IF em = 2 THEN 40 ELSE 50]
  IN Put(Put([d EXCEPT !.dcsc = cfg], <<"dcsc_coeff">>, [coeff |-> de_csc_coeff_calc(cfg)]),
         <<"dcsc_enable">>, [enable |-> 1])

de_dcsc_get_config(d) == d.dcsc

-----------------------------------------------------------------------------
(* Picture enhancement of the video channels: contrast (fce), sharpness    *)
(* (peak, lti), colour (ase, fcc), and the histogram that drives the       *)
(* automatic contrast.  Its state is d.enh: the picture format, whether    *)
(* the picture is too small to be enhanced, demonstration mode, the last   *)
(* configuration, and the histogram and contrast status of every channel.  *)
(* A configuration is [enable, mode, em, demo, dirty, sharp, contrast,     *)
(* color, fancy]; the digits packed in one number in the code are records. *)

de_fce_update_regs(d) == Flush(d, {"fce_para", "fce_celut"} \X VepChns)
de_peak_update_regs(d) == Flush(d, {"peak", "peak_gain"} \X VepChns)
de_lti_update_regs(d) == Flush(d, {"lti"} \X VepChns)
de_ase_update_regs(d) == Flush(d, {"ase"} \X VepChns)
de_fcc_update_regs(d) == Flush(d, {"fcc"} \X VepChns)
de_enhance_update_regs(d) ==
  de_fcc_update_regs(de_ase_update_regs(de_peak_update_regs(de_lti_update_regs(de_fce_update_regs(d)))))

\* The copies of a channel start as zero and clean.
Zero(d, names) == [d EXCEPT !.img = [b \in names \X VepChns |-> <<>>] @@ @, !.dirty = @ \ (names \X VepChns)]
de_fce_init(d) == Zero(d, {"fce_para", "fce_celut"})
de_peak_init(d) == Zero(d, {"peak", "peak_gain"})
de_lti_init(d) == Zero(d, {"lti"})
de_ase_init(d) == Zero(d, {"ase"})
de_fcc_init(d) == Zero(d, {"fcc"})
de_enhance_init(d) == de_fcc_init(de_ase_init(de_peak_init(de_lti_init(de_fce_init(d)))))

\* Each unit has an enable bit, the size of its picture and the window it works in.
de_fce_enable(d, ch, en) == Put(d, <<"fce_para", ch>>, [en |-> en])
de_peak_enable(d, ch, en) == Put(d, <<"peak", ch>>, [en |-> en])
de_lti_enable(d, ch, en) == Put(d, <<"lti", ch>>, [en |-> en])
de_ase_enable(d, ch, en) == Put(d, <<"ase", ch>>, [en |-> en])
de_fcc_enable(d, ch, en) == Put(d, <<"fcc", ch>>, [en |-> en])

\* Four of them hold the width minus one in 12 bits, so that 0 becomes 4095.
Minus1(w) == (w + 4095) % 4096
de_fce_set_size(d, ch, w) == Put(d, <<"fce_para", ch>>, [size |-> Minus1(w)])
de_peak_set_size(d, ch, w) == Put(d, <<"peak", ch>>, [size |-> Minus1(w)])
de_lti_set_size(d, ch, w) == Put(d, <<"lti", ch>>, [size |-> Minus1(w)])
de_ase_set_size(d, ch, w) == Put(d, <<"ase", ch>>, [size |-> Minus1(w)])
de_fcc_set_size(d, ch, w) == Put(d, <<"fcc", ch>>, [size |-> SizeReg(w)])

\* A window is written only when it is switched on.
Window(on, w) == [win_en |-> on] @@ (IF on THEN [win |-> w] ELSE <<>>)
de_fce_set_window(d, ch, on, w) == Put(d, <<"fce_para", ch>>, Window(on, w))
de_peak_set_window(d, ch, on, w) == Put(d, <<"peak", ch>>, Window(on, w))
de_lti_set_window(d, ch, on, w) == Put(d, <<"lti", ch>>, Window(on, w))
de_ase_set_window(d, ch, on, w) == Put(d, <<"ase", ch>>, Window(on, w))
de_fcc_set_window(d, ch, on, w) == Put(d, <<"fcc", ch>>, Window(on, w))

\* The strength of each unit, from the digits of the configuration.
de_fce_info2para(contrast, color) ==
  [lce_en |-> contrast.lce # 0, hist_en |-> contrast.auto # 0, b_automode |-> contrast.auto # 0,
   ce_en |-> contrast.auto # 0 \/ contrast.ce # 0, ftc_en |-> color.ftc # 0]
de_fce_en(p) == p.lce_en \/ p.ce_en \/ p.hist_en \/ p.ftc_en
de_peak_info2para(sharp) == [peak_en |-> sharp.peak # 0, gain |-> <<0, 36, 48>>[sharp.peak + 1]]
de_lti_info2para(sharp) == [lti_en |-> sharp.lti # 0]
de_ase_info2para(color) == [ase_en |-> color.ase # 0, gain |-> IF color.ase # 0 THEN 12 ELSE 0]
de_fcc_info2para(fancy) ==
  [fcc_en |-> \E i \in 1 .. 3 : fancy[i] # 0, sgain |-> <<5 * fancy[1], 12 * fancy[2], 4 * fancy[3]>>]

de_fce_set_para(d, ch, p) ==
  Put(d, <<"fce_para", ch>>,
      [lce_en |-> p.lce_en, ftc_en |-> p.ftc_en, ce_en |-> p.ce_en, hist_en |-> p.hist_en])
de_fce_set_ce(d, ch, lut) == Put(d, <<"fce_celut", ch>>, [lut |-> lut])
de_peak_set_para(d, ch, gain) == Put(d, <<"peak_gain", ch>>, [gain |-> gain])
de_lti_set_para(d, ch, gain) == Put(d, <<"lti", ch>>, [gain |-> gain])
de_ase_set_para(d, ch, gain) == Put(d, <<"ase", ch>>, [gain |-> gain])
de_fcc_set_para(d, ch, gain) == Put(d, <<"fcc", ch>>, [gain |-> gain])

\* Two histograms are needed before the contrast can follow the picture.
de_hist_apply(d, ch, en, dirty) ==
  IF dirty THEN [d EXCEPT !.enh.hist[ch] = [run |-> 0, two |-> FALSE, en |-> en]] ELSE d
de_hist_tasklet(d, ch) ==
  LET h == d.enh.hist[ch] IN
  IF ~h.en THEN d
  ELSE [d EXCEPT !.enh.hist[ch] = IF h.run < 2 THEN [@ EXCEPT !.run = @ + 1] ELSE [@ EXCEPT !.two = TRUE]]

de_ce_apply(d, ch, en, auto, dirty) ==
  IF ~dirty THEN d
  ELSE IF ~en THEN [d EXCEPT !.enh.ce[ch].en = FALSE]
  ELSE de_fce_set_ce([d EXCEPT !.enh.ce[ch] = [en |-> TRUE, auto |-> auto]], ch,
                     IF auto THEN "bypass" ELSE "constant")
de_ce_tasklet(d, ch) ==
  IF d.enh.ce[ch].en /\ d.enh.ce[ch].auto
    THEN de_fce_set_ce(d, ch, IF d.enh.hist[ch].two THEN "auto" ELSE "bypass")
    ELSE d

VepSeq == SelectSeq(ChnSeq, LAMBDA ch : ch \in VepChns)

\* A frame later: the histograms, then the contrast tables made from them.
de_enhance_tasklet(d) == FoldLeft(LAMBDA e, ch : de_ce_tasklet(de_hist_tasklet(e, ch), ch), d, VepSeq)

\* The strengths for a mode, a set of modes (em) and a picture format; anything beyond the
\* table leaves the configuration as it is.
de_enhance_set_mode(format, c) ==
  LET to(peak, lti, lce, auto, ce, ase, ftc, fancy) ==
        [c EXCEPT !.sharp = [peak |-> peak, lti |-> lti], !.contrast = [lce |-> lce, auto |-> auto, ce |-> ce],
                  !.color = [ase |-> ase, ftc |-> ftc], !.fancy = fancy]
  IN CASE c.mode >= 2 \/ format >= 2 \/ c.em >= 3 -> c
       [] c.mode = 0 /\ format = 0 -> to(2, 2, 1, 0, 1, 2, 1, <<1, 1, 1>>)
       [] c.mode = 0 /\ format = 1 -> to(1, 1, 1, 1, 0, 2, 1, <<1, 2, 1>>)
       [] c.mode = 1 /\ c.em = 1 /\ format = 0 -> to(0, 0, 0, 0, 0, 2, 1, <<1, 1, 1>>)
       [] c.mode = 1 /\ c.em = 1 /\ format = 1 -> to(2, 0, 0, 2, 0, 2, 1, <<1, 1, 1>>)
       [] OTHER -> to(0, 0, 0, 0, 0, 0, 0, <<0, 0, 0>>)

\* Everything is off when the enhancement is, or the picture is too small.
NoSharp == [peak |-> 0, lti |-> 0]
NoContrast == [lce |-> 0, auto |-> 0, ce |-> 0]
NoColor == [ase |-> 0, ftc |-> 0]
de_enhance_info2data(c, bypass) ==
  LET on == c.enable /\ ~bypass
      sharp == IF on THEN c.sharp ELSE NoSharp
      color == IF on THEN c.color ELSE NoColor
  IN [fce |-> de_fce_info2para(IF on THEN c.contrast ELSE NoContrast, color),
      peak |-> de_peak_info2para(sharp), lti |-> de_lti_info2para(sharp), ase |-> de_ase_info2para(color),
      fcc |-> de_fcc_info2para(IF on THEN c.fancy ELSE <<0, 0, 0>>)]

EnhanceChannel(d, ch, p, dirty) ==
  LET status == de_ce_apply(de_hist_apply(d, ch, p.fce.hist_en, dirty), ch, p.fce.ce_en, p.fce.b_automode, dirty)
      fce == de_fce_set_para(de_fce_enable(status, ch, de_fce_en(p.fce)), ch, p.fce)
      peak == de_peak_set_para(de_peak_enable(fce, ch, p.peak.peak_en), ch, p.peak.gain)
      lti == de_lti_set_para(de_lti_enable(peak, ch, p.lti.lti_en), ch, IF p.lti.lti_en THEN 1 ELSE 0)
      ase == de_ase_set_para(de_ase_enable(lti, ch, p.ase.ase_en), ch, p.ase.gain)
  IN de_fcc_set_para(de_fcc_enable(ase, ch, p.fcc.fcc_en), ch, p.fcc.sgain)

\* c is remembered as it came; the demonstration window changes only with the next size.
de_enhance_demo_enable(d, on) == [d EXCEPT !.enh.demo = on]
de_enhance_apply(d, c) ==
  LET p == de_enhance_info2data(de_enhance_set_mode(d.enh.format, c), d.enh.bypass) IN
  de_enhance_demo_enable(
    FoldLeft(LAMBDA e, ch : EnhanceChannel(e, ch, p, c.dirty), [d EXCEPT !.enh.cfg = c], VepSeq), c.demo)

ENAHNCE_MIN_WIDTH == 32

\* size: the width of the picture of each channel.
de_enhance_set_size(d, size) ==
  LET one(e, ch) ==
        LET w == IF d.enh.demo THEN size[ch] \div 2 ELSE size[ch]
            fce == de_fce_set_window(de_fce_set_size(e, ch, size[ch]), ch, d.enh.demo, w)
            peak == de_peak_set_window(de_peak_set_size(fce, ch, size[ch]), ch, d.enh.demo, w)
            lti == de_lti_set_window(de_lti_set_size(peak, ch, size[ch]), ch, d.enh.demo, w)
            ase == de_ase_set_window(de_ase_set_size(lti, ch, size[ch]), ch, d.enh.demo, w)
        IN de_fcc_set_window(de_fcc_set_size(ase, ch, size[ch]), ch, d.enh.demo, w)
  IN [FoldLeft(one, d, VepSeq) EXCEPT !.enh.bypass = size[0] < ENAHNCE_MIN_WIDTH]

\* Applied again when the format changes, and at every call while the picture is too small.
de_enhance_set_format(d, format) ==
  LET c == de_enhance_set_mode(format, d.enh.cfg) IN
  IF d.enh.format # format \/ d.enh.bypass
    THEN de_enhance_apply([d EXCEPT !.enh.format = format], c) ELSE d
=============================================================================
