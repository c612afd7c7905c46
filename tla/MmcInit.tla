------------------------------ MODULE MmcInit -------------------------------
(* Initialisation of a card and its hardware partitions, the second half of *)
(* Drivers/SunxiSdMmcDxe/mmc.c, and before it the search for the sample     *)
(* points, Drivers/SunxiSdMmcDxe/sunxi_mmc_tuning.c: a pattern is written   *)
(* at a safe speed, then read in every speed mode, at every frequency and   *)
(* with every sample point; the middle of the widest run of good points is  *)
(* kept.                                                                    *)
EXTENDS MmcCore, TLC

CONSTANTS WinTh,       \* tm4_timing_window_th: the narrowest window accepted
          TuningAdd    \* TUNING_ADD, where the pattern is kept

ASSUME TuningAssumption == WinTh \in Nat /\ TuningAdd \in Nat

Pattern == 9           \* the tuning blocks, gen_tuning_blk_bus4 and _bus8

-----------------------------------------------------------------------------
(* The choice of a sample point. *)

\* The first index from i on that is good (or is not), or Points.
First(p, i, good) ==
    LET hits == {j \in i..(Points - 1) : p[j] = good}
    IN IF hits = {} THEN Points ELSE CHOOSE j \in hits : \A k \in hits : j <= k

\* Only the first two windows are compared.  The end of a window is the bad point
\* behind it, unless the window reaches the last point.
_get_best_sdly(p) ==
    LET End(from) == LET e == First(p, from, FALSE) IN IF e = Points THEN Points - 1 ELSE e
        s0 == First(p, 0, TRUE)
        e0 == End(s0 + 1)
        s1 == First(p, e0 + 1, TRUE)
        window0 == e0 - s0 + 1
        window1 == IF s1 >= Points THEN 0 ELSE End(s1 + 1) - s1 + 1
        Middle(start, window) == IF window >= WinTh THEN start + window \div 2 ELSE Unset
    IN IF s0 = Points THEN Unset
       ELSE IF window0 >= window1 THEN Middle(s0, window0) ELSE Middle(s1, window1)

-----------------------------------------------------------------------------
(* Frequencies. *)

HighFreqs == <<400000, 25000000, 50000000, 100000000, 150000000, 200000000>>
LowFreqs == <<400000, 25000000, 50000000>>

\* 0 past the end of a mode's table.
sunxi_select_freq(mode, i) ==
    LET table == IF mode \in {HS200_SDR104, HS400} THEN HighFreqs ELSE LowFreqs
    IN IF i < Len(table) THEN table[i + 1] ELSE 0

_skip_curr_freq(mode, freq) ==
    ~CASE mode = DS26_SDR12 -> freq \in 400000..26000000
       [] mode \in {HSSDR52_SDR25, HSDDR52_DDR50} -> freq \in 50000000..52000000
       [] mode = HS200_SDR104 -> freq \in 50000000..200000000
       [] OTHER -> freq \in 50000000..150000000

mmc_set_clock(s, clk) ==
    LET hi == IF clk > s.h.fmax THEN s.h.fmax ELSE clk
    IN mmc_set_ios([s EXCEPT !.m.clock = IF hi < 400000 THEN 400000 ELSE hi])

-----------------------------------------------------------------------------
(* Tuning. *)

sunxi_mmc_tuning_init(s) == [s EXCEPT !.heap = @ + 2]

\* Frees a block only where there is none: the two blocks are never given back.
sunxi_mmc_tuning_exit(s) == s

\* 0, to do the work again with the next sample point, or -1.
sunxi_need_rty(s) == sunxi_decide_rty(sunxi_detail_errno(s), s.h.raw, FALSE)

sunxi_read_tuning(s) ==
    IF TuningAdd + 1 > s.m.lba THEN {Result(s, "err")}
    ELSE AndThen(mmc_set_blocklen(s), LAMBDA t : mmc_bread(t, TuningAdd, 1))

\* Whether the pattern is read back.  The repetitions of one read are one read.
sunxi_tuning_method_0(s) ==
    IF s.m.width = 1 THEN {Result(s, "err")}
    ELSE Then(sunxi_read_tuning(s),
              LAMBDA t : IF t.err # "ok"
                         THEN Then(mmc_send_manual_stop(t), LAMBDA u : {Result(u, "err")})
                         ELSE {Result(t, IF t.data = <<Pattern>> THEN "ok" ELSE "err")})

SetPoint(s, mode, i, v) ==
    IF mode = HS400 THEN [s EXCEPT !.h.dsdly[i] = v] ELSE [s EXCEPT !.h.sdly[mode][i] = v]

\* Tries the points from sdly on at frequency i; p tells which ones were good.
RECURSIVE TryPoints(_, _, _, _, _)
TryPoints(s, mode, i, sdly, p) ==
    IF sdly = Points THEN {SetPoint(s, mode, i, _get_best_sdly(p))}
    ELSE Then(mmc_set_clock(SetPoint(s, mode, i, sdly), sunxi_select_freq(mode, i)),
              LAMBDA t : Then(sunxi_tuning_method_0(t),
                  LAMBDA u : TryPoints(u, mode, i, sdly + 1, [p EXCEPT ![sdly] = u.err = "ok"])))

NoGood == [j \in 0..(Points - 1) |-> FALSE]

RECURSIVE TryFreqs(_, _, _)
TryFreqs(s, mode, i) ==
    LET freq == sunxi_select_freq(mode, i)
    IN IF freq = 0 THEN {s}
       ELSE IF _skip_curr_freq(mode, freq) THEN TryFreqs(SetPoint(s, mode, i, Unset), mode, i + 1)
       ELSE Then(TryPoints(s, mode, i, 0, NoGood), LAMBDA t : TryFreqs(t, mode, i + 1))

\* Ends at a frequency that the mode entered next allows.
sunxi_tuning_speed_mode(s, mode) ==
    Then(TryFreqs(s, mode, 0),
         LAMBDA t : LET clk == sunxi_select_freq(mode, IF mode = DS26_SDR12 THEN 1 ELSE 2)
                    IN mmc_set_clock([t EXCEPT !.m.tran = clk], clk))

\* Writes the pattern and reads it back, moving the sample point on after an error.
RECURSIVE write_tuning_try_freq(_, _)
write_tuning_try_freq(s, clk) ==
    LET Retry(t, raw) ==
            LET u == sunxi_decide_rty(t, raw, FALSE)
            IN IF u.rty THEN write_tuning_try_freq(u, clk) ELSE {Result(u, "err")}
        Failed(t) == Retry(sunxi_detail_errno(t), t.h.raw)
    IN IF s.m.width = 1 THEN {Result(s, "err")}
       ELSE Then(mmc_set_clock(s, clk),
                 LAMBDA t : Then(mmc_bwrite(t, TuningAdd, 1, Pattern),
                     LAMBDA u : IF u.err # "ok" THEN Failed(u)
                                ELSE Then(mmc_bread(u, TuningAdd, 1),
                                         LAMBDA v : IF v.err # "ok" THEN Failed(v)
                                                    ELSE IF v.data = <<Pattern>> THEN {v}
                                                    ELSE Retry(v, "all"))))

sunxi_write_tuning(s) ==
    LET bak == s.m.clock
        Restored(t) == mmc_set_clock(t, bak)
        first == sunxi_decide_rty(s, "none", TRUE)
    IN Then(write_tuning_try_freq(first, 25000000),
            LAMBDA t : IF t.err = "ok" THEN Restored(t)
                       ELSE Then(write_tuning_try_freq(t, 50000000),
                                 LAMBDA u : IF u.err = "ok" THEN Restored(u) ELSE {u}))

BusWidth(s) == IF "8BIT" \in s.m.caps THEN 8 ELSE IF "4BIT" \in s.m.caps THEN 4 ELSE 1

\* HS400 is entered from DDR.
EnterMode(s, mode, width) ==
    AndThen(IF mode = HS400 THEN mmc_mmc_switch_bus_mode(s, HSDDR52_DDR50, width) ELSE {Result(s, "ok")},
            LAMBDA t : mmc_mmc_switch_bus_mode(t, mode, width))

sunxi_execute_tuning(s, mode) ==
    IF IS_SD(s)
    THEN IF mode >= HSDDR52_DDR50 THEN {Result(s, "err")} ELSE sunxi_tuning_speed_mode(s, mode)
    ELSE AndThen(EnterMode(s, mode, BusWidth(s)), LAMBDA t : sunxi_tuning_speed_mode(t, mode))

\* The delays found, as they are handed to the next boot stage.
sunxi_pack_tuning_result(s) ==
    [s EXCEPT !.p.packed = [md \in SpeedModes |-> IF md = HS400 THEN s.h.dsdly ELSE s.h.sdly[md]]]

\* The modes are tuned in turn.  HS200 and DDR may fail, but HS400 is tuned only
\* when HS200 was.
RECURSIVE TuneModes(_, _, _)
TuneModes(s, modes, hs200) ==
    LET mode == Head(modes)
        able == CASE mode = HS200_SDR104 -> "HS200" \in s.h.caps
                  [] mode = HSDDR52_DDR50 -> "DDR52" \in s.h.caps
                  [] mode = HS400 -> hs200 /\ {"HS400", "8BIT"} \subseteq s.h.caps
                  [] OTHER -> TRUE
    IN IF modes = <<>> THEN {Result(s, "ok")}
       ELSE IF ~able THEN TuneModes(s, Tail(modes), hs200)
       ELSE Then(sunxi_execute_tuning(s, mode),
                 LAMBDA t : IF t.err # "ok" /\ mode \in {HSSDR52_SDR25, HS400} THEN {t}
                            ELSE TuneModes(t, Tail(modes), hs200 /\ (mode = HS200_SDR104 => t.err = "ok")))

\* HS400 is left by way of DDR.
sunxi_bus_tuning(s) ==
    AndThen(TuneModes(s, <<HSSDR52_SDR25, HS200_SDR104, HSDDR52_DDR50, HS400>>, TRUE),
      LAMBDA t : AndThen(IF t.m.spd = HS400 THEN mmc_mmc_switch_bus_mode(t, HSDDR52_DDR50, t.m.width) ELSE {t},
        LAMBDA u : AndThen(mmc_mmc_switch_bus_mode(u, HSSDR52_SDR25, u.m.width),
          LAMBDA v : {sunxi_pack_tuning_result(v)})))

-----------------------------------------------------------------------------
(* The best bus. *)

\* Mode and frequency, the fastest for which a sample point was found.
BestBus(s) ==
    LET Found(mode, i) == s.h.sdly[mode][i] # Unset
        Pick(able, mode, freqs, P(_)) ==
            IF able THEN {<<mode, i>> : i \in {j \in freqs : P(j) /\ \A k \in freqs : k > j => ~P(k)}} ELSE {}
        a == Pick({"HS400", "8BIT"} \subseteq s.m.caps, HS400, 2..5,
                  LAMBDA i : Found(HS200_SDR104, i) /\ s.h.dsdly[i] # Unset)
        b == Pick("HS200" \in s.m.caps, HS200_SDR104, 4..5, LAMBDA i : Found(HS200_SDR104, i))
        c == Pick("DDR52" \in s.m.caps, HSDDR52_DDR50, 2..2, LAMBDA i : Found(HSDDR52_DDR50, i))
        d == Pick("HS52" \in s.m.caps, HSSDR52_SDR25, 1..2, LAMBDA i : Found(HSSDR52_SDR25, i))
    IN CHOOSE x \in (IF a # {} THEN a ELSE IF b # {} THEN b ELSE IF c # {} THEN c
                     ELSE IF d # {} THEN d ELSE {<<HSSDR52_SDR25, 2>>}) : TRUE

\* The modes the card offers, when they were not found out by tuning.
sunxi_best_caps(s) ==
    IF s.p.work = "boot" \/ ~s.p.auto
    THEN Then(mmc_send_ext_csd(s),
              LAMBDA t : {[t EXCEPT !.m.caps = IF t.err # "ok" THEN {"4BIT", "8BIT"} ELSE @ \cup
                     (IF "HS400" \in t.c.types /\ "8BIT" \in @ THEN {"HS400"} ELSE {}) \cup
                     (t.c.types \cap {"HS200"}) \cup
                     (IF "HS" \in t.c.types THEN t.c.types \cap {"DDR52"} ELSE {})]})
    ELSE {Result(s, "ok")}

sunxi_switch_to_best_bus(s) ==
    IF IS_SD(s) \/ s.h.no = 0 THEN {Result(s, "ok")}
    ELSE AndThen(sunxi_best_caps(s),
                 LAMBDA t : IF t.h.mode # 4 THEN {t}
                            ELSE LET best == BestBus(t)
                                     clk == sunxi_select_freq(best[1], best[2])
                                 IN AndThen(EnterMode(t, best[1], BusWidth(t)),
                                            LAMBDA u : mmc_set_clock([u EXCEPT !.m.tran = clk], clk)))

-----------------------------------------------------------------------------
(* High speed. *)

RECURSIVE SwitchRetry(_, _)
SwitchRetry(s, retry) ==
    Then(mmc_switch(s, "HS_TIMING", "hs"),
         LAMBDA t : IF t.err = "ok" \/ retry = 0 THEN {t} ELSE SwitchRetry(t, retry - 1))

\* The modes the card lacks are taken from the host.  The timing is read back:
\* a card that did not follow stays at 26 MHz.
mmc_change_freq(s) ==
    LET t == [s EXCEPT !.m.caps = {}]
        Masked(u) == [u EXCEPT !.m.caps = {"4BIT", "8BIT"},
                               !.h.caps = @ \ ({"HS400", "HS200", "DDR52"} \ u.c.types)]
        Told(u) == IF u.c.timing = "bc" THEN {u}
                   ELSE IF "HS" \in u.c.types
                   THEN {[u EXCEPT !.m.spd = HSSDR52_SDR25, !.m.caps = @ \cup {"HS", "HS52"}]}
                   ELSE {[u EXCEPT !.m.spd = DS26_SDR12, !.m.caps = @ \cup {"HS"}]}
    IN IF s.m.rev < 400 THEN {Result(t, "ok")}
       ELSE AndThen(mmc_send_ext_csd(t),
              LAMBDA u : AndThen(SwitchRetry(Masked(u), 5),
                LAMBDA v : AndThen(mmc_update_phase(v),
                  LAMBDA w : AndThen(mmc_send_ext_csd(w), Told))))

sd_switch(s, set) == mmc_send_cmd(s, ReadCmd(IF set THEN "SD_HS" ELSE "SD_CHECK"))

RECURSIVE ScrRetry(_, _)
ScrRetry(s, retry) ==
    Then(mmc_send_cmd(s, ReadCmd("SCR")),
         LAMBDA t : IF t.err = "ok" \/ retry = 0 THEN {t} ELSE ScrRetry(t, retry - 1))

\* A card of version 1.0, or without high speed, is left as it is; the host then
\* keeps the modes that no SD card has.
sd_change_freq(s) ==
    LET Slow(t) == ~(t.c.v2 /\ "HS" \in t.c.types /\ {"HS", "HS52"} \subseteq t.h.caps)
        Fast(t) == [t EXCEPT !.m.caps = IF t.c.timing = "hs" THEN @ \cup {"HS"} ELSE @,
                             !.m.spd = IF t.c.timing = "hs" THEN HSSDR52_SDR25 ELSE @,
                             !.h.caps = @ \ {"HS400", "HS200", "DDR52", "8BIT"}]
    IN AndThen(mmc_send_cmd([s EXCEPT !.m.caps = {}], Cmd("CMD55")),
         LAMBDA t : AndThen(ScrRetry(t, 3),
           LAMBDA u : LET v == [u EXCEPT !.m.caps = {"4BIT"}] IN
             IF ~u.c.v2 THEN {v}
             ELSE AndThen(sd_switch(v, FALSE),
               LAMBDA w : IF Slow(w) THEN {w}
                          ELSE AndThen(sd_switch(w, TRUE),
                            LAMBDA x : Then(mmc_set_ios(x),
                              LAMBDA y : AndThen(mmc_update_phase(y), LAMBDA z : {Fast(z)}))))))

-----------------------------------------------------------------------------
(* Partitions. *)

mmc_set_capacity(s, part) ==
    [s EXCEPT !.m.lba = IF part = 0 THEN s.m.user ELSE IF part \in {1, 2} THEN s.m.bootlba ELSE 0]

-----------------------------------------------------------------------------
(* mmc_startup: from the ready state to the transfer state. *)

\* The card's status is read whether or not its CSD could be, which fails before
\* the card has an address.
Identify(s) ==
    AndThen(mmc_send_cmd(s, Cmd("CMD2")),
      LAMBDA t : AndThen(mmc_send_cmd(t, Cmd("CMD3")),
        LAMBDA u : Then(mmc_send_cmd(u, Cmd("CMD9")),
          LAMBDA v : Then(mmc_send_status(v), LAMBDA w : {Result(w, v.err)}))))

\* Version and capacity of the CSD; the card is selected.
Select(s) ==
    LET t == [s EXCEPT !.m.ver = IF @ = "MMC_VERSION_UNKNOWN" THEN "MMC" ELSE @,
                       !.m.rev = IF s.m.ver = "MMC_VERSION_UNKNOWN"
                                 THEN (IF s.c.rev >= 400 THEN 400 ELSE s.c.rev) ELSE @,
                       !.m.user = Cardinality(DOMAIN s.c.mem), !.m.bootlba = 0]
    IN AndThen(mmc_send_cmd(t, Cmd("CMD7")),
               LAMBDA u : Then(mmc_set_clock(u, 25000000),
                               LAMBDA v : {[v EXCEPT !.m.grp = 1]}))

\* What the extended CSD says of the card.  The buffer is used although reading it
\* may have failed: it then holds anything.
ExtCsd(s) ==
    [rev : IF s.err = "ok" THEN {s.c.rev} ELSE {s.m.rev, s.c.rev},
     grp : IF s.err = "ok" THEN {s.c.grp} ELSE {1, s.c.grp},
     boots : IF s.err = "ok" THEN {s.c.boots} ELSE {0, s.c.boots},
     enh : IF s.err = "ok" THEN {s.c.enh} ELSE BOOLEAN]

ReadExtCsd(s) ==
    LET Note(t, x) ==
            LET u == [t EXCEPT !.m.rev = x.rev, !.m.sec = t.c.sec, !.m.grp = x.grp]
                Parts(v) == IF ~(x.enh \/ x.boots > 0) THEN {v}
                            ELSE {[v EXCEPT !.m.bootlba = x.boots]}
            IN Then(mmc_mmc_update_timeout(u),
                    LAMBDA v : IF x.enh THEN AndThen(mmc_switch(v, "ERASE_GROUP_DEF", 1), Parts)
                               ELSE Parts(Result(v, "ok")))
    IN IF IS_SD(s) \/ s.m.rev < 400 THEN {Result(s, "ok")}
       ELSE Then(mmc_send_ext_csd(s),
                 LAMBDA t : UNION {Note(t, x) : x \in ExtCsd(t)})

\* The change that widens the card's bus only.
MutWiden(s) ==
    IF IS_SD(s) THEN {Result(s, "ok")} ELSE mmc_switch(s, "BUS_WIDTH", <<8, FALSE>>)

\* The widest bus both sides have.
Widen(s) ==
    LET ddr == "DDR52" \in s.m.caps
        Wide(w) == AndThen(mmc_switch(s, "BUS_WIDTH", <<w, ddr>>), LAMBDA t : mmc_set_bus_width(t, w))
        SdWide == AndThen(mmc_send_cmd(s, Cmd("CMD55")),
                    LAMBDA t : AndThen(mmc_send_cmd(t, Cmd("ACMD6")), LAMBDA u : mmc_set_bus_width(u, 4)))
    IN IF IS_SD(s) THEN IF "4BIT" \in s.m.caps THEN SdWide ELSE {Result(s, "ok")}
       ELSE IF "8BIT" \in s.m.caps THEN Wide(8)
       ELSE IF "4BIT" \in s.m.caps THEN Wide(4) ELSE {Result(s, "ok")}

\* The change that runs an SD card without high speed at 50 MHz.
MutTranSpeed(s) == IF IS_SD(s) THEN 50000000 ELSE 52000000

TranSpeed(s) ==
    IF IS_SD(s) THEN IF "HS" \in s.m.caps THEN 50000000 ELSE 25000000
    ELSE IF "DDR52" \in s.m.caps \/ {"HS", "HS52"} \subseteq s.m.caps THEN 52000000 ELSE 26000000

mmc_startup(s) ==
    AndThen(Identify(s),
      LAMBDA a : AndThen(Select(a),
        LAMBDA b : AndThen(ReadExtCsd(b),
          LAMBDA c : LET d == mmc_set_capacity(c, c.m.part_num) IN
            AndThen(IF IS_SD(d) THEN sd_change_freq(d) ELSE mmc_change_freq(d),
              LAMBDA e : AndThen(mmc_update_phase(e),
                LAMBDA f : AndThen(Widen([f EXCEPT !.m.caps = @ \cap f.h.caps]),
                  LAMBDA g : mmc_set_clock([g EXCEPT !.m.tran = TranSpeed(g)], TranSpeed(g))))))))

-----------------------------------------------------------------------------
(* Initialisation. *)

\* The change that does not reset the card.
MutReset(s) == AndThen(mmc_core_init(s), LAMBDA t : Then(mmc_set_bus_width(t, 1), LAMBDA u : mmc_set_clock(u, 1)))

\* The controller is set up for identification: one line, the lowest clock.
Reset(s) ==
    AndThen(mmc_core_init(s),
      LAMBDA t : Then(mmc_set_bus_width(t, 1),
        LAMBDA u : Then(mmc_set_clock(u, 1),
          LAMBDA v : AndThen(mmc_go_idle(v), LAMBDA w : {[w EXCEPT !.m.part_num = 0]}))))

SdProbe(s) == Then(mmc_send_if_cond(s), sd_send_op_cond)
Unusable(S) == Then(S, LAMBDA t : {IF t.err \in {"ok", "inprogress"} THEN t ELSE Result(t, "unusable")})

\* The boot parameters may say what card it is; otherwise a card that does not
\* answer as an SD card is tried as an MMC.
Probe(s) ==
    IF s.p.work = "boot" /\ s.p.card = "sd" THEN Unusable(SdProbe(s))
    ELSE IF s.p.work = "boot" /\ s.p.card = "mmc" THEN Unusable(mmc_send_op_cond(s))
    ELSE Then(SdProbe(s), LAMBDA t : IF t.err = "err" THEN Unusable(mmc_send_op_cond(t)) ELSE {t})

mmc_start_init(s) ==
    IF s.m.has_init THEN {Result(s, "ok")}
    ELSE AndThen(Reset(s), Probe)

mmc_complete_init(s) ==
    Then(AndThen(mmc_complete_op_cond(s), mmc_startup),
         LAMBDA t : {[t EXCEPT !.m.has_init = t.err = "ok"]})

\* Features of the card that the configuration forbids: the first one named.
Wiped(s) ==
    [s EXCEPT !.m.sec = @ \ (IF "SAN" \in s.p.wipe THEN {"SAN"} ELSE IF "ER" \in s.p.wipe THEN {"ER"}
                             ELSE s.p.wipe \cap {"GB"})]

mmc_init_boot(s) ==
    Then(Then(mmc_start_init(s),
              LAMBDA t : IF t.err \in {"ok", "inprogress"} THEN mmc_complete_init(t) ELSE {t}),
         LAMBDA u : {Wiped(u)})

\* The same steps with the retries that tuning allows.  A startup that failed and
\* is not tried again goes on to the tuning all the same.
RECURSIVE mmc_init_product(_)
mmc_init_product(s) ==
    LET Checked(t) == IF t.err = "ok" THEN [t EXCEPT !.rty = FALSE] ELSE sunxi_need_rty(t)
        On(S, F(_)) == UNION {LET u == Checked(t) IN IF u.rty THEN {u} ELSE F(u) : t \in S}
        Tune(t) == Then(AndThen(sunxi_write_tuning(sunxi_mmc_tuning_init(t)),
                     LAMBDA u : AndThen(sunxi_bus_tuning(u),
                       LAMBDA v : sunxi_switch_to_best_bus(sunxi_mmc_tuning_exit(v)))),
                     LAMBDA w : {[w EXCEPT !.rty = FALSE]})
        Start(t) == On({[u EXCEPT !.m.has_init = u.err = "ok"] : u \in mmc_startup(t)}, Tune)
        AsMmc(t) == On(Then(mmc_send_op_cond(t),
                            LAMBDA u : IF u.m.pend THEN mmc_complete_op_cond(u) ELSE {u}),
                       LAMBDA v : {IF v.err = "ok" THEN v ELSE Result(v, "no card")})
        AfterSd(t) == Then(IF t.err = "err" THEN On({t}, AsMmc) ELSE {t},
                           LAMBDA u : IF u.rty THEN {u}
                                      ELSE IF u.err = "no card" THEN {Result(u, "unusable")} ELSE Start(u))
    IN Then(AndThen(Reset([s EXCEPT !.rty = FALSE]),
                    LAMBDA t : On(mmc_send_if_cond(t), LAMBDA u : On(sd_send_op_cond(u), AfterSd))),
            LAMBDA v : IF v.rty THEN mmc_init_product(v) ELSE {v})

mmc_init(s) ==
    IF s.m.has_init THEN {Result(s, "ok")}
    ELSE IF s.p.auto /\ s.p.work # "boot" THEN mmc_init_product(s) ELSE mmc_init_boot(s)

-----------------------------------------------------------------------------
(* The controllers of the SoC and their configuration,                      *)
(* Drivers/SunxiSdMmcDxe/sunxi_host_mmc.c: controller 0 has the SD slot, 1  *)
(* the wireless chip, 2 the eMMC.  A configuration is a record fex with     *)
(*   wipe, erase, boot    the flags of sdc_wipe, sdc_erase and sdc_boot;    *)
(*   dly     sdc_ex_dly_used, or -1 when it is missing;                     *)
(*   manual  the delays of sdc_sdly_m_f, Unset where missing;               *)
(*   v18     sdc_io_1v8;     mask   sdc_dis_host_caps.                      *)

NoDelays == [md \in SpeedModes |-> [f \in Freqs |-> Unset]]
NoStrobe == [f \in Freqs |-> Unset]

mmc_clear_timing_para(h) ==
    [h EXCEPT !.sdly = NoDelays, !.dsdly = NoStrobe, !.def = NoDelays, !.defds = NoStrobe]

\* The defaults of controller 0, phases of 90 and 180 degrees, and of the delay
\* chain of controller 2.  Controller 1 has none.
PH90 == 1
PH180 == 2
Phases(f25, f50) == [f \in Freqs |-> IF f = 1 THEN f25 ELSE IF f = 2 THEN f50 ELSE Unset]

Mode1Delays ==
    [NoDelays EXCEPT ![DS26_SDR12] = [@ EXCEPT ![0] = PH180, ![1] = PH180],
                     ![HSSDR52_SDR25] = Phases(PH90, PH90),
                     ![HSDDR52_DDR50] = Phases(PH180, PH180),
                     ![HS200_SDR104] = Phases(PH90, PH90)]

Fast4 == (0 :> Unset) @@ (1 :> 0) @@ (2 :> 17) @@ (3 :> 18) @@ (4 :> 19) @@ (5 :> 6)

Mode4Delays ==
    [NoDelays EXCEPT ![DS26_SDR12] = [@ EXCEPT ![0] = 0, ![1] = 0], ![HSSDR52_SDR25] = [Phases(0, 0) EXCEPT ![0] = 0],
                     ![HSDDR52_DDR50] = [Phases(14, 14) EXCEPT ![0] = 14], ![HS200_SDR104] = Fast4, ![HS400] = Fast4]

mmc_init_default_timing_para(h) ==
    IF h.no = 2
    THEN [h EXCEPT !.spd = DS26_SDR12, !.freq = 0, !.def = Mode4Delays,
                   !.defds = (0 :> Unset) @@ (1 :> 0) @@ (2 :> 24) @@ (3 :> 13) @@ (4 :> 6) @@ (5 :> 3)]
    ELSE IF h.no = 0 THEN [h EXCEPT !.spd = DS26_SDR12, !.freq = 0, !.def = Mode1Delays] ELSE h

-----------------------------------------------------------------------------
(* The configuration. *)

FexWipe(p, fex) == [p EXCEPT !.nowipe = "all" \in fex.wipe, !.wipe = fex.wipe \ {"all"}]
FexErase(p, fex) == [p EXCEPT !.noerase = "off" \in fex.erase, !.sanitize = "sanitize" \in fex.erase]
FexBoot(p, fex) == [p EXCEPT !.bootpart = "boot" \in fex.boot, !.nouser = "nouser" \in fex.boot]

\* Controller 0 knows manual delays only.
FexSample(p, no, fex) ==
    [p EXCEPT !.sample = CASE no = 2 /\ fex.dly = 2 -> "auto" [] fex.dly = 1 -> "manual" [] OTHER -> "none",
              !.auto = no = 2 /\ fex.dly = 2,
              !.manual = IF fex.dly = 1 THEN fex.manual ELSE @]

FexCaps(p, no, fex) == [p EXCEPT !.v18 = no = 2 /\ fex.v18, !.mask = IF no = 2 THEN fex.mask ELSE {}]

mmc_get_para_from_fex(p, no, fex) ==
    IF no = 1 THEN p
    ELSE FexCaps(FexSample(FexBoot(FexErase(FexWipe(p, fex), fex), fex), no, fex), no, fex)

\* The delays that an earlier stage tuned are used when it has, which is at boot.
mmc_get_sdly_auto_sample(h, p) ==
    IF h.no # 2 \/ p.work # "boot" THEN h
    ELSE [h EXCEPT !.dsdly = p.packed[HS400], !.sdly = [md \in SpeedModes |-> IF md = HS400 THEN @[md] ELSE p.packed[md]]]

mmc_get_dly_manual_sample(h, p) ==
    CASE h.no = 2 -> [h EXCEPT !.dsdly = p.manual[HS400],
                               !.sdly = [md \in SpeedModes |-> IF md = HS400 THEN @[md] ELSE p.manual[md]]]
      [] h.no = 0 -> [h EXCEPT !.sdly = p.manual]
      [] OTHER -> h

\* What it returns is not looked at.
mmc_update_timing_para(h, p) ==
    CASE p.sample = "auto" -> mmc_get_sdly_auto_sample(h, p)
      [] p.sample = "manual" -> mmc_get_dly_manual_sample(h, p)
      [] OTHER -> IF h.no = 0 THEN [h EXCEPT !.sdly[HSDDR52_DDR50][2] = h.def[HSDDR52_DDR50][2]] ELSE h

-----------------------------------------------------------------------------
(* Controllers. *)

mmc_resource_init(h, no) == [h EXCEPT !.no = no]

\* A mode that is masked takes with it the modes that are reached through it.
HostCaps(no, p) ==
    LET all == {"4BIT", "HS", "HC", "HS52", "DDR52"} \cup (IF no = 2 THEN {"8BIT"} ELSE {}) \cup
               (IF p.v18 THEN {"HS200"} \cup (IF no = 2 THEN {"HS400"} ELSE {}) ELSE {})
        Through == ("HS400" :> {}) @@ ("HS200" :> {"HS400"}) @@ ("DDR52" :> {"HS400", "HS200"}) @@
                   ("HS52" :> {"DDR52", "HS400", "HS200"}) @@ ("8BIT" :> {"HS400"})
    IN all \ (p.mask \cup UNION {Through[x] : x \in p.mask})

mmc_create == [spd |-> DS26_SDR12, width |-> 0, clock |-> 0, tran |-> 0, ver |-> "none", rev |-> 0,
               caps |-> {}, lba |-> 0, user |-> 0, bootlba |-> 0, part_num |-> 0,
               grp |-> 0,
               sec |-> {}, tmo |-> {}, pend |-> FALSE, has_init |-> FALSE]

NoHost == [no |-> 0, mode |-> 0, clock |-> 0, clken |-> FALSE, width |-> 1, ddr |-> "sdr", spd |-> 0,
           freq |-> 0, samp |-> 0, ds |-> 0, sdly |-> NoDelays, def |-> NoDelays, dsdly |-> NoStrobe,
           defds |-> NoStrobe, fatal |-> FALSE, retry |-> 0, raw |-> "none", gate |-> FALSE, caps |-> {},
           fmax |-> 0]

\* Descriptors and the device structure are allocated, and never freed.
sunxi_sun50iw1p1_mmc_init(s, no, fex) ==
    LET h0 == mmc_init_default_timing_para(mmc_clear_timing_para(mmc_resource_init(NoHost, no)))
        h1 == [h0 EXCEPT !.mode = IF no = 2 THEN 4 ELSE 1, !.fmax = IF no = 0 THEN 50000000 ELSE 200000000]
        p == mmc_get_para_from_fex(s.p, no, fex)
        h2 == [mmc_update_timing_para(h1, p) EXCEPT !.caps = HostCaps(no, p)]
    IN mmc_clk_io_onoff([s EXCEPT !.h = h2, !.p = p, !.m = mmc_create, !.heap = @ + 2, !.err = "ok"], TRUE)

\* The host is zeroed, its operations with it.
sunxi_sun50iw1p1_mmc_exit(s) ==
    Result([mmc_clk_io_onoff(s, FALSE) EXCEPT !.h = NoHost], "ok")
=============================================================================
