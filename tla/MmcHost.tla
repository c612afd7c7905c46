------------------------------ MODULE MmcHost ------------------------------
(* The SD/MMC host driver of Drivers/SunxiSdMmcDxe (sunxi_host0_2_v4p1.c)   *)
(* with the card and the controller it talks to.                            *)
(*                                                                          *)
(* The driver is sequential, its commands are not reliable: a function of   *)
(* the code is an operator from a state to the SET of the states it may     *)
(* leave, one per outcome of the commands it sends.  A state is a record    *)
(* with the fields                                                          *)
(*   m     struct mmc, what the driver believes of the card;                *)
(*   h     struct sunxi_mmc_host and the controller's registers;            *)
(*   c     the card;                                                        *)
(*   p     the platform: boot parameters read from the configuration;       *)
(*   err   the result of the last call ("ok", or the error returned);       *)
(*   rty   the answer of sunxi_need_rty;                                    *)
(*   faults   how many commands may still fail;                             *)
(*   over  a command was sent with the bus clock above the card's mode;     *)
(*   lost  a SWITCH command that never reached the card was reported done.  *)
EXTENDS Integers, FiniteSets, Sequences

CONSTANTS Pll6,        \* the peripheral PLL, MHz
          Points,      \* sample points of the delay chain (MODE_4: 64 in the code)
          RetryGap,    \* step between sample points tried again (8 in the code)
          Window       \* the sample points that read correctly at high speed

ASSUME HostAssumption ==
    /\ Pll6 \in Nat \ {0} /\ Points \in Nat \ {0} /\ RetryGap \in Nat \ {0}
    /\ Window \subseteq 0..(Points - 1)

\* Speed modes, sunxi_mmc.h.
DS26_SDR12 == 0
HSSDR52_SDR25 == 1
HSDDR52_DDR50 == 2
HS200_SDR104 == 3
HS400 == 4
SpeedModes == 0..4
Freqs == 0..5

Unset == 255           \* 0xFF, a delay that nobody chose
Blank == 0             \* an erased block

-----------------------------------------------------------------------------
(* Sequencing: go on whatever the outcome, or only when it was no error. *)
Then(S, F(_)) == UNION {F(s) : s \in S}
AndThen(S, F(_)) == UNION {IF s.err = "ok" THEN F(s) ELSE {s} : s \in S}
Result(s, e) == [s EXCEPT !.err = e]

-----------------------------------------------------------------------------
(* The card. *)

\* What the card expects on the data lines.
CardMode(c) == IF c.timing = "hs400" THEN "hs400" ELSE IF c.ddr THEN "ddr" ELSE "sdr"

\* The highest clock of the card's present mode, with the 5% that the rounding of
\* the divider can add.
ClockLimit(c) ==
    LET f == IF c.st \in {"idle", "ready", "ident"} THEN 400000
             ELSE CASE c.timing = "bc" -> 26000000
                    [] c.timing = "hs" -> 52000000
                    [] OTHER -> 200000000
    IN f + f \div 20

InTransfer(c) == c.st = "tran"

\* The commands a card answers in its present state.
Answers(c, k) ==
    CASE k.c = "CMD0" -> TRUE
      [] k.c = "CMD8" -> c.kind = "sd" /\ c.v2 /\ c.st = "idle"
      [] k.c \in {"CMD55", "ACMD41"} /\ c.st \in {"idle", "ready"} -> c.kind = "sd"
      [] k.c = "CMD1" -> c.kind = "mmc" /\ c.st \in {"idle", "ready"}
      [] k.c = "CMD2" -> c.st = "ready"
      [] k.c = "CMD3" -> c.st = "ident"
      [] k.c \in {"CMD9", "CMD7"} -> c.st = "stby"
      [] k.c = "CMD13" -> c.st \in {"stby", "tran"}
      [] k.c = "EXT_CSD" -> InTransfer(c) /\ c.kind = "mmc"
      [] k.c \in {"READ", "WRITE"} -> InTransfer(c) /\ k.start + k.n - 1 \in DOMAIN c.mem
      [] OTHER -> InTransfer(c)

\* What a command does to the card.
CardDoes(c, k) ==
    CASE k.c = "CMD0" -> [c EXCEPT !.st = "idle", !.timing = "bc", !.width = 1, !.ddr = FALSE,
                                   !.busy = FALSE, !.pwr = c.slow]
      [] k.c \in {"ACMD41", "CMD1"} ->
           IF c.pwr > 0 THEN [c EXCEPT !.pwr = @ - 1] ELSE [c EXCEPT !.st = "ready"]
      [] k.c = "CMD2" -> [c EXCEPT !.st = "ident"]
      [] k.c = "CMD3" -> [c EXCEPT !.st = "stby"]
      [] k.c = "CMD7" -> [c EXCEPT !.st = "tran"]
      [] k.c = "ACMD6" -> [c EXCEPT !.width = 4]
      [] k.c = "SD_HS" -> [c EXCEPT !.timing = "hs"]
      [] k.c = "SWITCH" ->
           CASE k.index = "HS_TIMING" -> [c EXCEPT !.timing = k.value, !.busy = TRUE]
             [] k.index = "BUS_WIDTH" -> [c EXCEPT !.width = k.value[1], !.ddr = k.value[2], !.busy = TRUE]
             [] OTHER -> [c EXCEPT !.busy = TRUE]
      [] k.c = "WRITE" -> [c EXCEPT !.mem = [a \in DOMAIN @ |->
                                        IF a \in k.start..(k.start + k.n - 1) THEN k.value ELSE @[a]],
                                    !.busy = TRUE]
      [] k.c = "CMD35" -> [c EXCEPT !.from = k.value]
      [] k.c = "CMD36" -> [c EXCEPT !.to = k.value]
      [] k.c = "CMD38" -> [c EXCEPT !.mem = [a \in DOMAIN @ |->
                                        IF a \in c.from..c.to THEN Blank ELSE @[a]],
                                    !.busy = TRUE]
      [] OTHER -> c

\* Data crosses the bus when both sides use the same width and mode, and the
\* controller samples where the signal is stable.
Reads(s) ==
    /\ s.h.width = s.c.width /\ s.h.ddr = CardMode(s.c)
    /\ \/ s.h.spd \in {DS26_SDR12, HSSDR52_SDR25}
       \/ (IF s.h.ddr = "hs400" THEN s.h.ds ELSE s.h.samp) \in Window

-----------------------------------------------------------------------------
(* Clocks. *)

sunxi_clock_get_pll6 == Pll6

SourceHz(src) == IF src = 0 THEN 24000000 ELSE sunxi_clock_get_pll6 * 2 * 1000000

\* The divider is rounded to the nearest, (2 * sclk + clk) / (2 * clk).
mmc_set_mclk(clk) ==
    LET src == IF clk <= 4000000 THEN 0 ELSE 1
        q == SourceHz(src) \div clk
        r == SourceHz(src) % clk
        near == IF 2 * r >= clk THEN q + 1 ELSE q
        div == IF near = 0 THEN 1 ELSE near
        n == IF div > 128 THEN 0 ELSE IF div > 64 THEN 3 ELSE IF div > 32 THEN 2
             ELSE IF div > 16 THEN 1 ELSE 0
    IN [src |-> src, n |-> n, m |-> IF div > 128 THEN 0 ELSE (div \div 2^n) - 1]

mmc_get_mclk(r) == (SourceHz(r.src) \div 2^(r.n)) \div ((r.m % 16) + 1)

\* The clock of a command is updated by a command of its own, which may not end.
mmc_update_clk(s) ==
    {Result(s, "ok")} \cup
    (IF s.faults > 0 THEN {[Result(s, "err") EXCEPT !.faults = @ - 1]} ELSE {})

mmc_update_phase(s) == IF s.h.mode = 1 THEN mmc_update_clk(s) ELSE {Result(s, "ok")}

FreqId(clk) ==
    CASE clk <= 400000 -> 0 [] clk <= 26000000 -> 1 [] clk <= 52000000 -> 2
      [] clk <= 100000000 -> 3 [] clk <= 150000000 -> 4 [] clk <= 200000000 -> 5
      [] OTHER -> 1

Chosen(dly, def) == IF dly # Unset THEN dly ELSE def

\* HS400 samples with the delay found for HS200, and adds one for the data strobe.
mmc_config_delay(s) ==
    LET f == s.h.freq
        md == IF s.h.mode = 4 /\ s.h.spd = HS400 THEN HS200_SDR104 ELSE s.h.spd
    IN [s EXCEPT !.h.samp = Chosen(s.h.sdly[md][f], s.h.def[md][f]) % Points,
                 !.h.ds = IF s.h.spd = HS400 /\ s.h.mode = 4
                          THEN Chosen(s.h.dsdly[f], s.h.defds[f]) % Points ELSE @]

\* DDR with a clock of four times the bus: always in mode 1, with 8 lines in mode 4.
Quad(s) == s.m.spd = HSDDR52_DDR50 /\ (s.h.mode = 1 \/ s.m.width = 8)

\* The module clock is reprogrammed, and mmc->clock becomes what the divider gives.
mmc_config_clock_modex(s, clk) ==
    LET factor == IF Quad(s) THEN 4 ELSE 2
        actual == mmc_get_mclk(mmc_set_mclk(clk * factor)) \div factor
        t == [s EXCEPT !.m.clock = actual, !.h.clock = actual]
    IN AndThen(mmc_update_clk(t),
               LAMBDA u : {Result(mmc_config_delay([u EXCEPT !.h.spd = u.m.spd, !.h.freq = FreqId(clk)]), "ok")})

\* The result of mmc_config_clock_modex is not looked at.
mmc_config_clock(s, clk) ==
    AndThen(mmc_update_clk([s EXCEPT !.h.clken = FALSE]),
            LAMBDA t : Then(mmc_config_clock_modex(t, clk),
                            LAMBDA u : mmc_update_clk([u EXCEPT !.h.clken = TRUE])))

mmc_ddr_mode_onoff(h, on) == [h EXCEPT !.ddr = IF on THEN "ddr" ELSE IF @ = "ddr" THEN "sdr" ELSE @]

\* Only the third controller has the data strobe.
mmc_hs400_mode_onoff(h, on) ==
    IF h.no # 2 THEN h
    ELSE [h EXCEPT !.ddr = IF on THEN "hs400" ELSE IF @ = "hs400" THEN "sdr" ELSE @]

mmc_set_ddr_mode(s) ==
    LET spd == s.m.spd
    IN [s EXCEPT !.h = mmc_hs400_mode_onoff(mmc_ddr_mode_onoff(@, spd = HSDDR52_DDR50), spd = HS400)]

\* A clock that cannot be set makes every later command fail.
mmc_set_ios(s) ==
    Then(IF s.m.clock = 0 THEN {Result(s, "ok")} ELSE mmc_config_clock(s, s.m.clock),
         LAMBDA t : IF t.err # "ok" THEN {[Result(t, "ok") EXCEPT !.h.fatal = TRUE]}
                    ELSE {mmc_set_ddr_mode([t EXCEPT !.h.width = IF t.m.width \in {4, 8} THEN t.m.width ELSE 1])})

\* Calibration runs the clock at 100 MHz: the card is not accessed meanwhile.
mmc_calibrate_delay_unit(s) ==
    AndThen(mmc_update_clk([s EXCEPT !.h.clken = FALSE]),
            LAMBDA t : Then(mmc_config_clock_modex(t, 100000000), LAMBDA u : {Result(u, "ok")}))

\* The core is reset; what calibration returns is dropped.
mmc_core_init(s) ==
    Then(mmc_calibrate_delay_unit([s EXCEPT !.h.ddr = IF @ = "ddr" THEN "sdr" ELSE @]),
         LAMBDA t : {Result(t, "ok")})

-----------------------------------------------------------------------------
(* Commands. *)

mmc_clk_io_onoff(s, on) == [s EXCEPT !.h.gate = on]

\* The registers that survive a reset of the controller: gctrl is saved after it
\* has been written to reset it, so that its DDR bit does not.
mmc_save_regs(h) == [width |-> h.width, ddr |-> IF h.ddr = "ddr" THEN "sdr" ELSE h.ddr,
                     samp |-> h.samp, ds |-> h.ds, clken |-> h.clken]

mmc_restore_regs(h, bak) ==
    [h EXCEPT !.width = bak.width, !.ddr = bak.ddr, !.samp = bak.samp, !.ds = bak.ds, !.clken = bak.clken]

\* After an error: record its cause, reset and gate the controller, restore it.
Recover(s, raw) ==
    LET bak == mmc_save_regs(s.h)
        t == mmc_clk_io_onoff(mmc_clk_io_onoff(s, FALSE), TRUE)
    IN Result([t EXCEPT !.h = [mmc_restore_regs(@, bak) EXCEPT !.raw = raw]], "err")

\* A DMA transfer needs descriptors of at most SDXC_DES_BUFFER_MAX_LEN bytes.
mmc_trans_data_by_dma(bytes, max) ==
    LET frags == bytes \div max + (IF bytes % max # 0 THEN 1 ELSE 0)
        remain == IF bytes % max # 0 THEN bytes % max ELSE max
    IN [i \in 1..frags |-> [addr |-> (i - 1) * max, len |-> IF i < frags THEN max ELSE remain,
                            first |-> i = 1, last |-> i = frags]]

Spend(s) == [s EXCEPT !.faults = @ - 1]

\* Not sent after a fatal error.  An automatic CMD12 only waits for the card.  Any
\* other command may be lost, or be executed and its answer or data be lost; of a
\* write of several blocks the first may be written and the rest not.
mmc_send_cmd(s, k) ==
    LET t == [s EXCEPT !.over = @ \/ s.h.clock > ClockLimit(s.c)]
        done == [t EXCEPT !.c = CardDoes(@, k)]
        seen == [t EXCEPT !.lost = @ \/ k.c = "SWITCH"]
    IN IF s.h.fatal THEN {Result(s, "err")}
       ELSE IF k.c = "CMD12"
            THEN {Result(t, "ok")} \cup (IF s.faults > 0 THEN {Recover(Spend(t), "sw")} ELSE {})
       ELSE (IF ~Answers(s.c, k) THEN {Recover(t, "RTO")}
             ELSE IF k.data # "none" /\ ~Reads(s) THEN {Recover(t, "DCE")}
             ELSE {Result(done, "ok")})
            \cup (IF s.faults = 0 \/ ~Answers(s.c, k) THEN {}
                  ELSE {Recover(Spend(seen), "RTO"), Recover(Spend(done), "RCE")} \cup
                       {Recover(Spend([t EXCEPT !.c = CardDoes(@, [k EXCEPT !.n = 1])]), "DCE")
                            : i \in IF k.c = "WRITE" /\ k.n > 1 THEN {1} ELSE {}})

Cmd(c) == [c |-> c, data |-> "none"]
ReadCmd(c) == [c |-> c, data |-> "read"]

\* Whether the sample point is moved on and the work done again: after an error of
\* the transfer, never after a command that was not answered.
sunxi_decide_rty(s, raw, rst) ==
    LET t == IF rst THEN [s EXCEPT !.h.retry = 0] ELSE s
        u == [t EXCEPT !.h.retry = @ + 1]
        gap == IF s.h.mode = 1 THEN 1 ELSE RetryGap
        cnt == IF s.h.mode = 1 THEN 3 ELSE Points
        Move(d) == (IF d + gap < cnt THEN d + gap ELSE d + gap - cnt) % 256
    IN IF raw \notin {"RCE", "DCE", "all"} THEN [t EXCEPT !.rty = FALSE]
       ELSE IF u.h.retry * gap >= cnt THEN [u EXCEPT !.rty = FALSE]
       ELSE IF s.h.mode = 4 /\ s.h.spd = HS400
            THEN [u EXCEPT !.h.dsdly[s.h.freq] = Move(@), !.h.raw = "none", !.rty = TRUE]
            ELSE [u EXCEPT !.h.sdly[s.h.spd][s.h.freq] = Move(@), !.h.raw = "none", !.rty = TRUE]

sunxi_detail_errno(s) == [s EXCEPT !.h.raw = "none"]
=============================================================================
