------------------------------ MODULE MmcCore -------------------------------
(* The SD/MMC protocol of Drivers/SunxiSdMmcDxe/mmc.c: identification of a  *)
(* card, its bus width and speed mode, its hardware partitions, reading.    *)
(* See MmcHost for the state that the operators take and return.            *)
EXTENDS MmcHost

CONSTANTS OpCondPolls,   \* polls of the power-up (1000 in the code)
          BMax           \* blocks of one transfer, cfg->b_max

ASSUME CoreAssumption == OpCondPolls \in Nat \ {0} /\ BMax \in Nat \ {0}

SdVersions == {"SD_VERSION_1_0", "SD_VERSION_2"}
IS_SD(s) == s.m.ver \in SdVersions

\* Retried five times when it is not answered.  A card that stays busy past the
\* last poll, or reports an error, is an error.
RECURSIVE StatusPoll(_, _)
StatusPoll(s, retries) ==
    Then(mmc_send_cmd(s, Cmd("CMD13")),
         LAMBDA t : IF t.err # "ok"
                    THEN IF retries = 0 THEN {t} ELSE StatusPoll(t, retries - 1)
                    ELSE {[t EXCEPT !.c.busy = FALSE]} \cup
                         (IF t.c.busy /\ t.faults > 0 THEN {Result(Spend(t), "timeout")} ELSE {}))

mmc_send_status(s) == StatusPoll(s, 5)

mmc_set_blocklen(s) ==
    IF s.m.spd \in {HS400, HSDDR52_DDR50} THEN {Result(s, "ok")} ELSE mmc_send_cmd(s, Cmd("CMD16"))

mmc_send_manual_stop(s) == mmc_send_cmd(s, Cmd("CMD12"))

-----------------------------------------------------------------------------
(* Reading. *)

\* A transfer of several blocks is stopped, and the card's status looked at but
\* not acted upon.
mmc_read_blocks(s, start, n) ==
    LET data == [i \in 1..n |-> s.c.mem[start + i - 1]]
    IN AndThen(mmc_send_cmd(s, [c |-> "READ", data |-> "read", start |-> start, n |-> n]),
               LAMBDA t : LET u == [t EXCEPT !.data = @ \o data]
                          IN IF n = 1 THEN {u}
                             ELSE AndThen(mmc_send_manual_stop(u),
                                          LAMBDA v : Then(mmc_send_status(v), LAMBDA w : {Result(w, "ok")})))

RECURSIVE ReadChunks(_, _, _)
ReadChunks(s, start, todo) ==
    IF todo = 0 THEN {s}
    ELSE LET cur == IF todo > BMax THEN BMax ELSE todo
         IN AndThen(mmc_read_blocks(s, start, cur), LAMBDA t : ReadChunks(t, start + cur, todo - cur))

\* Returns 0 blocks on an error: here, an err.
mmc_bread(s, start, n) ==
    IF n = 0 \/ start + n > s.m.lba THEN {Result(s, "err")}
    ELSE AndThen(mmc_set_blocklen([s EXCEPT !.data = <<>>]), LAMBDA t : ReadChunks(t, start, n))

-----------------------------------------------------------------------------
(* Identification. *)

mmc_go_idle(s) == mmc_send_cmd(s, Cmd("CMD0"))

mmc_send_if_cond(s) ==
    AndThen(mmc_send_cmd(s, Cmd("CMD8")), LAMBDA t : {[t EXCEPT !.m.ver = "SD_VERSION_2"]})

RECURSIVE SdPoll(_, _)
SdPoll(s, timeout) ==
    AndThen(mmc_send_cmd(s, Cmd("CMD55")),
            LAMBDA t : AndThen(mmc_send_cmd(t, Cmd("ACMD41")),
                LAMBDA u : IF u.c.st = "ready" THEN {u}
                           ELSE IF timeout = 0 THEN {Result(u, "unusable")}
                           ELSE SdPoll(u, timeout - 1)))

sd_send_op_cond(s) ==
    AndThen(SdPoll(s, OpCondPolls),
            LAMBDA t : {[t EXCEPT !.m.ver = IF @ = "SD_VERSION_2" THEN @ ELSE "SD_VERSION_1_0"]})

mmc_send_op_cond_iter(s) == mmc_send_cmd(s, Cmd("CMD1"))

Unknown(s) == [s EXCEPT !.m.ver = "MMC_VERSION_UNKNOWN"]

\* Asks twice, the second time with the voltages the first answer offers.
mmc_send_op_cond(s) ==
    LET Ready(t) == {[Unknown(t) EXCEPT !.m.pend = FALSE]}
        Again(t) == AndThen(mmc_send_op_cond_iter(t),
                            LAMBDA u : IF u.c.st = "ready" THEN Ready(u) ELSE {Result(u, "inprogress")})
    IN Then(mmc_go_idle(s),
            LAMBDA t : AndThen(mmc_send_op_cond_iter([t EXCEPT !.m.pend = TRUE]),
                               LAMBDA u : IF u.c.st = "ready" THEN Ready(u) ELSE Again(u)))

RECURSIVE MmcPoll(_, _)
MmcPoll(s, timeout) ==
    AndThen(mmc_send_op_cond_iter(s),
            LAMBDA t : IF timeout = 0 THEN {Result(t, "unusable")}
                       ELSE IF t.c.st = "ready" THEN {Unknown(t)} ELSE MmcPoll(t, timeout - 1))

mmc_complete_op_cond(s) ==
    IF ~s.m.pend THEN {Result(s, "ok")} ELSE MmcPoll([s EXCEPT !.m.pend = FALSE], OpCondPolls)

-----------------------------------------------------------------------------
(* Extended CSD and SWITCH. *)

mmc_send_ext_csd(s) == mmc_send_cmd(s, ReadCmd("EXT_CSD"))

\* A SWITCH that fails is not an error: only what the card's status says counts.
mmc_do_switch(s, index, value) ==
    Then(mmc_send_cmd(s, [c |-> "SWITCH", data |-> "none", index |-> index, value |-> value]),
         LAMBDA t : Then(mmc_set_ios(t), LAMBDA u : AndThen(mmc_update_phase(u), mmc_send_status)))

mmc_switch(s, index, value) == mmc_do_switch(s, index, value)

\* A mode is entered when the host and the card have it; the driver's speed_mode
\* follows only once the card has switched.
SwitchTo(s, to) ==
    IF s.m.spd = to.mode THEN {Result(s, "ok")}
    ELSE IF to.host \notin s.h.caps THEN {Result(s, "err")}
    ELSE AndThen(mmc_send_ext_csd(s),
                 LAMBDA t : IF t.c.types \cap to.types = {} THEN {Result(t, "err")}
                            ELSE AndThen(mmc_switch(t, "HS_TIMING", to.timing),
                                         LAMBDA u : {[u EXCEPT !.m.spd = to.mode, !.m.caps = @ \cup {to.cap}]}))

\* The four modes that a SWITCH of HS_TIMING selects.
mmc_mmc_switch_to_ds == [mode |-> DS26_SDR12, host |-> "HS", types |-> {"HS26"}, timing |-> "bc", cap |-> "HS"]
mmc_mmc_switch_to_hs ==
    [mode |-> HSSDR52_SDR25, host |-> "HS", types |-> {"HS", "DDR52"}, timing |-> "hs", cap |-> "HS52"]
mmc_mmc_switch_to_hs200 ==
    [mode |-> HS200_SDR104, host |-> "HS200", types |-> {"HS200"}, timing |-> "hs200", cap |-> "HS200"]
mmc_mmc_switch_to_hs400 ==
    [mode |-> HS400, host |-> "HS400", types |-> {"HS400"}, timing |-> "hs400", cap |-> "HS400"]
SwitchTargets == {mmc_mmc_switch_to_ds, mmc_mmc_switch_to_hs, mmc_mmc_switch_to_hs200, mmc_mmc_switch_to_hs400}

mmc_mmc_switch_speed_mode(s, mode) ==
    IF \A to \in SwitchTargets : to.mode # mode THEN {Result(s, "err")}
    ELSE SwitchTo(s, CHOOSE to \in SwitchTargets : to.mode = mode)

mmc_check_buswidth(s, ddr, width) ==
    CASE width = 1 -> ~(~IS_SD(s) /\ \/ ddr /\ s.m.spd = HSSDR52_SDR25
                                     \/ s.m.spd \in {HSDDR52_DDR50, HS200_SDR104, HS400})
      [] width = 4 -> "4BIT" \in s.h.caps
      [] width = 8 -> "8BIT" \in s.h.caps /\ ~IS_SD(s)
      [] OTHER -> FALSE

mmc_set_bus_width(s, width) == mmc_set_ios([s EXCEPT !.m.width = width])

\* HS400 keeps the width its DDR predecessor set.
mmc_mmc_switch_bus_width(s, mode, width) ==
    IF mode = HS400 THEN {Result(s, "ok")}
    ELSE IF ~mmc_check_buswidth(s, mode = HSDDR52_DDR50, width) THEN {Result(s, "err")}
    ELSE AndThen(mmc_switch(s, "BUS_WIDTH", <<width, width # 1 /\ mode = HSDDR52_DDR50>>),
                 LAMBDA t : mmc_set_bus_width([t EXCEPT !.m.spd = IF mode = HSDDR52_DDR50 THEN mode ELSE @], width))

mmc_mmc_switch_bus_mode(s, mode, width) ==
    IF IS_SD(s) THEN {Result(s, "ok")}
    ELSE AndThen(mmc_mmc_switch_speed_mode(s, IF mode = HSDDR52_DDR50 THEN HSSDR52_SDR25 ELSE mode),
                 LAMBDA t : AndThen(mmc_mmc_switch_bus_width(t, mode, width),
                     LAMBDA u : {IF mode = HSDDR52_DDR50
                                 THEN [u EXCEPT !.m.spd = mode, !.m.caps = @ \cup {"DDR52"}] ELSE u}))

-----------------------------------------------------------------------------
(* Writing and erasing, Drivers/SunxiSdMmcDxe/mmc_write.c.  Addresses and   *)
(* lengths are in blocks.  An erase leaves in skip the ranges, <<from, nr>>, *)
(* that the caller has to wipe itself.                                      *)

EraseArgs == {"erase", "trim", "discard", "secerase", "sectrim1"}

-----------------------------------------------------------------------------
(* Writing. *)

mmc_write_blocks(s, start, n, v) ==
    IF start + n > s.m.lba THEN {Result(s, "err")}
    ELSE AndThen(mmc_send_cmd(s, [c |-> "WRITE", data |-> "write", start |-> start, n |-> n, value |-> v]),
                 LAMBDA t : AndThen(IF n > 1 THEN mmc_send_manual_stop(t) ELSE {t}, mmc_send_status))

RECURSIVE WriteChunks(_, _, _, _)
WriteChunks(s, start, todo, v) ==
    IF todo = 0 THEN {s}
    ELSE LET cur == IF todo > BMax THEN BMax ELSE todo
         IN AndThen(mmc_write_blocks(s, start, cur, v), LAMBDA t : WriteChunks(t, start + cur, todo - cur, v))

mmc_bwrite(s, start, n, v) ==
    IF n = 0 THEN {Result(s, "err")}
    ELSE AndThen(mmc_set_blocklen(s), LAMBDA t : WriteChunks(t, start, n, v))

\* Writes zeros; the card's own erase is not used.
mmc_berase(s, start, n) == mmc_bwrite(s, start, n, Blank)

-----------------------------------------------------------------------------
(* One erase command. *)

mmc_set_erase_start_addr(s, a) ==
    AndThen(mmc_send_cmd(s, [c |-> "CMD35", data |-> "none", value |-> a]), mmc_send_status)

mmc_set_erase_end_addr(s, a) ==
    AndThen(mmc_send_cmd(s, [c |-> "CMD36", data |-> "none", value |-> a]), mmc_send_status)

mmc_launch_erase(s) == mmc_send_cmd(s, Cmd("CMD38"))

\* What remains of the timeouts is whether they are zero: below revision 4 only
\* a plain erase has one, and a secure erase when the card gives a factor.
mmc_mmc_def_erase_timeout == {"erase"}

mmc_decode_ext_csd(c) ==
    mmc_mmc_def_erase_timeout \cup
    (IF c.rev >= 400 THEN {"trim", "discard"} \cup (IF c.mult THEN {"secerase", "sectrim1", "sectrim2"} ELSE {})
     ELSE {})

mmc_mmc_update_timeout(s) ==
    AndThen(mmc_send_ext_csd(s), LAMBDA t : {[t EXCEPT !.m.tmo = mmc_decode_ext_csd(t.c)]})

mmc_sd_erase_timeout(s, arg) == TRUE
mmc_mmc_erase_timeout(s, arg) == arg \in s.m.tmo
mmc_erase_timeout(s, arg) == IF IS_SD(s) THEN mmc_sd_erase_timeout(s, arg) ELSE mmc_mmc_erase_timeout(s, arg)

\* Without a timeout the erase, already launched, is an error.
mmc_do_erase(s, from, to, arg) ==
    Then(mmc_mmc_update_timeout(s),
         LAMBDA t : AndThen(mmc_set_erase_start_addr(t, from),
             LAMBDA u : AndThen(mmc_set_erase_end_addr(u, to),
                 LAMBDA v : AndThen(mmc_launch_erase(v),
                     LAMBDA w : IF mmc_erase_timeout(w, arg) THEN mmc_send_status(w) ELSE {Result(w, "err")}))))

-----------------------------------------------------------------------------
(* Ranges and erase groups. *)

mmc_erase_group_aligned(s, from, nr) ==
    LET g == s.m.grp IN g # 0 /\ from % g = 0 /\ nr % g = 0

\* The change that keeps the length when the start is rounded up.
MutAlign(s, from, nr) ==
    LET g == s.m.grp
        rem == from % g
        start == IF rem = 0 THEN from ELSE from + g - rem
    IN [from |-> start, nr |-> nr - (nr % g)]

\* The start is rounded up and the length down.  A range that ends within its
\* first group keeps its length, which mmc_erase then refuses.
mmc_align_erase_group(s, from, nr) ==
    LET g == s.m.grp
        rem == (g - (from % g)) % g
    IN IF rem # 0 /\ nr <= rem THEN [from |-> from + rem, nr |-> nr]
       ELSE [from |-> from + rem, nr |-> (nr - rem) - ((nr - rem) % g)]

mmc_erase(s, from, nr, arg) ==
    IF nr = 0 THEN {Result(s, "ok")}
    ELSE IF IS_SD(s) \/ arg \notin EraseArgs THEN {Result(s, "err")}
    ELSE IF arg \in {"erase", "secerase"} /\ ~mmc_erase_group_aligned(s, from, nr) THEN {Result(s, "err")}
    ELSE AndThen(mmc_do_erase(s, from, from + nr - 1, arg),
                 LAMBDA t : IF arg = "sectrim1" THEN mmc_do_erase(t, from, from + nr - 1, "sectrim2") ELSE {t})

mmc_do_sanitize(s) == mmc_do_switch(s, "SANITIZE_START", 1)

mmc_add_skip_space(s, from, nr) == [s EXCEPT !.skip = Append(@, <<from, nr>>)]

mmc_insecure_secure_erase(s, from, nr, secure) ==
    LET a == IF mmc_erase_group_aligned(s, from, nr) THEN [from |-> from, nr |-> nr]
             ELSE mmc_align_erase_group(s, from, nr)
        t == [s EXCEPT !.skip = <<>>]
        Head1(u) == IF a.from # from THEN mmc_add_skip_space(u, from, a.from - from) ELSE u
        last == a.from - from
        Tail1(u) == IF nr - a.nr - last # 0
                    THEN mmc_add_skip_space(u, a.from + a.nr, nr - a.nr - last) ELSE u
    IN IF a.nr = 0 THEN {Result(mmc_add_skip_space(t, from, nr), "err")}
       ELSE Then(mmc_erase(t, a.from, a.nr, IF secure THEN "secerase" ELSE "erase"),
                 LAMBDA u : IF u.err # "ok" THEN {mmc_add_skip_space(u, from, nr)} ELSE {Tail1(Head1(u))})

-----------------------------------------------------------------------------
(* The operations.  Their result is ok, skip (1: see skip) or an error. *)

\* By version: secure trim, secure erase or trim; from 4.5 an erase and sanitize.
mmc_do_secure_wipe(s, from, nr) ==
    LET t == [s EXCEPT !.skip = <<>>]
        OrSkip(S) == Then(S, LAMBDA u : {IF u.err # "ok" THEN mmc_add_skip_space(u, from, nr) ELSE u})
        Unsupported == {Result(mmc_add_skip_space(t, from, nr), "nosupport")}
        Early == IF "ER" \in s.m.sec
                 THEN IF "GB" \in s.m.sec THEN OrSkip(mmc_erase(t, from, nr, "sectrim1"))
                      ELSE mmc_insecure_secure_erase(t, from, nr, TRUE)
                 ELSE IF "GB" \in s.m.sec THEN OrSkip(mmc_erase(t, from, nr, "trim")) ELSE Unsupported
        Sanitized == AndThen(IF "GB" \in s.m.sec THEN OrSkip(mmc_erase(t, from, nr, "trim"))
                             ELSE mmc_insecure_secure_erase(t, from, nr, FALSE),
                             LAMBDA u : Then(mmc_do_sanitize(u),
                                 LAMBDA v : {IF v.err # "ok"
                                             THEN mmc_add_skip_space([v EXCEPT !.skip = <<>>], from, nr) ELSE v}))
    IN CASE nr = 0 -> {Result(s, "ok")}
         [] nr # 0 /\ IS_SD(s) -> {Result(s, "nosupport")}
         [] nr # 0 /\ ~IS_SD(s) /\ s.m.rev <= 441 -> Early
         [] nr # 0 /\ ~IS_SD(s) /\ s.m.rev \in 442..500 -> IF "SAN" \in s.m.sec THEN Sanitized ELSE Unsupported
         [] OTHER -> {Result(t, "nosupport")}

SkipOr(s) == IF s.err = "ok" /\ s.skip # <<>> THEN Result(s, "skip") ELSE s

mmc_secure_wipe(s, start, n) ==
    IF s.p.nowipe THEN {Result(s, "err")}
    ELSE Then(mmc_do_secure_wipe(s, start, n),
              LAMBDA t : {IF t.err = "ok" THEN SkipOr(t) ELSE Result(t, "err")})

\* A request past the end of the card is cut to what is there.
Cut(s, start, n) == IF start + n > s.m.lba THEN s.m.lba - start ELSE n

\* Whatever the erase returned, a range to skip makes the result 1.
mmc_mmc_erase(s, start, n) ==
    IF IS_SD(s) \/ s.p.noerase THEN {Result(s, "err")}
    ELSE IF n = 0 THEN {Result(s, "ok")}
    ELSE Then(mmc_insecure_secure_erase(s, start, Cut(s, start, n), FALSE),
              LAMBDA t : LET r == IF t.skip # <<>> THEN "skip" ELSE t.err
                         IN IF s.p.sanitize /\ "SAN" \in s.m.sec
                            THEN Then(mmc_do_sanitize(t), LAMBDA u : {Result(u, r)}) ELSE {Result(t, r)})

mmc_mmc_sanitize(s) ==
    IF IS_SD(s) \/ "SAN" \notin s.m.sec THEN {Result(s, "err")} ELSE mmc_do_sanitize(s)

Erasing(s, start, n, able, arg) ==
    IF IS_SD(s) THEN {Result(s, "err")}
    ELSE IF n = 0 THEN {Result(s, "ok")}
    ELSE IF ~able THEN {Result(s, "err")}
    ELSE mmc_erase(s, start, Cut(s, start, n), arg)

mmc_mmc_trim(s, start, n) == Erasing(s, start, n, "GB" \in s.m.sec, "trim")
mmc_mmc_discard(s, start, n) == Erasing(s, start, n, s.m.rev >= 450, "discard")
mmc_mmc_secure_trim(s, start, n) == Erasing(s, start, n, {"ER", "GB"} \subseteq s.m.sec, "sectrim1")

mmc_mmc_secure_erase(s, start, n) ==
    IF IS_SD(s) THEN {Result(s, "err")}
    ELSE IF n = 0 THEN {Result(s, "ok")}
    ELSE IF "ER" \notin s.m.sec THEN {Result(s, "err")}
    ELSE mmc_insecure_secure_erase(s, start, Cut(s, start, n), TRUE)
=============================================================================
