------------------------------- MODULE MCMmc -------------------------------
(* Small cards and configurations for MmcStorage. *)
EXTENDS MmcStorage

MCWindow == 2..6
MCRanges == {<<1, 1>>, <<5, 4>>, <<9, 2>>, <<9, 3>>, <<2, 9>>}
MCValues == {1}

Size == 12
User == [a \in 0..(Size - 1) |-> 5]

Emmc(types, rev, sec, slow, boots) ==
    [kind |-> "mmc", v2 |-> FALSE, types |-> types, rev |-> rev, st |-> "tran", timing |-> "bc", width |-> 8,
     ddr |-> FALSE, busy |-> FALSE, pwr |-> 0, slow |-> slow,
     mem |-> User, from |-> 0, to |-> 0, grp |-> 2, boots |-> boots, enh |-> TRUE,
     mult |-> TRUE, sec |-> sec]
Sd(v2, types, slow) ==
    [Emmc(types, 0, {}, slow, 0) EXCEPT !.kind = "sd", !.v2 = v2, !.st = "idle", !.width = 1, !.enh = FALSE]

All == {"HS26", "HS", "DDR52", "HS200", "HS400"}
Plain == [wipe |-> {}, erase |-> {}, boot |-> {}, dly |-> -1, manual |-> NoDelays, v18 |-> FALSE, mask |-> {}]
Tuned == [NoDelays EXCEPT ![HS200_SDR104] = [f \in Freqs |-> 3]]
ManualDelays == [md \in SpeedModes |-> [f \in Freqs |-> 4]]

Setup(no, card, work, guess, fex, faults, calls) ==
    [no |-> no, card |-> card, work |-> work, guess |-> guess, fex |-> fex, faults |-> faults, calls |-> calls, packed |-> Tuned]

MCSetups == {
    Setup(0, Sd(TRUE, {"HS"}, 1), "boot", "sd", Plain, 2, 2),
    Setup(0, Sd(FALSE, {}, 2), "product", "none", [Plain EXCEPT !.dly = 1, !.manual = ManualDelays], 1, 2),
    Setup(1, Sd(TRUE, {"HS"}, 1), "boot", "none", Plain, 1, 2),
    Setup(2, Emmc({"HS26"}, 300, {}, 0, 0), "boot", "none", Plain, 1, 3),
    Setup(2, Emmc({"HS26", "HS", "DDR52"}, 441, {"ER", "GB"}, 1, 2), "boot", "mmc",
          [Plain EXCEPT !.boot = {"boot"}, !.erase = {"sanitize"}], 1, 2),
    Setup(2, Emmc({"HS26", "HS"}, 430, {"ER"}, 1, 2), "boot", "mmc",
          [Plain EXCEPT !.boot = {"boot", "nouser"}, !.wipe = {"GB"}], 1, 2),
    Setup(2, Emmc(All, 450, {"SAN"}, 1, 0), "boot", "mmc",
          [Plain EXCEPT !.dly = 2, !.v18 = TRUE, !.wipe = {"all"}, !.erase = {"off"}], 1, 2),
    Setup(2, Emmc(All, 450, {"SAN", "GB"}, 0, 2), "product", "none", [Plain EXCEPT !.dly = 2, !.v18 = TRUE], 1, 2),
    Setup(2, Emmc(All, 500, {"SAN"}, 0, 2), "product", "none",
          [Plain EXCEPT !.dly = 2, !.v18 = TRUE, !.mask = {"HS400"}], 0, 2)}
=============================================================================
