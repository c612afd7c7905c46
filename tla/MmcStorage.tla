----------------------------- MODULE MmcStorage -----------------------------
(* What the rest of the firmware calls of the SD/MMC driver: mmc_op.c and   *)
(* the block operations of sunxi_mmc_interface.c.  A call is one action,    *)
(* with every outcome of the commands it sends.                             *)
(*                                                                          *)
(* On the user area of the eMMC lies the secure storage, two copies of each *)
(* item, from SecureStart on.  The block operations refuse it; the logical  *)
(* and physical ones do not, and their card offset is always 0.  Boot files *)
(* are written like any other block: mmc_burn_boot and mmc_get_boot, which  *)
(* know of the boot partitions, are called below block                      *)
(* CONFIG_MMC_LOGICAL_OFFSET, which is 0, and so never.                     *)
EXTENDS MmcInit

CONSTANTS SecureStart,     \* SDMMC_SECURE_STORAGE_START_ADD
          ItemSize,        \* SDMMC_ITEM_SIZE, the blocks of one copy
          MaxItem,         \* MAX_SECURE_STORAGE_MAX_ITEM
          Setups,          \* the controllers, cards and configurations considered,
                           \* with the bounds: commands that fail, and calls
          Ranges,          \* the ranges <<start, n>> of a call
          Values           \* what is written

ASSUME StorageAssumption ==
    /\ SecureStart \in Nat /\ ItemSize \in Nat \ {0} /\ MaxItem \in Nat \ {0}
    /\ Blank \notin Values /\ Ranges \subseteq Nat \X Nat

VARIABLES dev,     \* the state that MmcHost describes
          last     \* the last call, its result and the state before it

storeVars == <<dev, last>>

-----------------------------------------------------------------------------
(* Boot files. *)

\* start + blkcnt, unsigned, is never below CONFIG_MMC_LOGICAL_OFFSET.
mmc_bwrite_mass_pro(s, start, n, v) == mmc_bwrite(s, start, n, v)

mmc_bread_mass_pro(s, start, n) == mmc_bread(s, start, n)

-----------------------------------------------------------------------------
(* Secure storage. *)

AreaLength == ItemSize * 2 * MaxItem
SecureEnd == SecureStart + AreaLength - 1

check_secure_area(start, n) ==
    LET end == start + n - 1
    IN IF n <= AreaLength
       THEN start \in SecureStart..SecureEnd \/ end \in SecureStart..SecureEnd
       ELSE SecureStart \in start..end \/ SecureEnd \in start..end

Outside(s, start, n, Op(_)) == IF check_secure_area(start, n) THEN {Result(s, "err")} ELSE Op(s)

\* An item of MaxItem is let through, one too many.
ItemStart(item, copy) == SecureStart + ItemSize * 2 * item + ItemSize * copy
ItemRefused(item, n) == item > MaxItem \/ n > ItemSize

sdmmc_secure_storage_write(s, item, n, v) ==
    IF ItemRefused(item, n) THEN {Result(s, "err")}
    ELSE AndThen(mmc_bwrite(s, ItemStart(item, 0), n, v), LAMBDA t : mmc_bwrite(t, ItemStart(item, 1), n, v))

\* The change that returns the first copy without comparing.
Mut_storage_read(s, item, n) ==
    IF ItemRefused(item, n) THEN {Result(s, "err")} ELSE mmc_bread(s, ItemStart(item, 0), n)

sdmmc_secure_storage_read(s, item, n) ==
    IF ItemRefused(item, n) THEN {Result(s, "err")}
    ELSE AndThen(mmc_bread(s, ItemStart(item, 0), n),
                 LAMBDA t : AndThen(mmc_bread(t, ItemStart(item, 1), n),
                     LAMBDA u : {IF t.data = u.data THEN u ELSE Result(u, "err")}))

sdmmc_secure_storage_read_backup(s, item, n) ==
    IF ItemRefused(item, n) THEN {Result(s, "err")} ELSE mmc_bread(s, ItemStart(item, 1), n)

mmc_bread_secure(s, a, n) == Outside(s, a, n, LAMBDA t : mmc_bread(t, a, n))
mmc_bwrite_secure(s, a, n, v) == Outside(s, a, n, LAMBDA t : mmc_bwrite(t, a, n, v))
mmc_berase_secure(s, a, n) == Outside(s, a, n, LAMBDA t : mmc_berase(t, a, n))
mmc_bwrite_mass_pro_secure(s, a, n, v) == Outside(s, a, n, LAMBDA t : mmc_bwrite_mass_pro(t, a, n, v))
mmc_bread_mass_pro_secure(s, a, n) == Outside(s, a, n, LAMBDA t : mmc_bread_mass_pro(t, a, n))
mmc_secure_wipe_secure(s, a, n) == Outside(s, a, n, LAMBDA t : mmc_secure_wipe(t, a, n))
mmc_mmc_erase_secure(s, a, n) == Outside(s, a, n, LAMBDA t : mmc_mmc_erase(t, a, n))
mmc_mmc_trim_secure(s, a, n) == Outside(s, a, n, LAMBDA t : mmc_mmc_trim(t, a, n))
mmc_mmc_discard_secure(s, a, n) == Outside(s, a, n, LAMBDA t : mmc_mmc_discard(t, a, n))
mmc_mmc_secure_erase_secure(s, a, n) == Outside(s, a, n, LAMBDA t : mmc_mmc_secure_erase(t, a, n))
mmc_mmc_secure_trim_secure(s, a, n) == Outside(s, a, n, LAMBDA t : mmc_mmc_secure_trim(t, a, n))
mmc_mmc_sanitize_secure(s) == mmc_mmc_sanitize(s)

-----------------------------------------------------------------------------
(* mmc_op.c.  Without the boot partition support that nothing switches on, the *)
(* physical and the logical operations differ only in the offset.           *)

sunxi_mmc_init(s) == sunxi_sun50iw1p1_mmc_init(s, s.p.no, s.p.fex)
sunxi_mmc_exit(s) == sunxi_sun50iw1p1_mmc_exit(s)

SDMMC_PhyInit(s) == {sunxi_mmc_init(s)}
SDMMC_PhyExit(s) == {sunxi_mmc_exit(s)}
SDMMC_PhyRead(s, a, n) == mmc_bread(s, a, n)
SDMMC_PhyWrite(s, a, n, v) == mmc_bwrite(s, a, n, v)
SDMMC_PhyErase(s, a, n) == mmc_berase(s, a, n)
SDMMC_PhyDiskSize(s) == {[Result(s, "ok") EXCEPT !.m.lba = s.m.user]}

\* The controller of the wireless chip is set up, and its clock, but no card.
SDMMC1(s) == Then(SDMMC_PhyInit(s), LAMBDA t : mmc_set_clock(t, 50000000))

SDMMC_LogicalInit(s, offset) == mmc_init(sunxi_mmc_init([s EXCEPT !.p.offset = offset]))

SDMMC_LogicalExit(s) == SDMMC_PhyExit([s EXCEPT !.p.offset = 0])

InUserPart(s, Op(_)) == IF s.m.part_num # 0 THEN {Result(s, "err")} ELSE Op(s)

SDMMC_LogicalRead(s, a, n) == InUserPart(s, LAMBDA t : mmc_bread(t, a + t.p.offset, n))
SDMMC_LogicalWrite(s, a, n, v) == InUserPart(s, LAMBDA t : mmc_bwrite(t, a + t.p.offset, n, v))
SDMMC_LogicaErase(s, a, n) == InUserPart(s, LAMBDA t : mmc_berase(t, a + t.p.offset, n))
SDMMC_LogicalDiskSize(s) == InUserPart(s, SDMMC_PhyDiskSize)

SDMMC_BootFileWrite(s, a, n, v) == mmc_bwrite_mass_pro_secure(s, a, n, v)

\* The eMMC is put back to where a boot loader finds it, and its clock stopped.
\* has_init stays set: only the controller's initialisation makes it usable again.
mmc_exit(s) ==
    LET AsMmc(t) == Then(mmc_send_op_cond(t), LAMBDA u : IF u.m.pend THEN mmc_complete_op_cond(u) ELSE {u})
    IN IF s.h.no # 2 THEN {Result(s, "err")}
       ELSE AndThen(Reset(s),
              LAMBDA t : Then(IF IS_SD(t) THEN SdProbe(t) ELSE AsMmc(t),
                LAMBDA u : {IF u.err = "ok" THEN mmc_clk_io_onoff(u, FALSE) ELSE Result(u, "unusable")}))

-----------------------------------------------------------------------------
(* The calls. *)

Call(op, a, n, v, S) ==
    /\ last.calls < last.most
    /\ \E t \in S : dev' = t
    /\ last' = [op |-> op, a |-> a, n |-> n, v |-> v, before |-> dev.c, faults |-> dev.faults,
                calls |-> last.calls + 1, most |-> last.most]

Usable == dev.h.mode # 0 /\ dev.m.has_init

LogicalInit == dev.p.no # 1 /\ Call("init", 0, 0, 0, SDMMC_LogicalInit(dev, 0))
LogicalExit == dev.h.mode # 0 /\ Call("exit", 0, 0, 0, SDMMC_LogicalExit(dev))
MmcExit == dev.h.mode # 0 /\ Call("leave", 0, 0, 0, mmc_exit(dev))
PhyInit == dev.p.no = 1 /\ Call("phy", 0, 0, 0, SDMMC1(dev))
DiskSize == Usable /\ Call("size", 0, 0, 0, SDMMC_LogicalDiskSize(dev))

LogicalRead == Usable /\ \E r \in Ranges :
    Call("read", r[1] + dev.p.offset, r[2], 0, SDMMC_LogicalRead(dev, r[1], r[2]))
LogicalWrite == Usable /\ \E r \in Ranges, v \in Values :
    Call("write", r[1] + dev.p.offset, r[2], v, SDMMC_LogicalWrite(dev, r[1], r[2], v))
LogicaErase == Usable /\ \E r \in Ranges :
    Call("write", r[1] + dev.p.offset, r[2], Blank, SDMMC_LogicaErase(dev, r[1], r[2]))

BootFileWrite == Usable /\ \E r \in Ranges, v \in Values :
    Call("write", r[1], r[2], v, SDMMC_BootFileWrite(dev, r[1], r[2], v))
BootFileRead == Usable /\ \E r \in Ranges :
    Call("read", r[1], r[2], 0, mmc_bread_mass_pro_secure(dev, r[1], r[2]))

BlockRead == Usable /\ \E r \in Ranges : Call("read", r[1], r[2], 0, mmc_bread_secure(dev, r[1], r[2]))
BlockWrite == Usable /\ \E r \in Ranges, v \in Values :
    Call("write", r[1], r[2], v, mmc_bwrite_secure(dev, r[1], r[2], v))
BlockErase == Usable /\ \E r \in Ranges : Call("write", r[1], r[2], Blank, mmc_berase_secure(dev, r[1], r[2]))

SecureWrite == Usable /\ \E item \in 0..(MaxItem + 1), n \in ItemSize..(ItemSize + 1), v \in Values :
    Call("secure_write", item, n, v, sdmmc_secure_storage_write(dev, item, n, v))
SecureRead == Usable /\ \E item \in 0..(MaxItem - 1) :
    Call("secure_read", item, ItemSize, 0, sdmmc_secure_storage_read(dev, item, ItemSize))
SecureReadBackup == Usable /\ \E item \in 0..(MaxItem - 1) :
    Call("read", ItemStart(item, 1), ItemSize, 0, sdmmc_secure_storage_read_backup(dev, item, ItemSize))

Erase(op, S(_, _, _)) ==
    Usable /\ \E r \in Ranges : r[1] < dev.m.lba /\ Call(op, r[1], r[2], 0, S(dev, r[1], r[2]))

SecureWipe == Erase("erase", mmc_secure_wipe_secure)
MmcErase == Erase("erase", mmc_mmc_erase_secure)
MmcTrim == Erase("trim", mmc_mmc_trim_secure)
MmcDiscard == Erase("trim", mmc_mmc_discard_secure)
MmcSecureErase == Erase("erase", mmc_mmc_secure_erase_secure)
MmcSecureTrim == Erase("trim", mmc_mmc_secure_trim_secure)
MmcSanitize == Usable /\ Call("sanitize", 0, 0, 0, mmc_mmc_sanitize_secure(dev))

PhyRead == Usable /\ \E r \in Ranges : Call("read", r[1], r[2], 0, SDMMC_PhyRead(dev, r[1], r[2]))
PhyWrite == Usable /\ \E r \in Ranges, v \in Values :
    Call("write", r[1], r[2], v, SDMMC_PhyWrite(dev, r[1], r[2], v))
PhyErase == Usable /\ \E r \in Ranges : Call("write", r[1], r[2], Blank, SDMMC_PhyErase(dev, r[1], r[2]))

\* Before the driver is loaded: a card that the boot ROM left somewhere.
Init ==
    \E x \in Setups :
      /\ dev = [m |-> mmc_create, h |-> NoHost, c |-> x.card, err |-> "ok", rty |-> FALSE,
                p |-> [work |-> x.work, card |-> x.guess, no |-> x.no, fex |-> x.fex, offset |-> 0,
                       auto |-> FALSE, sample |-> "none", manual |-> NoDelays, packed |-> x.packed,
                       nowipe |-> FALSE, wipe |-> {}, noerase |-> FALSE, sanitize |-> FALSE,
                       bootpart |-> FALSE, nouser |-> FALSE, v18 |-> FALSE, mask |-> {}],
                faults |-> x.faults, over |-> FALSE, lost |-> FALSE, data |-> <<>>, skip |-> <<>>, heap |-> 0]
      /\ last = [op |-> "none", a |-> 0, n |-> 0, v |-> 0, before |-> x.card, faults |-> x.faults, calls |-> 0,
                 most |-> x.calls]

Next ==
    \/ LogicalInit \/ LogicalExit \/ MmcExit \/ PhyInit \/ DiskSize
    \/ LogicalRead \/ LogicalWrite \/ LogicaErase \/ BootFileWrite \/ BootFileRead
    \/ BlockRead \/ BlockWrite \/ BlockErase \/ SecureWrite \/ SecureRead \/ SecureReadBackup
    \/ SecureWipe \/ MmcErase \/ MmcTrim \/ MmcDiscard \/ MmcSecureErase \/ MmcSecureTrim \/ MmcSanitize
    \/ PhyRead \/ PhyWrite \/ PhyErase

Spec == Init /\ [][Next]_storeVars

-----------------------------------------------------------------------------
(* Properties. *)

Done == dev.err = "ok"
Blocks(a, n) == a..(a + n - 1)
Mem == dev.c.mem
Was == last.before.mem

\* No command is sent with a bus clock above what the card's mode allows
\* (mmc_set_clock after each switch), unless a SWITCH that the card never saw was
\* reported as done (mmc_do_switch drops its error).
ClockWithinMode == dev.over => dev.lost

\* An initialisation that succeeds leaves the driver, the controller and the card
\* with one idea of the bus: its width and, when no command failed, its mode and a
\* good sample point (mmc_startup, sunxi_switch_to_best_bus).  Excepted are a lost
\* SWITCH, and a clock that could not be set, after which no command is sent.
ModeAgrees ==
    last.op = "init" /\ Done /\ ~dev.lost /\ ~dev.h.fatal =>
        /\ dev.m.has_init /\ dev.m.width = dev.c.width /\ dev.h.width = dev.c.width
        /\ dev.faults = last.faults => Reads(dev)

\* Failed commands are over once they stop: a card that was left in any state is
\* initialised by the next call (mmc_start_init resets it).
InitRecovers == last.op = "init" /\ last.faults = 0 => Done

\* A write that reports success has written its range, and every write, failed or
\* not, leaves all other blocks alone (mmc_bwrite with its chunks, mmc_berase).
WriteExact ==
    last.op = "write" =>
        /\ Done => \A b \in Blocks(last.a, last.n) : Mem[b] = last.v
        /\ \A b \in DOMAIN Mem \ Blocks(last.a, last.n) : Mem[b] = Was[b]
        /\ Done => ~dev.c.busy

\* A read that reports success returns the blocks of its range, in order, whatever
\* its chunks and retries (mmc_bread).
ReadExact ==
    last.op = "read" /\ Done =>
        dev.data = [i \in 1..last.n |-> Was[last.a + i - 1]]

Skipped == UNION {Blocks(dev.skip[i][1], dev.skip[i][2]) : i \in DOMAIN dev.skip}

\* An erase that reports success has blanked its range but for the parts it leaves
\* to its caller, and nothing outside it is lost (mmc_align_erase_group and
\* mmc_insecure_secure_erase, whose groups are larger than a block).
EraseExact ==
    last.op \in {"erase", "trim"} =>
        /\ dev.err \in {"ok", "skip"} /\ last.op = "erase" =>
              \A b \in (Blocks(last.a, last.n) \cap DOMAIN Mem) \ Skipped : Mem[b] = Blank
        /\ \A b \in DOMAIN Mem \ Blocks(last.a, last.n) : Mem[b] = Was[b]

\* The block operations never reach the secure storage (check_secure_area).
SecureKept ==
    last.op \in {"erase", "trim"} => \A b \in SecureStart..SecureEnd : Mem[b] = Was[b]

\* A secure item is read as it was written or not at all, although a write of its
\* two copies may have failed anywhere (sdmmc_secure_storage_read compares them).
SecureUntorn ==
    last.op = "secure_read" /\ Done => \A i, j \in 1..last.n : dev.data[i] = dev.data[j]

\* The descriptors of a DMA transfer cover the buffer once, in order, with one
\* first and one last (mmc_trans_data_by_dma).
DescriptorsCover ==
    last.calls = 0 =>
        \A bytes \in 1..12, max \in 1..5 :
            LET d == mmc_trans_data_by_dma(bytes, max)
                k == Len(d)
            IN /\ d[1].addr = 0 /\ d[k].addr + d[k].len = bytes
               /\ \A i \in 1..k : d[i].len \in 1..max /\ d[i].first = (i = 1) /\ d[i].last = (i = k)
               /\ \A i \in 1..(k - 1) : d[i].addr + d[i].len = d[i + 1].addr

\* Data goes where it was asked to go and nowhere else, for
\* every call that moves blocks, failed calls and DMA descriptors included.
DataExact == WriteExact /\ ReadExact /\ EraseExact /\ SecureKept /\ DescriptorsCover
=============================================================================
