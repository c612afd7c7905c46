------------------------------- MODULE FlashIo -------------------------------
(***************************************************************************)
(* Drivers/SunxiSdMmcDxe/eMMCFlashIo.c, Library/SunxiPartitionLib and the  *)
(* part of eMMCFsIo.c that uses it: partition tables and boot files are    *)
(* written block range after block range, and read back.                   *)
(*                                                                         *)
(* A call is the sequence of its WriteBlocks (job.todo), for the erase     *)
(* followed by those of each part of job.parts.  Each may fail, with any   *)
(* of its blocks old, new or damaged; the call then ends.  The power may   *)
(* go off in or between two of them, which also resets the library's       *)
(* statics.                                                                *)
(*                                                                         *)
(* The disk is modelled at the blocks that hold tables and at the first    *)
(* block of each boot file; the content of a block is a record, and a      *)
(* checksum is what it was computed over, so that no two contents share    *)
(* one.  Type, unique GUID and attributes of a part go with its name.      *)
(***************************************************************************)
EXTENDS Integers, Sequences

LOCAL INSTANCE FiniteSetsExt

CONSTANTS BlockSize,      \* 512
          EntryNum,       \* SUNXI_GPT_ENTRY_MAX_NUM: 128
          EntrySize,      \* SUNXI_GPT_ENTRY_SIZE: 128
          LastLba,        \* Media->LastBlock
          Images,         \* the tables to be written: sequences of parts
          MaxFlashCalls   \* bound: calls that write

VARIABLES disk,         \* the modelled blocks
          job,          \* the call that writes, or the last one
          gptLib,       \* gpt_status, gpt_buf and, in mbrLib,
          mbrLib,       \* mbr_status, mbr_buf
          fsWindow,     \* FileSystemBase and gFileSyStemSize
          backupWhole,  \* history: the backup table verified when job began
          flashCalls

flashVars == <<disk, job, gptLib, mbrLib, fsWindow, backupWhole, flashCalls>>

HeaderLba == 1                             \* PRIMARY_PART_HEADER_LBA
EntryLba == 2                              \* SUNXI_GPT_ENTRY_LBA
Boot0Lba == 256                            \* BOOT0_SDMMC_START_ADDR
UefiLba == 512                             \* UEFI_SDMMC_START_ADDR
MbrOffset == (20 * 1024 * 1024) \div 512
EraseBlock == (8 * 1024 * 1024) \div 512   \* CARD_ERASE_BLOCK_SECTORS
EraseTail == (2 * 1024 * 1024) \div 512
UsbMassPart == 3                           \* SUNXI_USB_MASS_GPT_PART_NUM

EntryBlocks == (EntryNum * EntrySize) \div BlockSize
PerBlock == BlockSize \div EntrySize
LastUsable == LastLba - 1 - EntryBlocks

(* A block holds a whole number of entries, the entries fill the blocks    *)
(* they take, and boot0 fills a block.                                     *)
ASSUME FlashAssumption ==
  /\ {BlockSize, EntryNum, EntrySize, LastLba} \subseteq Nat \ {0}
  /\ {EntryBlocks, PerBlock} \subseteq Nat \ {0} /\ EntryNum = EntryBlocks * PerBlock
  /\ BlockSize <= 32 * 1024 /\ UsbMassPart < EntryNum
  /\ \A img \in Images :
       img \in Seq([name : STRING, addr : Nat, len : Nat]) /\ Len(img) \in 1..EntryNum

(* The card has room for both copies of the table and for the boot files,  *)
(* and the parts that are erased lie before the backup.  (Nothing in the   *)
(* code compares a part with the size of the card.)                        *)
ASSUME GeometryAssumption ==
  /\ EntryNum <= LastUsable /\ EntryLba + EntryBlocks <= LastUsable
  /\ Boot0Lba + (32 * 1024) \div BlockSize <= LastUsable
  /\ UefiLba + (1024 * 1024) \div BlockSize <= LastUsable
  /\ \A img \in Images : \A i \in 2..Len(img) :
       img[i].addr + (IF img[i].len = 0 THEN EraseBlock ELSE img[i].len) <= LastUsable + 1

Tracked == 0..EntryNum \cup 0..(EntryLba + EntryBlocks - 1) \cup {Boot0Lba, UefiLba}
             \cup (LastUsable + 1)..LastLba

Zeros == [kind |-> "zeros"]
Torn == [kind |-> "torn"]

Idle == [op |-> "none", img |-> <<>>, todo |-> <<>>, parts |-> <<>>, status |-> "success",
         noMemory |-> FALSE]

-----------------------------------------------------------------------------
(* A WriteBlocks of n blocks; the last block of data stands for the rest.  *)
Write(at, n, data) == [at |-> at, n |-> n, data |-> data]

Covered(w) == Tracked \cap w.at..(w.at + w.n - 1)
NewBlock(w, l) == w.data[IF l - w.at < Len(w.data) THEN l - w.at + 1 ELSE Len(w.data)]

Put(w, blocks) == [l \in Tracked |-> IF l \in blocks THEN NewBlock(w, l) ELSE disk[l]]

(* External: what a write that is cut short may leave.                     *)
PutPartly(w) ==
  {[l \in Tracked |-> IF l \notin Covered(w) \/ how[l] = "old" THEN disk[l]
                      ELSE IF how[l] = "new" THEN NewBlock(w, l) ELSE Torn] :
     how \in [Covered(w) -> {"old", "new", "torn"}]}

-----------------------------------------------------------------------------
(* Partition tables; part i of the code's array is img[i + 1].             *)

NoEntry == [name |-> "", start |-> 0, end |-> 0]
Garbled == [name |-> "garbled", start |-> 0, end |-> 0]

(* CreateGptTableAndEntry: the last part reaches to the end of the disk.   *)
Entry(img, i) ==
  [name |-> img[i].name, start |-> img[i].addr,
   end |-> IF i = Len(img) THEN LastUsable ELSE img[i].addr + img[i].len - 1]

Entries(img) == [i \in 1..EntryNum |-> IF i <= Len(img) THEN Entry(img, i) ELSE NoEntry]

CreateGptTableAndEntry(img) ==
  [kind |-> "header", my |-> HeaderLba, alternate |-> LastLba, entries |-> EntryLba,
   first |-> EntryLba + EntryBlocks, last |-> LastUsable, entryCrc |-> Entries(img)]

PrimaryConvertBackup(h) ==
  [h EXCEPT !.my = h.alternate, !.alternate = h.my,
            !.entries = IF h.my = HeaderLba THEN h.last + 1 ELSE HeaderLba + 1]

PartEntry(img) ==
  [b \in 1..EntryBlocks |->
     [kind |-> "entries", e |-> SubSeq(Entries(img), (b - 1) * PerBlock + 1, b * PerBlock)]]

MbrPart(type, start, size) == [type |-> type, start |-> start, size |-> size]

(* The size of the protective part is the upper half of a 64-bit number.   *)
CreateProtectiveMbr ==
  [kind |-> "mbr", parts |-> <<MbrPart("EE", 1, ((LastLba + 1) \div 65536) \div 65536)>>]

(* Mutant: both headers are written before the entries.                    *)
MutGptWrites(img) ==
  LET h == CreateGptTableAndEntry(img)
      b == PrimaryConvertBackup(h)
  IN  <<Write(0, 1, <<CreateProtectiveMbr>>),
        Write(h.my, 1, <<h>>),
        Write(b.my, 1, <<b>>),
        Write(h.entries, EntryBlocks, PartEntry(img)),
        Write(b.entries, EntryBlocks, PartEntry(img))>>

(* eMMCWriteGpt: protective MBR, primary table, backup table.              *)
GptWrites(img) ==
  LET h == CreateGptTableAndEntry(img)
      b == PrimaryConvertBackup(h)
  IN  <<Write(0, 1, <<CreateProtectiveMbr>>),
        Write(h.my, 1, <<h>>),
        Write(h.entries, EntryBlocks, PartEntry(img)),
        Write(b.my, 1, <<b>>),
        Write(b.entries, EntryBlocks, PartEntry(img))>>

(* eMMCWriteMbr: one record in block i for each part but the first and the *)
(* last, which the record in block 0, written at the end, names itself.    *)
ExtendedRecord(img, i) ==
  [kind |-> "mbr",
   parts |-> <<MbrPart("83", img[i + 1].addr - i + MbrOffset, img[i + 1].len)>>
               \o IF i = Len(img) - 2 THEN <<>> ELSE <<MbrPart("05", i, img[i + 1].len)>>]

Sectors(img) == MapThenSumSet(LAMBDA i : img[i].len, 2..(Len(img) - 1))

MasterRecord(img) ==
  [kind |-> "mbr",
   parts |-> <<MbrPart("0B", img[Len(img)].addr + MbrOffset, LastLba + 1 - MbrOffset - Sectors(img)),
               MbrPart("06", img[1].addr + MbrOffset, img[1].len),
               MbrPart("05", 1, Sectors(img))>>]

MbrWrites(img) ==
  [i \in 1..(Len(img) - 2) |-> Write(i, 1, <<ExtendedRecord(img, i)>>)]
    \o <<Write(0, 1, <<MasterRecord(img)>>)>>

(* The loop of eMMCFlashIoErase: head and tail of a part.  A part without  *)
(* a length loses its first 8 MB.                                          *)
ErasePart(p) ==
  CASE p.len > 2 * EraseBlock ->
         <<Write(p.addr, EraseBlock, <<Zeros>>),
           Write(p.addr + p.len - EraseBlock, EraseTail, <<Zeros>>)>>
    [] p.len > EraseBlock /\ p.len <= 2 * EraseBlock ->
         <<Write(p.addr, EraseBlock, <<Zeros>>),
           Write(p.addr + p.len - EraseTail, EraseTail, <<Zeros>>)>>
    [] OTHER -> <<Write(p.addr, IF p.len > 0 THEN p.len ELSE EraseBlock, <<Zeros>>)>>

(* SDMMC_BootFileWrite goes to the boot area of the eMMC: here, to no      *)
(* block of the disk.                                                      *)
EraseBoot ==
  <<Write(Boot0Lba, (32 * 1024) \div BlockSize, <<Zeros>>), Write(Boot0Lba, 0, <<Zeros>>),
    Write(UefiLba, (1024 * 1024) \div BlockSize, <<Zeros>>), Write(UefiLba, 0, <<Zeros>>)>>

-----------------------------------------------------------------------------
(* The calls.                                                              *)

(* What a header at a block leads to, and what it should lead to.          *)
ReadEntries(h) ==
  [i \in 1..EntryNum |->
     LET blk == disk[h.entries + (i - 1) \div PerBlock]
     IN  IF blk.kind = "entries" THEN blk.e[((i - 1) % PerBlock) + 1]
         ELSE IF blk.kind = "zeros" THEN NoEntry ELSE Garbled]

Verifies(l) == disk[l].kind = "header" /\ ReadEntries(disk[l]) = disk[l].entryCrc

NoWindow == [base |-> 0, size |-> 0, part |-> NoEntry]

FlashInit ==
  /\ disk = [l \in Tracked |-> Zeros]
  /\ job = Idle
  /\ gptLib = [status |-> 0, buf |-> <<>>]
  /\ mbrLib = [status |-> 0, buf |-> <<>>]
  /\ fsWindow = NoWindow
  /\ backupWhole = FALSE
  /\ flashCalls = 0

Running == job.status = "running"

Begin(op, img, todo, parts, status) ==
  /\ ~Running /\ flashCalls < MaxFlashCalls
  /\ flashCalls' = flashCalls + 1
  /\ job' = [op |-> op, img |-> img, todo |-> todo, parts |-> parts, status |-> status,
             noMemory |-> FALSE]
  /\ backupWhole' = Verifies(LastLba)
  /\ UNCHANGED <<disk, gptLib, mbrLib, fsWindow>>

eMMCWriteGpt(img) == Begin("gpt", img, GptWrites(img), <<>>, "running")
eMMCWriteMbr(img) == Begin("mbr", img, MbrWrites(img), <<>>, "running")

(* The first part is not erased.                                           *)
eMMCFlashIoErase(Erase, img) ==
  IF Erase THEN Begin("erase", img, EraseBoot, Tail(img), "running")
           ELSE Begin("noerase", img, <<>>, <<>>, "success")

(* eMMCWriteBoot0: length and checksum are verified, the card's and the    *)
(* memory's parameters are put into the image, the checksum is renewed.    *)
Boot0Image == [kind |-> "boot0", body |-> "updated", sumOf |-> "updated"]

Boot0Write == Write(Boot0Lba, (32 * 1024) \div BlockSize, <<Boot0Image>>)

eMMCWriteBoot0(lengthOk, sumOk, infoOk) ==
  IF lengthOk /\ sumOk /\ infoOk THEN Begin("boot0", <<>>, <<Boot0Write>>, <<>>, "running")
  ELSE Begin("boot0", <<>>, <<>>, <<>>, "device_error")

(* eMMCWriteUefi: the magic of a boot file, or that of a container.        *)
UefiImage == [kind |-> "uefi"]

UefiWrite == Write(UefiLba, (1024 * 1024) \div BlockSize, <<UefiImage>>)

eMMCWriteUefi(magic) ==
  IF magic \in {"uefi", "toc"} THEN Begin("uefi", <<>>, <<UefiWrite>>, <<>>, "running")
  ELSE Begin("uefi", <<>>, <<>>, <<>>, "device_error")

eMMCFlashIoWriteBootFiles ==
  \/ \E lengthOk, sumOk, infoOk \in BOOLEAN : eMMCWriteBoot0(lengthOk, sumOk, infoOk)
  \/ \E magic \in {"uefi", "toc", "other"} : eMMCWriteUefi(magic)
  \/ \E img \in Images : eMMCWriteMbr(img) \/ eMMCWriteGpt(img)

End(status) == [job EXCEPT !.status = status, !.todo = <<>>, !.parts = <<>>]

WriteBlocks ==
  /\ Running
  /\ LET w == Head(job.todo)
     IN  disk' = Put(w, Covered(w))
  /\ job' = IF Len(job.todo) > 1 THEN [job EXCEPT !.todo = Tail(@)]
            ELSE IF job.parts # <<>>
            THEN [job EXCEPT !.todo = ErasePart(Head(job.parts)), !.parts = Tail(@)]
            ELSE End("success")
  /\ UNCHANGED <<gptLib, mbrLib, fsWindow, backupWhole, flashCalls>>

WriteBlocksFails ==
  /\ Running
  /\ disk' \in PutPartly(Head(job.todo))
  /\ job' = End("device_error")
  /\ UNCHANGED <<gptLib, mbrLib, fsWindow, backupWhole, flashCalls>>

(* eMMCWriteGpt allocates the MBR before the first write, the rest before  *)
(* the second: there, the status is still that of the first write.         *)
NoMemory ==
  /\ Running
  /\ \/ job.op = "erase" /\ job.todo = EraseBoot
        /\ job' = End("out_of_resources")
     \/ job.op = "gpt" /\ Len(job.todo) = 5
        /\ job' = End("not_found")
     \/ job.op = "gpt" /\ Len(job.todo) = 4
        /\ job' = [End("success") EXCEPT !.noMemory = TRUE]
  /\ UNCHANGED <<disk, gptLib, mbrLib, fsWindow, backupWhole, flashCalls>>

(* External.  The statics start from zero again.                           *)
PowerLoss ==
  /\ Running
  /\ disk' \in PutPartly(Head(job.todo))
  /\ job' = End("power_loss")
  /\ gptLib' = [status |-> 0, buf |-> <<>>]
  /\ mbrLib' = [status |-> 0, buf |-> <<>>]
  /\ fsWindow' = NoWindow
  /\ UNCHANGED <<backupWhole, flashCalls>>

-----------------------------------------------------------------------------
(* SunxiPartitionLib: reading the tables back.                             *)

(* Mutant: the checksum of the entries is not compared.                    *)
MutSunxiGptPartitionInitialize(h, readOk) ==
  LET ok == h.kind = "header" /\ readOk
  IN  [status |-> IF ok THEN 1 ELSE 0,
       buf |-> IF h.kind = "header" /\ readOk THEN ReadEntries(h) ELSE gptLib.buf]

(* The entries are read into gpt_buf before they are verified.             *)
SunxiGptPartitionInitialize(h, readOk) ==
  LET ok == h.kind = "header" /\ readOk /\ ReadEntries(h) = h.entryCrc
  IN  [status |-> IF ok THEN 1 ELSE 0,
       buf |-> IF h.kind = "header" /\ readOk THEN ReadEntries(h) ELSE gptLib.buf]

Refused == -1
FirstNamed(buf, n, name) == {i \in 1..n : buf[i].name = name /\ \A j \in 1..(i - 1) : buf[j].name # name}

GptIndex(i) == gptLib.status = 1 /\ i < EntryNum
SunxiGptPartitionGetOffset(i) == IF GptIndex(i) THEN gptLib.buf[i + 1].start ELSE Refused
SunxiGptPartitionGetSize(i) ==
  IF GptIndex(i) THEN gptLib.buf[i + 1].end - gptLib.buf[i + 1].start ELSE Refused

GptNamed(name) == IF gptLib.status = 1 THEN FirstNamed(gptLib.buf, EntryNum, name) ELSE {}
SunxiGptPartitionGetOffsetByName(name) ==
  {SunxiGptPartitionGetOffset(i - 1) : i \in GptNamed(name)}
SunxiGptPartitionGetSizeByName(name) ==
  {SunxiGptPartitionGetSize(i - 1) : i \in GptNamed(name)}
SunxiGptPartitionGetInfoByName(name) ==
  {<<SunxiGptPartitionGetOffset(i - 1), SunxiGptPartitionGetSize(i - 1)>> : i \in GptNamed(name)}

(* The same for the vendor's own table, which a caller hands over.  The    *)
(* library has each of these functions twice, with a result of type        *)
(* EFI_STATUS and with one of type int, where a refusal is 0 or -1.        *)
SunxiPartitionGetTotalNumber == IF mbrLib.status = 1 THEN Len(mbrLib.buf) ELSE Refused
MbrIndex(i) == mbrLib.status = 1 /\ i < Len(mbrLib.buf)
SunxipartitionGetOffset(i) == IF MbrIndex(i) THEN mbrLib.buf[i + 1].addr ELSE Refused
SunxiPartitionGetSize(i) == IF MbrIndex(i) THEN mbrLib.buf[i + 1].len ELSE Refused

MbrNamed(name) == IF mbrLib.status = 1 THEN FirstNamed(mbrLib.buf, Len(mbrLib.buf), name) ELSE {}
SunxiPartitionGetOffsetByName(name) == {mbrLib.buf[i].addr : i \in MbrNamed(name)}
SunxiPartitionGetSizeByName(name) == {mbrLib.buf[i].len : i \in MbrNamed(name)}
SunxiPartitionGetInfoByName(name) == {<<mbrLib.buf[i].addr, mbrLib.buf[i].len>> : i \in MbrNamed(name)}

(* The buffer is copied before it is verified.                             *)
SunxiPartitionInitialize(img, crcOk) ==
  /\ ~Running
  /\ mbrLib' = [status |-> IF crcOk THEN 1 ELSE 0, buf |-> img]
  /\ UNCHANGED <<disk, job, gptLib, fsWindow, backupWhole, flashCalls>>

sunxi_partition_refresh(img) ==
  /\ ~Running
  /\ mbrLib.status = 1
  /\ mbrLib' = [mbrLib EXCEPT !.buf = img]
  /\ UNCHANGED <<disk, job, gptLib, fsWindow, backupWhole, flashCalls>>

(* eMMCFsIo.c: where the file system lies.  If the header cannot be read   *)
(* nothing changes; after any other failure the base is an earlier call's. *)
SunxiGetFsOffset ==
  /\ ~Running
  /\ \E readOk \in BOOLEAN :
       /\ gptLib' = SunxiGptPartitionInitialize(disk[HeaderLba], readOk)
       /\ fsWindow' =
            IF gptLib'.status = 0 THEN fsWindow
            ELSE LET e == gptLib'.buf[UsbMassPart + 1]
                 IN  [base |-> e.start, part |-> e,
                      size |-> IF e.end = e.start THEN LastLba - e.start ELSE e.end - e.start]
  /\ UNCHANGED <<disk, job, mbrLib, backupWhole, flashCalls>>

FlashNext ==
  \/ eMMCFlashIoWriteBootFiles
  \/ \E Erase \in BOOLEAN, img \in Images : eMMCFlashIoErase(Erase, img)
  \/ WriteBlocks \/ WriteBlocksFails \/ NoMemory \/ PowerLoss
  \/ SunxiGetFsOffset

(* The vendor's table shares nothing with the rest.                        *)
VendorNext ==
  \/ \E img \in Images, crcOk \in BOOLEAN : SunxiPartitionInitialize(img, crcOk)
  \/ \E img \in Images : sunxi_partition_refresh(img)

FlashSpec == FlashInit /\ [][FlashNext \/ VendorNext]_flashVars

-----------------------------------------------------------------------------
(* The order in which eMMCWriteGpt writes its five ranges: however often   *)
(* calls are cut short by a failed write or by the power, one of the two   *)
(* copies of the table verifies, if the backup did when the call began.    *)
GptSurvives == backupWhole => Verifies(HeaderLba) \/ Verifies(LastLba)

(* The parts that the records of eMMCWriteMbr lead to: the chain starts in *)
(* block 1, links are relative to it, parts to the record that names them. *)
Linked(l) ==
  IF disk[l].kind # "mbr" THEN {}
  ELSE {1 + disk[l].parts[j].start :
          j \in {i \in 2..Len(disk[l].parts) : disk[l].parts[i].type = "05"}}
Closed(blocks) == 1 \in blocks /\ \A l \in blocks : Linked(l) \subseteq blocks
Chain(img) == {l \in 1..Len(img) : \A b \in SUBSET (1..Len(img)) : Closed(b) => l \in b}
ChainParts(img) ==
  {<<disk[l].parts[1].start + l, disk[l].parts[1].size>> :
     l \in IF Len(img) > 2 THEN Chain(img) ELSE {}}

(* A call that reports success has written all it was asked for, however   *)
(* the earlier ones ended: both copies of the table and each names the     *)
(* parts it was given; the chain of boot records leads to each part, moved *)
(* by 20 MB; boot0 carries the checksum of the image with the parameters   *)
(* put into it.  (eMMCWriteGpt also reports success when it runs out of    *)
(* memory after its first write.)                                          *)
SuccessWritten ==
  (job.status = "success" /\ ~job.noMemory) =>
    CASE job.op = "gpt" ->
           \A l \in {HeaderLba, LastLba} :
             Verifies(l) /\ disk[l].my = l /\ disk[l].entryCrc = Entries(job.img)
      [] job.op = "mbr" ->
           /\ ChainParts(job.img) =
                {<<job.img[i].addr + MbrOffset, job.img[i].len>> : i \in 2..(Len(job.img) - 1)}
           /\ disk[0].parts[2].start = job.img[1].addr + MbrOffset
      [] job.op = "boot0" -> disk[Boot0Lba].body = disk[Boot0Lba].sumOf
      [] job.op = "uefi" -> disk[UefiLba] = UefiImage
      [] job.op = "erase" -> disk[Boot0Lba] = Zeros /\ disk[UefiLba] = Zeros
      [] OTHER -> TRUE

FirstOfName(img, i) == \A j \in 1..(i - 1) : img[j].name # img[i].name

(* A table that SunxiGptPartitionInitialize accepts is one that a single   *)
(* call wrote: look-ups by number and by name give each of its parts (the  *)
(* first one of a name), with a size of one block less than the part has.  *)
LookupsTrue ==
  gptLib.status = 1 =>
    \E img \in Images :
      \A i \in 0..(Len(img) - 1) :
        LET info == <<img[i + 1].addr, IF i = Len(img) - 1 THEN LastUsable - img[i + 1].addr
                                                        ELSE img[i + 1].len - 1>>
        IN  /\ <<SunxiGptPartitionGetOffset(i), SunxiGptPartitionGetSize(i)>> = info
            /\ FirstOfName(img, i + 1) =>
                 /\ SunxiGptPartitionGetInfoByName(img[i + 1].name) = {info}
                 /\ SunxiGptPartitionGetOffsetByName(img[i + 1].name) = {info[1]}
                 /\ SunxiGptPartitionGetSizeByName(img[i + 1].name) = {info[2]}

(* ... and the vendor's table is used only after one was verified.         *)
MbrLookupsTrue ==
  \A img \in Images :
    mbrLib.buf = img =>
      LET known == mbrLib.status = 1
      IN  /\ SunxipartitionGetOffset(Len(img)) = Refused
          /\ \A i \in 1..Len(img) :
               FirstOfName(img, i) =>
                 /\ SunxiPartitionGetInfoByName(img[i].name)
                      = IF known THEN {<<img[i].addr, img[i].len>>} ELSE {}
                 /\ SunxiPartitionGetOffsetByName(img[i].name)
                      = {SunxipartitionGetOffset(i - 1)} \ {Refused}
                 /\ SunxiPartitionGetSizeByName(img[i].name)
                      = {SunxiPartitionGetSize(i - 1)} \ {Refused}

(* eMMCFlashIoErase writes zeros only inside the boot areas and inside the *)
(* part it is at, as eMMCWriteGpt bounds it.  (A part without a length     *)
(* that is not the last one is erased beyond that: it has no block in the  *)
(* table.)  The file system found by SunxiGetFsOffset lies inside its      *)
(* part, unless the table has no such part, or one of a single block: then *)
(* it reaches to the end of the disk.                                      *)
RangesInside ==
  /\ (Running /\ job.op = "erase" /\ Head(job.todo).at >= MbrOffset) =>
       \E i \in 2..Len(job.img) :
         LET w == Head(job.todo)
         IN  /\ Entry(job.img, i).start <= w.at
             /\ \/ w.at + w.n - 1 <= Entry(job.img, i).end
                \/ i < Len(job.img) /\ job.img[i].len = 0
  /\ \/ fsWindow.part.start = fsWindow.part.end
     \/ fsWindow.base = fsWindow.part.start /\ fsWindow.base + fsWindow.size <= fsWindow.part.end

(* The tables of a card, written over writes that fail: what was reported  *)
(* as written, what is found in them, and what is erased by them.          *)
TablesTrue == SuccessWritten /\ LookupsTrue /\ MbrLookupsTrue /\ RangesInside
=============================================================================
