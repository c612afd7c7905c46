----------------------------- MODULE CardProofs ------------------------------
(***************************************************************************)
(* Proofs about the card: CardDetect, whether it is there, and FlashIo,    *)
(* what is written to it.                                                  *)
(*                                                                         *)
(* The slot, for any cards, capacities and number of swaps, with or        *)
(* without another driver's FlashIo, and however often the timer fires     *)
(* while SunxiSdMmcDxeInitialize runs.  None of the properties is          *)
(* inductive.  They need that the handle's interface, while it is alive,   *)
(* has a FlashIo, or another driver has one (for the uninstall to fail);   *)
(* and, as long as the timer has not raced the entry point, that nothing   *)
(* is published before InitPublish, and that the card InitHost0 saw is     *)
(* still the one in the slot, or none is.                                  *)
(*                                                                         *)
(* The tables on the card, for any size of the card, any number and size   *)
(* of entries, any set of tables, and any number of calls.                 *)
(***************************************************************************)
EXTENDS CardDetect, FlashIo, WellFoundedInduction, SequenceTheorems, TLAPS

-----------------------------------------------------------------------------
(* The slot.                                                               *)

Ids ==
  /\ made \in Nat /\ handle \in Nat
  /\ db \subseteq 1..made /\ live \subseteq 1..made
  /\ MediaPresent \in BOOLEAN /\ flashIo \in BOOLEAN /\ flashElsewhere \in BOOLEAN
  /\ raced \in BOOLEAN /\ asserted \in BOOLEAN
  /\ pc \in {"otherHosts", "init", "media", "publish", "done"}

(* What is alive has a FlashIo, on its handle or elsewhere.                *)
AliveWithFlash ==
  ~asserted => /\ flashIo => live = {handle}
               /\ live # {} => flashIo \/ flashElsewhere

(* Before the driver is up, nothing is published and nothing allocated,    *)
(* unless the timer has done so.                                           *)
NothingYet ==
  pc # "done" /\ ~raced => /\ db = {} /\ live = {}
                           /\ handle = 0
                           /\ MediaPresent <=> pc = "publish"

(* The card that is published, or about to be, is the one in the slot, or  *)
(* was taken out since the last tick.                                      *)
SameCard ==
  ~raced /\ (pc \in {"media", "publish"} \/ (pc = "done" /\ MediaPresent)) =>
    /\ host \in Cards \ BadCards
    /\ slot \in {host, NoCard}
    /\ slot = NoCard => ~seenEmpty

(* Afterwards there is one interface while a card is taken to be present,  *)
(* and otherwise none.                                                     *)
OnePublished ==
  pc = "done" /\ ~raced /\ ~asserted => live = IF MediaPresent THEN {handle} ELSE {}

IInv ==
  /\ Ids
  /\ AliveWithFlash
  /\ NothingYet
  /\ SameCard
  /\ OnePublished
  /\ InstalledIsLive
  /\ AssertExplained

(* The publication keeps the invariant, wherever it happens: by then       *)
(* nothing is alive or the ASSERT fails.                                   *)
LEMMA PublishKeeps ==
  ASSUME Ids, AliveWithFlash, InstalledIsLive, ~asserted,
         NEW h \in {0, handle}, Publish(h),
         MediaPresent' \in BOOLEAN, raced' \in BOOLEAN,
         pc' \in {"otherHosts", "init", "media", "publish", "done"}
  PROVE  Ids' /\ AliveWithFlash' /\ InstalledIsLive'
         /\ (~asserted' => live' = {handle'})
         /\ (asserted' => h # 0 \/ (db # {} /\ db' = db /\ live' = live \cup {made + 1}))
<1>1. /\ made + 1 \in Nat /\ made + 1 \notin 1..made /\ 1..made \subseteq 1..(made + 1)
      /\ made + 1 \in 1..(made + 1) /\ h \in Nat
  BY DEF Ids
<1>2. /\ Ids'
      /\ made' = made + 1 /\ made' \notin db
      /\ live' = live \cup {made'}
      /\ flashElsewhere' = flashElsewhere
      /\ flashIo' = (flashIo \/ ~flashElsewhere)
      /\ \/ /\ h = 0 /\ db \cap live = {} /\ ~asserted'
            /\ db' = db \cup {made'} /\ handle' = made'
         \/ asserted' /\ db' = db /\ (h # 0 \/ db # {})
  BY <1>1 DEF Ids, Publish
<1>3. CASE asserted'
  BY <1>2, <1>3 DEF AliveWithFlash, InstalledIsLive
<1>4. CASE ~asserted'
  <2>1. live = {} BY <1>2, <1>4 DEF InstalledIsLive
  <2>2. live' = {made'} /\ handle' = made' /\ db' = db \cup {made'} BY <1>2, <1>4, <2>1
  <2>3. flashElsewhere' \in BOOLEAN /\ flashIo' \in BOOLEAN BY <1>2 DEF Ids
  <2>4. AliveWithFlash' BY <1>2, <2>2, <2>3 DEF AliveWithFlash
  <2>5. db' # live' => flashElsewhere' BY <1>2, <2>1, <2>2 DEF InstalledIsLive
  <2>6. InstalledIsLive' BY <2>2, <2>5 DEF InstalledIsLive
  <2> QED BY <1>2, <1>4, <2>2, <2>4, <2>6
<1> QED BY <1>3, <1>4

(* What the driver publishes and what the slot holds, at every step of the *)
(* entry point and of the timer callback.                                  *)
THEOREM CardInductive == Spec => []IInv
<1>1. Init => IInv
  <2> SUFFICES ASSUME Init PROVE IInv
    OBVIOUS
  <2> QED
    BY DEF Init, IInv, Ids, AliveWithFlash, NothingYet, SameCard, OnePublished, InstalledIsLive,
           AssertExplained
<1>2. IInv /\ [Next]_vars => IInv'
  <2> SUFFICES ASSUME IInv, [Next]_vars PROVE IInv'
    OBVIOUS
  <2> USE CardAssumption
  <2>1. ASSUME NEW c \in Cards, InsertCard(c) PROVE IInv'
    BY <2>1 DEF InsertCard, IInv, Ids, AliveWithFlash, NothingYet, SameCard, OnePublished,
                InstalledIsLive, AssertExplained, mediaVars, dbVars, initVars
  <2>2. CASE RemoveCard
    BY <2>2 DEF RemoveCard, IInv, Ids, AliveWithFlash, NothingYet, SameCard, OnePublished,
                InstalledIsLive, AssertExplained, mediaVars, dbVars, initVars
  <2>3. CASE InitOtherHosts
    BY <2>3 DEF InitOtherHosts, IInv, Ids, AliveWithFlash, NothingYet, SameCard, OnePublished,
                InstalledIsLive, AssertExplained, mediaVars, slotVars
  <2>4. CASE InitHost0
    BY <2>4 DEF InitHost0, LogicalInitOK, IInv, Ids, AliveWithFlash, NothingYet, SameCard,
                OnePublished, InstalledIsLive, AssertExplained, dbVars, slotVars
  <2>5. CASE InitMedia
    BY <2>5 DEF InitMedia, IInv, Ids, AliveWithFlash, NothingYet, SameCard,
                OnePublished, InstalledIsLive, AssertExplained, dbVars, slotVars
  <2>6. CASE InitPublish
    <3>1. /\ pc = "publish" /\ pc' = "done" /\ Publish(handle) /\ ~asserted
          /\ UNCHANGED <<slotVars, mediaVars, raced>>
      BY <2>6 DEF InitPublish
    <3>2. /\ Ids' /\ AliveWithFlash' /\ InstalledIsLive'
          /\ (~asserted' => live' = {handle'})
          /\ (asserted' => handle # 0 \/ db # {})
      <4>1. MediaPresent' \in BOOLEAN /\ raced' \in BOOLEAN
        BY <3>1 DEF IInv, Ids, mediaVars
      <4> QED BY <3>1, <4>1, PublishKeeps DEF IInv
    <3>3. ~raced' => ~asserted' /\ MediaPresent'
      BY <3>1, <3>2 DEF IInv, NothingYet, mediaVars
    <3>4. SameCard' BY <3>1 DEF IInv, SameCard, mediaVars, slotVars
    <3>5. AssertExplained' /\ NothingYet' /\ OnePublished'
      BY <3>1, <3>2, <3>3 DEF AssertExplained, NothingYet, OnePublished
    <3> QED BY <3>2, <3>4, <3>5 DEF IInv
  <2>7. CASE TickQuiet
    BY <2>7 DEF TickQuiet, Tick, Card0Present, IInv, Ids, AliveWithFlash, NothingYet, SameCard,
                OnePublished, InstalledIsLive, AssertExplained, mediaVars, dbVars
  <2>8. CASE TickRemoved
    <3>1. /\ MediaPresent /\ ~asserted /\ pc' = pc /\ raced' = (raced \/ pc # "done")
          /\ live' = live \ {handle} /\ MediaPresent' = FALSE
          /\ (IF flashIo THEN db' = db \ {handle} /\ flashIo' = FALSE
              ELSE db' = db /\ flashIo' = flashIo)
          /\ asserted' \in {FALSE, ~flashIo}
          /\ UNCHANGED <<handle, made, flashElsewhere>>
      BY <2>8 DEF TickRemoved, Tick
    <3>2. Ids'
      BY <3>1 DEF IInv, Ids
    <3>3. live' = {} BY <3>1 DEF IInv, InstalledIsLive
    <3>4. flashIo' = FALSE BY <3>1 DEF IInv, Ids
    <3>5. AliveWithFlash' BY <3>3, <3>4 DEF AliveWithFlash
    <3>6. db' # {} => flashElsewhere \/ asserted'
      <4>1. CASE flashIo
        <5>1. live = {handle} BY <3>1, <4>1 DEF IInv, AliveWithFlash
        <5>2. db' = db \ {handle} BY <3>1, <4>1
        <5>3. db' # {} => db # live BY <5>1, <5>2
        <5> QED BY <3>1, <5>3 DEF IInv, InstalledIsLive
      <4>2. CASE ~flashIo
        <5>1. db' = db BY <3>1, <4>2
        <5>2. db # {} => db # live \/ live # {} OBVIOUS
        <5> QED BY <3>1, <4>2, <5>1, <5>2 DEF IInv, InstalledIsLive, AliveWithFlash
      <4> QED BY <4>1, <4>2
    <3>7. InstalledIsLive' BY <3>1, <3>3, <3>6 DEF InstalledIsLive
    <3>8. NothingYet' /\ OnePublished' BY <3>1, <3>3 DEF NothingYet, OnePublished
    <3>9. SameCard' BY <3>1 DEF IInv, Ids, SameCard
    <3>10. asserted' /\ ~raced' => flashElsewhere' /\ db' \ live' # {}
      <4> SUFFICES ASSUME asserted', ~raced' PROVE flashElsewhere' /\ db' \ live' # {}
        OBVIOUS
      <4>1. ~flashIo /\ pc = "done" /\ ~raced BY <3>1 DEF IInv, Ids
      <4>2. live = {handle} BY <3>1, <4>1 DEF IInv, OnePublished
      <4>3. flashElsewhere /\ handle \in db
        BY <3>1, <4>1, <4>2 DEF IInv, AliveWithFlash, InstalledIsLive
      <4> QED BY <3>1, <3>3, <4>1, <4>3
    <3> QED BY <3>2, <3>5, <3>7, <3>8, <3>9, <3>10 DEF IInv, AssertExplained
  <2>9. CASE TickCounts \/ TickPulled
    <3>1. /\ UNCHANGED <<MediaPresent, host, dbVars, pc, raced>>
          /\ slot' \in {slot, NoCard}
          /\ UNCHANGED slot => UNCHANGED seenEmpty
          /\ slot' = NoCard => slot = NoCard \/ ~seenEmpty'
      BY <2>9 DEF TickCounts, TickPulled, Tick, Card0Present, mediaVars, dbVars, IInv, Ids
    <3>2. SameCard' BY <3>1 DEF IInv, SameCard
    <3> QED
      BY <3>1, <3>2 DEF IInv, Ids, AliveWithFlash, NothingYet, OnePublished, InstalledIsLive,
                        AssertExplained, dbVars
  <2>10. CASE TickInitFails
    BY <2>10 DEF TickInitFails, Tick, Card0Present, LogicalInitOK, IInv, Ids, AliveWithFlash,
                 NothingYet, SameCard, OnePublished, InstalledIsLive, AssertExplained, dbVars
  <2>11. CASE TickInserts
    <3>1. /\ ~MediaPresent /\ ~asserted /\ pc' = pc /\ raced' = (raced \/ pc # "done")
          /\ slot \in Cards \ BadCards /\ host' = slot /\ MediaPresent' = TRUE
          /\ UNCHANGED slot /\ Publish(0)
      BY <2>11 DEF TickInserts, Tick, LogicalInitOK
    <3>2. /\ Ids' /\ AliveWithFlash' /\ InstalledIsLive'
          /\ (~asserted' => live' = {handle'})
          /\ (asserted' => db # {} /\ db' = db /\ live' = live \cup {made + 1})
      <4>1. MediaPresent' \in BOOLEAN /\ raced' \in BOOLEAN
            /\ pc' \in {"otherHosts", "init", "media", "publish", "done"}
        BY <3>1 DEF IInv, Ids
      <4> QED BY <3>1, <4>1, PublishKeeps DEF IInv
    <3>3. SameCard' BY <3>1 DEF SameCard
    <3>4. NothingYet' /\ OnePublished' BY <3>1, <3>2 DEF NothingYet, OnePublished
    <3>5. asserted' /\ ~raced' => flashElsewhere' /\ db' \ live' # {}
      <4> SUFFICES ASSUME asserted', ~raced' PROVE flashElsewhere' /\ db' \ live' # {}
        OBVIOUS
      <4>1. pc = "done" /\ ~raced BY <3>1 DEF IInv, Ids
      <4>2. live = {} BY <3>1, <4>1 DEF IInv, OnePublished
      <4>3. flashElsewhere /\ flashElsewhere' = flashElsewhere
        BY <3>1, <3>2, <4>2 DEF IInv, InstalledIsLive, Publish
      <4>4. made + 1 \notin db
        BY DEF IInv, Ids
      <4> QED BY <3>2, <4>2, <4>3, <4>4
    <3> QED BY <3>2, <3>3, <3>4, <3>5 DEF IInv, AssertExplained
  <2>12. CASE \/ \E id \in db : OpenBlockIo(id)
              \/ \E block \in 0..(LbaModulus - 1) : ReadBlocks(block)
    <3>1. UNCHANGED <<slotVars, mediaVars, dbVars, initVars>>
      BY <2>12 DEF OpenBlockIo, ReadBlocks
    <3> QED
      BY <3>1 DEF IInv, Ids, AliveWithFlash, NothingYet, SameCard, OnePublished, InstalledIsLive,
                  AssertExplained, slotVars, mediaVars, dbVars, initVars
  <2>13. CASE UNCHANGED vars
    BY <2>13 DEF vars, IInv, Ids, AliveWithFlash, NothingYet, SameCard, OnePublished,
                 InstalledIsLive, AssertExplained, slotVars, mediaVars, dbVars, initVars
  <2> QED
    BY <2>1, <2>2, <2>3, <2>4, <2>5, <2>6, <2>7, <2>8, <2>9, <2>10, <2>11, <2>12, <2>13
    DEF Next, InitSteps, Callback
<1> QED BY <1>1, <1>2, PTL DEF Spec

(* However cards come and go and whenever the timer fires, with or without *)
(* another driver's FlashIo: an interface that a client can find is live   *)
(* memory unless its uninstall had to fail, and none is leaked; if the     *)
(* timer did not race the entry point, the slot has exactly one while a    *)
(* card is taken to be present, which reads from the card that the host    *)
(* was initialised for.                                                    *)
THEOREM CardSafe ==
  Spec => [](InstalledIsLive /\ PublishedIffPresent /\ HostFollowsSlot)
<1>1. IInv => InstalledIsLive /\ PublishedIffPresent /\ HostFollowsSlot
  <2> SUFFICES ASSUME IInv PROVE InstalledIsLive /\ PublishedIffPresent /\ HostFollowsSlot
    OBVIOUS
  <2>1. PublishedIffPresent
    BY DEF IInv, Ids, AliveWithFlash, OnePublished, PublishedIffPresent
  <2>2. HostFollowsSlot
    BY CardAssumption DEF IInv, SameCard, HostFollowsSlot
  <2> QED BY <2>1, <2>2 DEF IInv
<1> QED BY <1>1, CardInductive, PTL

(* The ASSERTs of the driver fail only where the timer raced the entry     *)
(* point, or an interface was left without memory beside another driver's  *)
(* FlashIo: never by insertions and removals alone.                        *)
THEOREM AssertsExplained == Spec => []AssertExplained
<1>1. IInv => AssertExplained BY DEF IInv
<1> QED BY <1>1, CardInductive, PTL

-----------------------------------------------------------------------------
(* The tables.                                                             *)

(* The blocks of the backup table.                                         *)
Backup == (LastUsable + 1)..LastLba

(* What is written by the calls other than eMMCWriteGpt.                   *)
PartsOf(img) == {img[i] : i \in 2..Len(img)}
ErasedParts == UNION {PartsOf(img) : img \in Images}
Plans ==
  {MbrWrites(img) : img \in Images} \cup {ErasePart(p) : p \in ErasedParts}
  \cup {EraseBoot, <<Boot0Write>>, <<UefiWrite>>}
PlannedWrites == UNION {{plan[i] : i \in 1..Len(plan)} : plan \in Plans}

(* The writes of eMMCWriteGpt that are left from the k-th on.              *)
GptRest(img, k) == [j \in 1..(6 - k) |-> GptWrites(img)[j + k - 1]]

(* A header in the last block leads to the entries before it.              *)
BackupHeader == disk[LastLba].kind = "header" => disk[LastLba].entries = LastUsable + 1

JobShape == DOMAIN job = {"op", "img", "todo", "parts", "status", "noMemory"}

(* The primary table is that of img.                                       *)
PrimaryIs(img) ==
  /\ disk[HeaderLba] = CreateGptTableAndEntry(img)
  /\ \A b \in 1..EntryBlocks : disk[EntryLba + b - 1] = PartEntry(img)[b]

(* No call but eMMCWriteGpt touches the backup.                            *)
OtherCall ==
  Running /\ job.op # "gpt" =>
    /\ job.todo \in Seq(PlannedWrites) /\ job.todo # <<>>
    /\ job.parts \in Seq(ErasedParts)
    /\ backupWhole => Verifies(LastLba)

(* eMMCWriteGpt touches it once the primary table is there.                *)
GptCall ==
  Running /\ job.op = "gpt" =>
    /\ job.img \in Images /\ job.parts = <<>>
    /\ \E k \in 1..5 :
         /\ job.todo = GptRest(job.img, k)
         /\ k <= 3 => (backupWhole => Verifies(LastLba))
         /\ k = 3 => disk[HeaderLba] = CreateGptTableAndEntry(job.img)
         /\ k > 3 => PrimaryIs(job.img)

FlashInv == JobShape /\ BackupHeader /\ OtherCall /\ GptCall /\ GptSurvives

(* A write that ends below the backup.                                     *)
Safe(w) == Covered(w) \cap Backup = {}

-----------------------------------------------------------------------------
(* The sizes of the table: the backup lies behind the last usable block.   *)
LEMMA Numbers ==
  /\ EntryBlocks \in Nat \ {0} /\ PerBlock \in Nat \ {0} /\ EntryNum \in Nat \ {0}
  /\ LastUsable \in Nat \ {0} /\ LastLba = LastUsable + EntryBlocks + 1
  /\ EntryNum <= LastUsable /\ EntryLba + EntryBlocks <= LastUsable
<1>1. /\ EntryBlocks \in Nat \ {0} /\ PerBlock \in Nat \ {0} /\ EntryNum \in Nat \ {0}
      /\ LastLba \in Nat
  BY FlashAssumption
<1>2. EntryNum <= LastUsable /\ EntryLba + EntryBlocks <= LastUsable BY GeometryAssumption
<1>3. LastUsable = LastLba - 1 - EntryBlocks BY DEF LastUsable
<1> HIDE DEF LastUsable, EntryBlocks
<1> QED BY <1>1, <1>2, <1>3

(* A write that ends before the last usable block does, leaves the backup. *)
LEMMA SafeWrite ==
  ASSUME NEW at \in Int, NEW n \in Int, NEW data, at + n <= LastUsable + 1
  PROVE  Safe(Write(at, n, data))
<1>1. \A l \in at..(at + n - 1) : l \notin (LastUsable + 1)..LastLba BY Numbers
<1>2. Covered(Write(at, n, data)) = Tracked \cap at..(at + n - 1) BY DEF Covered, Write
<1> QED BY <1>1, <1>2 DEF Safe, Backup

(* A non-empty sequence of writes that end below the backup.               *)
Good(plan) == plan \in Seq({plan[i] : i \in 1..Len(plan)}) /\ plan # <<>>
              /\ \A i \in 1..Len(plan) : Safe(plan[i])

(* A plan of a single write.                                               *)
LEMMA GoodOne ==
  ASSUME NEW a, Safe(a) PROVE Good(<<a>>)
BY DEF Good

(* A plan of two writes.                                                   *)
LEMMA GoodTwo ==
  ASSUME NEW a, NEW b, Safe(a), Safe(b) PROVE Good(<<a, b>>)
BY DEF Good

(* The boot files' lengths in blocks are integers.                         *)
LEMMA BlocksPositive == (32 * 1024) \div BlockSize \in Int /\ (1024 * 1024) \div BlockSize \in Int
BY FlashAssumption

(* The boot files and their erasure stay clear of the backup.              *)
LEMMA GoodBoot == Good(EraseBoot) /\ Good(<<Boot0Write>>) /\ Good(<<UefiWrite>>)
<1> DEFINE n == (32 * 1024) \div BlockSize
           u == (1024 * 1024) \div BlockSize
<1>1. n \in Int /\ u \in Int BY BlocksPositive
<1>2. Boot0Lba + n <= LastUsable /\ UefiLba + u <= LastUsable BY GeometryAssumption
<1>3. Boot0Lba \in Int /\ UefiLba \in Int BY DEF Boot0Lba, UefiLba
<1>4. EntryBlocks \in Nat /\ LastUsable \in Nat BY Numbers
<1>5. ASSUME NEW data
      PROVE  /\ Safe(Write(Boot0Lba, n, data)) /\ Safe(Write(Boot0Lba, 0, data))
             /\ Safe(Write(UefiLba, u, data)) /\ Safe(Write(UefiLba, 0, data))
  <2> HIDE DEF n, u
  <2>1. Boot0Lba + n <= LastUsable + 1 /\ UefiLba + u <= LastUsable + 1 BY <1>1, <1>2, <1>3, <1>4
  <2>2. Boot0Lba + 0 <= LastUsable + 1 /\ UefiLba + 0 <= LastUsable + 1
    <3>1. n >= 0 /\ u >= 0 BY FlashAssumption DEF n, u
    <3> QED BY <1>1, <1>2, <1>3, <1>4, <3>1
  <2> QED BY <1>1, <1>3, <2>1, <2>2, SafeWrite
<1>6. Good(EraseBoot)
  <2> DEFINE a == Write(Boot0Lba, n, <<Zeros>>)
             b == Write(Boot0Lba, 0, <<Zeros>>)
             c == Write(UefiLba, u, <<Zeros>>)
             d == Write(UefiLba, 0, <<Zeros>>)
  <2>1. EraseBoot = <<a, b, c, d>> BY DEF EraseBoot
  <2>2. Safe(a) /\ Safe(b) /\ Safe(c) /\ Safe(d) BY <1>5
  <2> HIDE DEF a, b, c, d
  <2> QED BY <2>1, <2>2 DEF Good
<1>7. Safe(Boot0Write) /\ Safe(UefiWrite) BY <1>5 DEF Boot0Write, UefiWrite
<1> QED BY <1>6, <1>7, GoodOne

(* So does the erasure of a part, head and tail.                           *)
LEMMA GoodErase ==
  ASSUME NEW p \in ErasedParts PROVE Good(ErasePart(p))
<1>0. PICK img \in Images : p \in {img[i] : i \in 2..Len(img)} BY DEF ErasedParts, PartsOf
<1>1. PICK i \in 2..Len(img) : p = img[i] BY <1>0
<1>2. p.addr \in Nat /\ p.len \in Nat
  <2>1. img \in Seq([name : STRING, addr : Nat, len : Nat]) /\ Len(img) \in Nat
    BY FlashAssumption
  <2>2. i \in 1..Len(img) BY <2>1
  <2>3. img[i] \in [name : STRING, addr : Nat, len : Nat] BY <2>1, <2>2, ElementOfSeq, Zenon
  <2> QED BY <1>1, <2>3
<1>3. p.addr + (IF p.len = 0 THEN EraseBlock ELSE p.len) <= LastUsable + 1
  BY <1>1, GeometryAssumption
<1>4. EraseBlock = 16384 /\ EraseTail = 4096 BY DEF EraseBlock, EraseTail
<1> DEFINE head == Write(p.addr, EraseBlock, <<Zeros>>)
           tail1 == Write(p.addr + p.len - EraseBlock, EraseTail, <<Zeros>>)
           tail2 == Write(p.addr + p.len - EraseTail, EraseTail, <<Zeros>>)
           only == Write(p.addr, IF p.len > 0 THEN p.len ELSE EraseBlock, <<Zeros>>)
<1>5. p.len > EraseBlock => Safe(head) /\ Safe(tail2) /\ (p.len > 2 * EraseBlock => Safe(tail1))
  BY <1>2, <1>3, <1>4, Numbers, SafeWrite
<1>6. Safe(only) BY <1>2, <1>3, <1>4, Numbers, SafeWrite
<1>7. \/ p.len > 2 * EraseBlock /\ ErasePart(p) = <<head, tail1>>
      \/ p.len > EraseBlock /\ ErasePart(p) = <<head, tail2>>
      \/ ErasePart(p) = <<only>>
  BY <1>2, <1>4 DEF ErasePart
<1>8. p.len > 2 * EraseBlock => p.len > EraseBlock BY <1>2, <1>4
<1> HIDE DEF head, tail1, tail2, only
<1> QED BY <1>5, <1>6, <1>7, <1>8, GoodOne, GoodTwo

(* So do the boot records of eMMCWriteMbr, in the first blocks.            *)
LEMMA GoodMbr ==
  ASSUME NEW img \in Images PROVE Good(MbrWrites(img))
<1> DEFINE n == IF Len(img) > 2 THEN Len(img) - 2 ELSE 0
           f == [i \in 1..n |-> Write(i, 1, <<ExtendedRecord(img, i)>>)]
           w == Write(0, 1, <<MasterRecord(img)>>)
<1>1. Len(img) \in 1..EntryNum BY FlashAssumption
<1>2. n \in Nat /\ n <= EntryNum /\ 1..n = 1..(Len(img) - 2) BY <1>1, Numbers
<1>3. MbrWrites(img) = f \o <<w>> BY <1>2 DEF MbrWrites
<1>4. Safe(w) BY Numbers, SafeWrite
<1>5. \A i \in 1..n : Safe(f[i])
  <2>1. ASSUME NEW i \in 1..n PROVE Safe(Write(i, 1, <<ExtendedRecord(img, i)>>))
    <3>1. i \in Int /\ i + 1 <= LastUsable + 1 BY <1>2, Numbers
    <3> QED BY <3>1, SafeWrite
  <2> QED BY <2>1
<1> DEFINE S == {f[i] : i \in 1..n} \cup {w}
<1>6. f \in Seq(S) /\ Len(f) = n BY <1>2
<1> HIDE DEF n, f, w
<1>7. <<w>> \in Seq(S) OBVIOUS
<1> DEFINE g == f \o <<w>>
<1>8. g \in Seq(S) /\ Len(g) = n + 1 BY <1>2, <1>6, <1>7
<1>9. \A i \in 1..Len(g) : Safe(g[i])
  <2>1. ASSUME NEW i \in 1..Len(g) PROVE g[i] \in {f[j] : j \in 1..n} \cup {w}
    BY <1>8, ElementOfSeq
  <2> HIDE DEF g
  <2> QED BY <1>4, <1>5, <2>1
<1>10. g # <<>> BY <1>2, <1>8
<1> HIDE DEF g, S
<1>11. g \in Seq({g[i] : i \in 1..Len(g)}) BY <1>8
<1> QED BY <1>3, <1>9, <1>10, <1>11 DEF Good, g

(* Every plan is a sequence of planned writes, and none of them reaches    *)
(* the backup.                                                             *)
LEMMA PlansGood ==
  /\ \A plan \in Plans : plan \in Seq(PlannedWrites) /\ plan # <<>>
  /\ \A w \in PlannedWrites : Safe(w)
<1>1. \A plan \in Plans : Good(plan) BY GoodBoot, GoodErase, GoodMbr DEF Plans
<1>2. ASSUME NEW plan \in Plans PROVE plan \in Seq(PlannedWrites)
  <2>1. {plan[i] : i \in 1..Len(plan)} \subseteq PlannedWrites BY DEF PlannedWrites
  <2>2. plan \in Seq({plan[i] : i \in 1..Len(plan)}) BY <1>1 DEF Good
  <2> QED BY <2>1, <2>2
<1>3. \A plan \in Plans : plan # <<>> BY <1>1 DEF Good
<1>4. ASSUME NEW w \in PlannedWrites PROVE Safe(w)
  <2>1. PICK plan \in Plans : w \in {plan[i] : i \in 1..Len(plan)} BY DEF PlannedWrites
  <2>2. PICK i \in 1..Len(plan) : w = plan[i] BY <2>1
  <2> QED BY <1>1, <2>2 DEF Good
<1> QED BY <1>2, <1>3, <1>4

-----------------------------------------------------------------------------
(* What a write makes of the disk, whether it is finished or cut short.    *)
Written(w) == disk' = Put(w, Covered(w)) \/ disk' \in PutPartly(w)

(* A write changes no block outside its range, and leaves the blocks in it *)
(* old, new or damaged.                                                    *)
LEMMA WrittenFacts ==
  ASSUME NEW w, Written(w)
  PROVE  /\ \A l \in Tracked : l \notin Covered(w) => disk'[l] = disk[l]
         /\ \A l \in Covered(w) : disk'[l] \in {disk[l], NewBlock(w, l), Torn}
<1>1. Covered(w) \subseteq Tracked BY DEF Covered
<1>2. CASE disk' = Put(w, Covered(w))
  <2>1. disk' = [l \in Tracked |-> IF l \in Covered(w) THEN NewBlock(w, l) ELSE disk[l]]
    BY <1>2 DEF Put
  <2> QED BY <1>1, <2>1
<1>3. CASE disk' \in PutPartly(w)
  <2>1. PICK how \in [Covered(w) -> {"old", "new", "torn"}] :
          disk' = [l \in Tracked |->
                     IF l \notin Covered(w) \/ how[l] = "old" THEN disk[l]
                     ELSE IF how[l] = "new" THEN NewBlock(w, l) ELSE Torn]
    BY <1>3 DEF PutPartly
  <2> QED BY <1>1, <2>1
<1> QED BY <1>2, <1>3 DEF Written

(* A write that is finished leaves the new content.                        *)
LEMMA PutFacts ==
  ASSUME NEW w, disk' = Put(w, Covered(w))
  PROVE  \A l \in Covered(w) : disk'[l] = NewBlock(w, l)
BY DEF Put, Covered

(* The entry i of a table lies in the block of its number.                 *)
LEMMA EntryPlace ==
  ASSUME NEW i \in 1..EntryNum
  PROVE  /\ (i - 1) \div PerBlock \in 0..(EntryBlocks - 1)
         /\ (i - 1) % PerBlock \in 0..(PerBlock - 1)
         /\ ((i - 1) \div PerBlock) * PerBlock + ((i - 1) % PerBlock) = i - 1
<1>1. EntryNum = EntryBlocks * PerBlock BY FlashAssumption
<1>2. EntryBlocks \in Nat \ {0} /\ PerBlock \in Nat \ {0} /\ EntryNum \in Nat BY Numbers
<1> DEFINE q == (i - 1) \div PerBlock
           r == (i - 1) % PerBlock
<1>3. ASSUME NEW p \in Nat \ {0}, NEW m \in Nat
      PROVE  /\ m \div p \in Int /\ m % p \in 0..(p - 1)
             /\ (m \div p) * p + (m % p) = m
  OBVIOUS
<1>4. i - 1 \in Nat /\ i - 1 < EntryNum BY <1>2
<1>5. q \in Int /\ r \in 0..(PerBlock - 1) /\ q * PerBlock + r = i - 1 BY <1>2, <1>3, <1>4
<1> HIDE DEF q, r
<1>6. ASSUME NEW x \in Int, NEW y \in Nat, NEW p \in Nat \ {0}, NEW e \in Nat, NEW m \in Nat,
             x * p + y = m, y < p, m < e * p
      PROVE  x \in 0..(e - 1)
  <2>1. x >= 0
    <3>1. SUFFICES ASSUME x <= -1 PROVE FALSE BY <1>6
    <3>2. x * p <= -p BY <3>1
    <3> QED BY <1>6, <3>2
  <2>2. x <= e - 1
    <3>1. SUFFICES ASSUME x >= e PROVE FALSE BY <1>6
    <3>2. x * p >= e * p BY <3>1
    <3> QED BY <1>6, <3>2
  <2> QED BY <2>1, <2>2
<1>7. q \in 0..(EntryBlocks - 1)
  <2>1. i - 1 < EntryBlocks * PerBlock BY <1>1, <1>4
  <2>2. r \in Nat /\ r < PerBlock BY <1>2, <1>5
  <2> QED BY <1>2, <1>4, <1>5, <1>6, <2>1, <2>2
<1> QED BY <1>5, <1>7 DEF q, r

(* Nothing that leaves the backup alone changes whether it verifies.       *)
LEMMA BackupKept ==
  ASSUME BackupHeader, \A l \in Backup : disk'[l] = disk[l]
  PROVE  BackupHeader' /\ (Verifies(LastLba)' <=> Verifies(LastLba))
<1>1. LastLba \in Backup BY Numbers DEF Backup
<1>2. disk'[LastLba] = disk[LastLba] BY <1>1
<1>3. ASSUME disk[LastLba].kind = "header"
      PROVE  ReadEntries(disk[LastLba])' = ReadEntries(disk[LastLba])
  <2>1. disk[LastLba].entries = LastUsable + 1 BY <1>3 DEF BackupHeader
  <2>2. ASSUME NEW i \in 1..EntryNum
        PROVE  disk'[LastUsable + 1 + (i - 1) \div PerBlock]
                 = disk[LastUsable + 1 + (i - 1) \div PerBlock]
    <3> DEFINE q == (i - 1) \div PerBlock
    <3>1. q \in 0..(EntryBlocks - 1) BY EntryPlace
    <3> HIDE DEF q
    <3>2. LastUsable + 1 + q \in Backup BY <3>1, Numbers DEF Backup
    <3> QED BY <3>2 DEF q
  <2> QED BY <1>2, <2>1, <2>2 DEF ReadEntries
<1>4. BackupHeader' BY <1>2 DEF BackupHeader
<1>5. Verifies(LastLba)' <=> Verifies(LastLba) BY <1>2, <1>3 DEF Verifies
<1> QED BY <1>4, <1>5

(* The entries of a table that is written as a whole are read back.        *)
LEMMA TableReads ==
  ASSUME NEW img \in Images, NEW h, NEW base \in Nat, h.entries = base,
         \A b \in 1..EntryBlocks : disk[base + b - 1] = PartEntry(img)[b]
  PROVE  ReadEntries(h) = Entries(img)
<1>1. ASSUME NEW i \in 1..EntryNum
      PROVE  LET blk == disk[base + (i - 1) \div PerBlock]
             IN  blk.kind = "entries" /\ blk.e[((i - 1) % PerBlock) + 1] = Entries(img)[i]
  <2> DEFINE q == (i - 1) \div PerBlock
             r == (i - 1) % PerBlock
  <2>1. q \in 0..(EntryBlocks - 1) /\ r \in 0..(PerBlock - 1) /\ q * PerBlock + r = i - 1
    BY EntryPlace
  <2> HIDE DEF q, r
  <2>2. q + 1 \in 1..EntryBlocks /\ base + (q + 1) - 1 = base + q
    BY <2>1, Numbers
  <2>3. disk[base + q] = PartEntry(img)[q + 1] BY <2>2
  <2>4. ASSUME NEW b \in 1..EntryBlocks
        PROVE  /\ PartEntry(img)[b].kind = "entries"
               /\ PartEntry(img)[b].e = SubSeq(Entries(img), (b - 1) * PerBlock + 1, b * PerBlock)
    <3>1. PartEntry(img)[b]
            = [kind |-> "entries",
               e |-> SubSeq(Entries(img), (b - 1) * PerBlock + 1, b * PerBlock)]
      BY Zenon DEF PartEntry
    <3>2. ASSUME NEW x, NEW y, x = [kind |-> "entries", e |-> y]
          PROVE  x.kind = "entries" /\ x.e = y
      BY <3>2
    <3> QED BY ONLY <3>1, <3>2
  <2> DEFINE S == {Entries(img)[j] : j \in 1..EntryNum}
             m == q * PerBlock + 1
             n == (q + 1) * PerBlock
  <2>5. Entries(img) \in Seq(S) /\ Len(Entries(img)) = EntryNum BY Numbers DEF Entries
  <2>6. m \in 1..(EntryNum + 1) /\ n \in (m - 1)..EntryNum /\ n - m + 1 = PerBlock
    <3>1. ASSUME NEW x \in Nat, NEW p \in Nat \ {0}, NEW e \in Nat, x + 1 <= e
          PROVE  x * p >= 0 /\ (x + 1) * p = x * p + p /\ x * p + p <= e * p
      <4>1. (x + 1) * p <= e * p BY <3>1
      <4> QED BY <4>1
    <3>2. EntryNum = EntryBlocks * PerBlock BY FlashAssumption
    <3>3. q \in Nat /\ q + 1 <= EntryBlocks BY <2>1, Numbers
    <3>4. q * PerBlock >= 0 /\ n = q * PerBlock + PerBlock /\ q * PerBlock + PerBlock <= EntryNum
      BY <3>1, <3>2, <3>3, Numbers
    <3>5. q * PerBlock \in Int BY <3>3, Numbers
    <3> DEFINE x == q * PerBlock
    <3> HIDE DEF x, n
    <3>6. m = x + 1 BY DEF x
    <3>7. x >= 0 /\ n = x + PerBlock /\ x + PerBlock <= EntryNum /\ x \in Int BY <3>4, <3>5 DEF x
    <3> QED BY <3>6, <3>7, Numbers
  <2>7. SubSeq(Entries(img), m, n)[r + 1] = Entries(img)[m + (r + 1) - 1]
    <3>1. r + 1 \in 1..(n - m + 1) BY <2>1, <2>6, Numbers
    <3> HIDE DEF m, n, S
    <3> QED BY <2>5, <2>6, <3>1, SubSeqProperties
  <2>8. m + (r + 1) - 1 = i
    <3>1. q * PerBlock \in Int BY <2>1, Numbers
    <3> QED BY <2>1, <3>1, Numbers
  <2>9. q + 1 - 1 = q BY <2>1
  <2>10. /\ disk[base + q].kind = "entries"
         /\ disk[base + q].e = SubSeq(Entries(img), m, n)
    <3>1. PICK b \in 1..EntryBlocks : b = q + 1 BY <2>2
    <3>2. PartEntry(img)[b].kind = "entries"
          /\ PartEntry(img)[b].e = SubSeq(Entries(img), (b - 1) * PerBlock + 1, b * PerBlock)
      BY <2>4
    <3>3. (b - 1) * PerBlock + 1 = m /\ b * PerBlock = n
      <4>1. b - 1 = q BY ONLY <2>1, <3>1
      <4> QED BY <3>1, <4>1
    <3>4. SubSeq(Entries(img), (b - 1) * PerBlock + 1, b * PerBlock) = SubSeq(Entries(img), m, n)
      <4> HIDE DEF m, n
      <4> QED BY ONLY <3>3
    <3>5. disk[base + q] = PartEntry(img)[b] BY <2>3, <3>1
    <3> HIDE DEF m, n
    <3> QED BY ONLY <3>2, <3>4, <3>5
  <2> QED BY <2>7, <2>8, <2>10 DEF q, r
<1>2. Entries(img) = [i \in 1..EntryNum |-> Entries(img)[i]] BY DEF Entries
<1>3. ReadEntries(h) = [i \in 1..EntryNum |-> Entries(img)[i]] BY <1>1 DEF ReadEntries
<1> QED BY <1>2, <1>3

(* So a primary table that is written as a whole verifies.                 *)
LEMMA PrimaryVerifies ==
  ASSUME NEW img \in Images, PrimaryIs(img)
  PROVE  Verifies(HeaderLba)
<1> DEFINE h == CreateGptTableAndEntry(img)
<1>1. h.kind = "header" /\ h.entries = EntryLba /\ h.entryCrc = Entries(img)
  BY DEF CreateGptTableAndEntry
<1>2. disk[HeaderLba] = h BY DEF PrimaryIs
<1>3. EntryLba \in Nat BY DEF EntryLba
<1> HIDE DEF h
<1>4. ReadEntries(h) = Entries(img) BY <1>1, <1>3, TableReads DEF PrimaryIs
<1> QED BY <1>1, <1>2, <1>4 DEF Verifies

(* The same of the next state.                                             *)
LEMMA PrimaryVerifiesNext ==
  \A img \in Images : PrimaryIs(img)' => Verifies(HeaderLba)'
<1>1. \A img \in Images : PrimaryIs(img) => Verifies(HeaderLba) BY PrimaryVerifies
<1>2. (\A img \in Images : PrimaryIs(img) => Verifies(HeaderLba))' BY <1>1, PTL
<1> QED BY <1>2

-----------------------------------------------------------------------------
(* The five writes of eMMCWriteGpt.                                        *)
LEMMA GptFacts ==
  ASSUME NEW img \in Images
  PROVE  /\ Len(GptWrites(img)) = 5 /\ GptWrites(img) = GptRest(img, 1)
         /\ GptWrites(img)[1] = Write(0, 1, <<CreateProtectiveMbr>>)
         /\ GptWrites(img)[2] = Write(HeaderLba, 1, <<CreateGptTableAndEntry(img)>>)
         /\ GptWrites(img)[3] = Write(EntryLba, EntryBlocks, PartEntry(img))
         /\ GptWrites(img)[4]
              = Write(LastLba, 1, <<PrimaryConvertBackup(CreateGptTableAndEntry(img))>>)
         /\ GptWrites(img)[5] = Write(LastUsable + 1, EntryBlocks, PartEntry(img))
         /\ PrimaryConvertBackup(CreateGptTableAndEntry(img)).entries = LastUsable + 1
<1> DEFINE h == CreateGptTableAndEntry(img)
           b == PrimaryConvertBackup(h)
<1>1. h.my = HeaderLba /\ h.entries = EntryLba /\ h.last = LastUsable /\ h.alternate = LastLba
  BY DEF CreateGptTableAndEntry
<1>2. b.my = LastLba /\ b.entries = LastUsable + 1
  BY <1>1 DEF CreateGptTableAndEntry, PrimaryConvertBackup
<1>3. GptWrites(img) = <<Write(0, 1, <<CreateProtectiveMbr>>), Write(h.my, 1, <<h>>),
                         Write(h.entries, EntryBlocks, PartEntry(img)), Write(b.my, 1, <<b>>),
                         Write(b.entries, EntryBlocks, PartEntry(img))>>
  BY DEF GptWrites
<1> HIDE DEF h, b
<1>4. /\ Len(GptWrites(img)) = 5
      /\ GptWrites(img)[1] = Write(0, 1, <<CreateProtectiveMbr>>)
      /\ GptWrites(img)[2] = Write(HeaderLba, 1, <<h>>)
      /\ GptWrites(img)[3] = Write(EntryLba, EntryBlocks, PartEntry(img))
      /\ GptWrites(img)[4] = Write(LastLba, 1, <<b>>)
      /\ GptWrites(img)[5] = Write(LastUsable + 1, EntryBlocks, PartEntry(img))
  BY <1>1, <1>2, <1>3
<1>5. GptWrites(img) = GptRest(img, 1)
  <2>1. GptRest(img, 1) = [j \in 1..5 |-> GptWrites(img)[j]] BY DEF GptRest
  <2>2. \A t1, t2, t3, t4, t5 : LET s == <<t1, t2, t3, t4, t5>> IN s = [j \in 1..5 |-> s[j]]
    OBVIOUS
  <2> QED BY <1>3, <2>1, <2>2
<1> QED BY <1>2, <1>4, <1>5 DEF h, b

(* What is left of the five writes, from the k-th on.                      *)
LEMMA RestFacts ==
  ASSUME NEW img, NEW k \in 1..5
  PROVE  /\ Len(GptRest(img, k)) = 6 - k /\ GptRest(img, k) # <<>>
         /\ Head(GptRest(img, k)) = GptWrites(img)[k]
         /\ k < 5 => Tail(GptRest(img, k)) = GptRest(img, k + 1)
<1>1. 6 - k \in Nat /\ 6 - k >= 1 OBVIOUS
<1>2. Len(GptRest(img, k)) = 6 - k BY <1>1 DEF GptRest
<1>3. GptRest(img, k)[1] = GptWrites(img)[k] BY DEF GptRest
<1>4. k < 5 => Tail(GptRest(img, k)) = GptRest(img, k + 1)
  <2> SUFFICES ASSUME k < 5 PROVE Tail(GptRest(img, k)) = GptRest(img, k + 1)
    OBVIOUS
  <2>1. Tail(GptRest(img, k)) = [j \in 1..(6 - k - 1) |-> GptRest(img, k)[j + 1]]
    <3>1. GptRest(img, k) \in Seq({GptRest(img, k)[j] : j \in 1..(6 - k)})
      <4>1. GptRest(img, k) = [j \in 1..(6 - k) |-> GptRest(img, k)[j]] BY DEF GptRest
      <4> QED BY <1>1, <4>1
    <3> DEFINE s == GptRest(img, k)
               S == {s[j] : j \in 1..(6 - k)}
    <3> HIDE DEF s
    <3>2. Tail(s) \in Seq(S) /\ Len(Tail(s)) = Len(s) - 1
          /\ \A j \in 1..Len(Tail(s)) : Tail(s)[j] = s[j + 1]
      BY <1>2, <3>1, HeadTailProperties DEF s
    <3> HIDE DEF S
    <3>3. Len(Tail(s)) = 6 - k - 1 BY <1>1, <1>2, <3>2 DEF s
    <3>4. ASSUME NEW t \in Seq(S) PROVE t = [j \in 1..Len(t) |-> t[j]] OBVIOUS
    <3>5. Tail(s) = [j \in 1..(6 - k - 1) |-> Tail(s)[j]] BY <3>2, <3>3, <3>4
    <3>6. \A j \in 1..(6 - k - 1) : Tail(s)[j] = s[j + 1] BY <3>2, <3>3
    <3>7. Tail(s) = [j \in 1..(6 - k - 1) |-> s[j + 1]] BY ONLY <3>5, <3>6
    <3> QED BY <3>7 DEF s
  <2>2. ASSUME NEW j \in 1..(6 - k - 1)
        PROVE  GptRest(img, k)[j + 1] = GptWrites(img)[j + (k + 1) - 1]
    <3>1. j + 1 \in 1..(6 - k) /\ j + 1 + k - 1 = j + (k + 1) - 1 OBVIOUS
    <3> QED BY <3>1 DEF GptRest
  <2>3. 6 - k - 1 = 6 - (k + 1) OBVIOUS
  <2> QED BY <2>1, <2>2, <2>3 DEF GptRest
<1> QED BY <1>1, <1>2, <1>3, <1>4

(* What the k-th write leaves as it is, and what it establishes when it is *)
(* finished: the first three do not touch the backup, the last two not the *)
(* primary table.                                                          *)
LEMMA GptWriteFacts ==
  ASSUME NEW img \in Images, NEW k \in 1..5, BackupHeader, Written(GptWrites(img)[k])
  PROVE  /\ BackupHeader'
         /\ k <= 3 => (Verifies(LastLba)' <=> Verifies(LastLba))
         /\ k > 3 /\ PrimaryIs(img) => PrimaryIs(img)'
         /\ disk' = Put(GptWrites(img)[k], Covered(GptWrites(img)[k])) =>
              /\ k = 2 => disk'[HeaderLba] = CreateGptTableAndEntry(img)
              /\ k = 3 /\ disk[HeaderLba] = CreateGptTableAndEntry(img) => PrimaryIs(img)'
<1> DEFINE h == CreateGptTableAndEntry(img)
           b == PrimaryConvertBackup(h)
           w == GptWrites(img)[k]
<1>1. /\ \A l \in Tracked : l \notin Covered(w) => disk'[l] = disk[l]
      /\ \A l \in Covered(w) : disk'[l] \in {disk[l], NewBlock(w, l), Torn}
  BY WrittenFacts
<1>2. disk' = Put(w, Covered(w)) => \A l \in Covered(w) : disk'[l] = NewBlock(w, l)
  BY PutFacts
<1>3. /\ HeaderLba = 1 /\ EntryLba = 2 /\ HeaderLba \in Tracked /\ Backup \subseteq Tracked
      /\ LastLba \in Backup
      /\ \A e \in 1..EntryBlocks : EntryLba + e - 1 \in Tracked
  BY Numbers DEF HeaderLba, EntryLba, Tracked, Backup
<1>4. Len(PartEntry(img)) = EntryBlocks BY Numbers DEF PartEntry
<1>5. CASE k = 1
  <2>1. w = Write(0, 1, <<CreateProtectiveMbr>>) BY <1>5, GptFacts
  <2>2. \A l \in Backup : l \notin Covered(w)
    BY <2>1, Numbers DEF Covered, Write, Backup
  <2>3. \A l \in Backup : disk'[l] = disk[l] BY <1>1, <1>3, <2>2
  <2> QED BY <1>5, <2>3, BackupKept
<1>6. CASE k = 2
  <2>1. w = Write(HeaderLba, 1, <<h>>) BY <1>6, GptFacts
  <2>2. \A l \in Backup : l \notin Covered(w)
    BY <1>3, <2>1, Numbers DEF Covered, Write, Backup
  <2>3. \A l \in Backup : disk'[l] = disk[l] BY <1>1, <1>3, <2>2
  <2>4. HeaderLba \in Covered(w) /\ NewBlock(w, HeaderLba) = h
    BY <1>3, <2>1 DEF Covered, Write, NewBlock
  <2> QED BY <1>2, <1>6, <2>3, <2>4, BackupKept
<1>7. CASE k = 3
  <2>1. w = Write(EntryLba, EntryBlocks, PartEntry(img)) BY <1>7, GptFacts
  <2>2. \A l \in Backup : l \notin Covered(w)
    BY <1>3, <2>1, Numbers DEF Covered, Write, Backup
  <2>3. \A l \in Backup : disk'[l] = disk[l] BY <1>1, <1>3, <2>2
  <2>4. HeaderLba \notin Covered(w) BY <1>3, <2>1 DEF Covered, Write
  <2>5. ASSUME NEW e \in 1..EntryBlocks
        PROVE  /\ EntryLba + e - 1 \in Covered(w)
               /\ NewBlock(w, EntryLba + e - 1) = PartEntry(img)[e]
    <3>1. EntryLba + e - 1 \in EntryLba..(EntryLba + EntryBlocks - 1) BY <1>3, Numbers
    <3>2. EntryLba + e - 1 - EntryLba < EntryBlocks /\ EntryLba + e - 1 - EntryLba + 1 = e
      BY <1>3, Numbers
    <3>3. w.at = EntryLba /\ w.n = EntryBlocks /\ w.data = PartEntry(img)
      BY <2>1 DEF Write
    <3>4. NewBlock(w, EntryLba + e - 1) = PartEntry(img)[e]
      <4> DEFINE l == EntryLba + e - 1
      <4>1. l - EntryLba < Len(PartEntry(img)) /\ l - EntryLba + 1 = e
          BY <1>3, <1>4, <3>2, Numbers
      <4>2. NewBlock(w, l) = PartEntry(img)[IF l - EntryLba < Len(PartEntry(img))
                                            THEN l - EntryLba + 1 ELSE Len(PartEntry(img))]
        BY <3>3, Zenon DEF NewBlock
      <4> HIDE DEF l
      <4>3. NewBlock(w, l) = PartEntry(img)[e] BY ONLY <4>1, <4>2
      <4> QED BY <4>3 DEF l
    <3> QED BY <1>3, <3>1, <3>3, <3>4 DEF Covered
  <2>6. disk' = Put(w, Covered(w)) /\ disk[HeaderLba] = h => PrimaryIs(img)'
    <3> SUFFICES ASSUME disk' = Put(w, Covered(w)), disk[HeaderLba] = h PROVE PrimaryIs(img)'
      OBVIOUS
    <3>1. disk'[HeaderLba] = h BY <1>1, <1>3, <2>4
    <3>2. \A e \in 1..EntryBlocks : disk'[EntryLba + e - 1] = PartEntry(img)[e] BY <1>2, <2>5
    <3> QED BY <3>1, <3>2 DEF PrimaryIs
  <2> QED BY <1>7, <2>3, <2>6, BackupKept
<1>8. ASSUME k > 3, \A l \in Covered(w) : l \in Backup
      PROVE  PrimaryIs(img) => PrimaryIs(img)'
  <2>1. HeaderLba \notin Backup /\ \A e \in 1..EntryBlocks : EntryLba + e - 1 \notin Backup
    BY <1>3, Numbers DEF Backup
  <2>2. disk'[HeaderLba] = disk[HeaderLba] BY <1>1, <1>3, <1>8, <2>1
  <2>3. \A e \in 1..EntryBlocks : disk'[EntryLba + e - 1] = disk[EntryLba + e - 1]
    BY <1>1, <1>3, <1>8, <2>1
  <2> QED BY <2>2, <2>3 DEF PrimaryIs
<1>9. CASE k = 4
  <2>1. w = Write(LastLba, 1, <<b>>) /\ b.entries = LastUsable + 1 BY <1>9, GptFacts
  <2>2. \A l \in Covered(w) : l = LastLba BY <2>1, Numbers DEF Covered, Write
  <2>3. NewBlock(w, LastLba) = b BY <2>1, Numbers DEF Write, NewBlock
  <2>4. disk'[LastLba] \in {disk[LastLba], b, Torn} BY <1>1, <1>3, <2>3
  <2>5. BackupHeader' BY <2>1, <2>4 DEF BackupHeader, Torn
  <2> QED BY <1>3, <1>8, <1>9, <2>2, <2>5
<1>10. CASE k = 5
  <2>1. w = Write(LastUsable + 1, EntryBlocks, PartEntry(img)) BY <1>10, GptFacts
  <2>2. \A l \in Covered(w) : l \in Backup /\ l # LastLba
    BY <2>1, Numbers DEF Covered, Write, Backup
  <2>3. disk'[LastLba] = disk[LastLba] BY <1>1, <1>3, <2>2
  <2>4. BackupHeader' BY <2>3 DEF BackupHeader
  <2> QED BY <1>8, <1>10, <2>2, <2>4
<1> QED BY <1>5, <1>6, <1>7, <1>9, <1>10

(* A planned write leaves the backup as it is.                             *)
LEMMA OtherWriteFacts ==
  ASSUME NEW w \in PlannedWrites, BackupHeader, Written(w)
  PROVE  BackupHeader' /\ (Verifies(LastLba)' <=> Verifies(LastLba))
<1>1. \A l \in Tracked : l \notin Covered(w) => disk'[l] = disk[l] BY WrittenFacts
<1>2. \A l \in Backup : l \in Tracked /\ l \notin Covered(w)
  BY PlansGood DEF Safe, Backup, Tracked
<1> QED BY <1>1, <1>2, BackupKept

-----------------------------------------------------------------------------
(* While a call writes, one copy of the table is not being written.        *)
LEMMA RunningSurvives ==
  ASSUME Running, OtherCall, GptCall PROVE GptSurvives
<1>1. CASE job.op # "gpt" BY <1>1 DEF OtherCall, GptSurvives
<1>2. CASE job.op = "gpt"
  <2>1. job.img \in Images /\ \E k \in 1..5 : (k <= 3 => (backupWhole => Verifies(LastLba)))
                                              /\ (k > 3 => PrimaryIs(job.img))
    BY <1>2 DEF GptCall
  <2> QED BY <2>1, PrimaryVerifies DEF GptSurvives
<1> QED BY <1>1, <1>2

(* A step that is not of a call that writes.                               *)
LEMMA StandStill ==
  ASSUME FlashInv, disk' = disk, job' = job, backupWhole' = backupWhole
  PROVE  FlashInv'
<1>1. Verifies(LastLba)' <=> Verifies(LastLba) BY DEF Verifies, ReadEntries
<1>2. Verifies(HeaderLba)' <=> Verifies(HeaderLba) BY DEF Verifies, ReadEntries
<1>3. \A img : PrimaryIs(img)' <=> PrimaryIs(img) BY DEF PrimaryIs
<1>4. JobShape' /\ BackupHeader' BY DEF FlashInv, JobShape, BackupHeader
<1>5. OtherCall' BY <1>1 DEF FlashInv, OtherCall, Running
<1>6. GptCall' BY <1>1, <1>3 DEF FlashInv, GptCall, Running
<1>7. GptSurvives' BY <1>1, <1>2 DEF FlashInv, GptSurvives
<1> QED BY <1>4, <1>5, <1>6, <1>7 DEF FlashInv

(* A call that ends, whatever its last write did: one of the copies is     *)
(* still there.                                                            *)
LEMMA CallEnds ==
  ASSUME BackupHeader', JobShape', job'.status # "running", GptSurvives'
  PROVE  FlashInv'
BY DEF FlashInv, OtherCall, GptCall, Running

(* A call that has ended writes nothing any more.                          *)
LEMMA EndFacts ==
  ASSUME JobShape, NEW status
  PROVE  /\ End(status).status = status
         /\ DOMAIN End(status) = {"op", "img", "todo", "parts", "status", "noMemory"}
BY DEF JobShape, End

(* What one write of the running call leaves, finished or not.             *)
LEMMA RunningWrite ==
  ASSUME FlashInv, Running, Written(Head(job.todo)), backupWhole' = backupWhole
  PROVE  BackupHeader' /\ GptSurvives'
<1>1. CASE job.op # "gpt"
  <2>1. job.todo \in Seq(PlannedWrites) /\ job.todo # <<>> BY <1>1 DEF FlashInv, OtherCall
  <2>2. Head(job.todo) \in PlannedWrites BY <2>1, HeadTailProperties
  <2>3. BackupHeader' /\ (Verifies(LastLba)' <=> Verifies(LastLba))
    BY <2>2, OtherWriteFacts DEF FlashInv
  <2> QED BY <1>1, <2>3 DEF FlashInv, OtherCall, GptSurvives
<1>2. CASE job.op = "gpt"
  <2>1. PICK k \in 1..5 :
          /\ job.img \in Images
          /\ job.todo = GptRest(job.img, k)
          /\ k <= 3 => (backupWhole => Verifies(LastLba))
          /\ k > 3 => PrimaryIs(job.img)
    BY <1>2 DEF FlashInv, GptCall
  <2>2. PICK img \in Images : img = job.img BY <2>1
  <2>3. Head(job.todo) = GptWrites(img)[k] BY <2>1, <2>2, RestFacts
  <2>4. /\ BackupHeader'
        /\ k <= 3 => (Verifies(LastLba)' <=> Verifies(LastLba))
        /\ k > 3 /\ PrimaryIs(img) => PrimaryIs(img)'
    BY <2>3, GptWriteFacts DEF FlashInv
  <2>5. k > 3 => Verifies(HeaderLba)' BY <2>1, <2>2, <2>4, PrimaryVerifiesNext
  <2> QED BY <2>1, <2>4, <2>5 DEF GptSurvives
<1> QED BY <1>1, <1>2

-----------------------------------------------------------------------------
(* The invariant holds of the empty card.                                  *)
LEMMA FlashInvInit == FlashInit => FlashInv
<1> SUFFICES ASSUME FlashInit PROVE FlashInv OBVIOUS
<1>1. JobShape /\ ~Running /\ ~backupWhole
  BY DEF FlashInit, Idle, JobShape, Running
<1>2. BackupHeader
  <2>1. LastLba \in Tracked BY Numbers DEF Tracked
  <2> QED BY <2>1 DEF FlashInit, BackupHeader, Zeros
<1> QED BY <1>1, <1>2 DEF FlashInv, OtherCall, GptCall, GptSurvives

(* A call begins: its history variable says whether the backup verified.   *)
LEMMA BeginInv ==
  ASSUME FlashInv, NEW op, NEW img, NEW todo, NEW parts, NEW status,
         Begin(op, img, todo, parts, status),
         status = "running" =>
           \/ op = "gpt" /\ img \in Images /\ todo = GptRest(img, 1) /\ parts = <<>>
           \/ op # "gpt" /\ todo \in Plans /\ parts \in Seq(ErasedParts)
  PROVE  FlashInv'
<1>1. /\ job' = [op |-> op, img |-> img, todo |-> todo, parts |-> parts, status |-> status,
                 noMemory |-> FALSE]
      /\ disk' = disk
  BY DEF Begin
<1>2. backupWhole' <=> Verifies(LastLba) BY Zenon DEF Begin
<1>3. Verifies(LastLba)' <=> Verifies(LastLba) BY <1>1 DEF Verifies, ReadEntries
<1>4. JobShape' BY <1>1 DEF JobShape
<1>5. BackupHeader' BY <1>1 DEF FlashInv, BackupHeader
<1>6. job'.op = op /\ job'.img = img /\ job'.todo = todo /\ job'.parts = parts
      /\ job'.status = status
  BY <1>1
<1>7. OtherCall'
  <2>1. todo \in Plans => todo \in Seq(PlannedWrites) /\ todo # <<>> BY PlansGood
  <2> QED BY <1>2, <1>3, <1>6, <2>1 DEF OtherCall, Running
<1>8. GptCall'
  <2> SUFFICES ASSUME status = "running", op = "gpt" PROVE GptCall'
    BY <1>6 DEF GptCall, Running
  <2>1. img \in Images /\ todo = GptRest(img, 1) /\ parts = <<>> OBVIOUS
  <2>2. 1 \in 1..5 /\ 1 <= 3 /\ ~(1 = 3) /\ ~(1 > 3) OBVIOUS
  <2> QED BY <1>2, <1>3, <1>6, <2>1, <2>2 DEF GptCall
<1>9. GptSurvives' BY <1>2, <1>3 DEF GptSurvives
<1> QED BY <1>4, <1>5, <1>7, <1>8, <1>9 DEF FlashInv

(* The parts that are erased, all but the first.                           *)
LEMMA TailParts ==
  ASSUME NEW img \in Images PROVE Tail(img) \in Seq(PartsOf(img))
<1> DEFINE S == [name : STRING, addr : Nat, len : Nat]
           t == Tail(img)
<1>1. img \in Seq(S) /\ Len(img) \in Nat /\ Len(img) >= 1 BY FlashAssumption
<1> HIDE DEF S
<1>2. img # <<>> BY <1>1
<1>3. t \in Seq(S) /\ Len(t) = Len(img) - 1 /\ \A i \in 1..Len(t) : t[i] = img[i + 1]
  BY <1>1, <1>2, HeadTailProperties
<1> HIDE DEF t
<1>4. ASSUME NEW i \in 1..Len(t) PROVE t[i] \in PartsOf(img)
  <2>1. i + 1 \in 2..Len(img) BY <1>1, <1>3
  <2> QED BY <1>3, <2>1 DEF PartsOf
<1>5. t \in Seq(PartsOf(img))
  <2>1. t = [i \in 1..Len(t) |-> t[i]] /\ Len(t) \in Nat BY <1>3
  <2> QED BY <1>4, <2>1
<1> QED BY <1>5 DEF t

(* The calls, one by one.                                                  *)
LEMMA CallsInv ==
  ASSUME FlashInv,
         \/ eMMCFlashIoWriteBootFiles
         \/ \E Erase \in BOOLEAN, img \in Images : eMMCFlashIoErase(Erase, img)
  PROVE  FlashInv'
<1>1. <<Boot0Write>> \in Plans /\ <<UefiWrite>> \in Plans /\ EraseBoot \in Plans
      /\ \A img \in Images : MbrWrites(img) \in Plans
  BY DEF Plans
<1>2. <<>> \in Seq(ErasedParts) OBVIOUS
<1>3. ASSUME NEW a \in BOOLEAN, NEW b \in BOOLEAN, NEW c \in BOOLEAN, eMMCWriteBoot0(a, b, c)
      PROVE  FlashInv'
  <2>1. Begin("boot0", <<>>, <<Boot0Write>>, <<>>, "running")
        \/ Begin("boot0", <<>>, <<>>, <<>>, "device_error")
    BY <1>3 DEF eMMCWriteBoot0
  <2> QED BY <1>1, <1>2, <2>1, BeginInv
<1>4. ASSUME NEW magic, eMMCWriteUefi(magic) PROVE FlashInv'
  <2>1. Begin("uefi", <<>>, <<UefiWrite>>, <<>>, "running")
        \/ Begin("uefi", <<>>, <<>>, <<>>, "device_error")
    BY <1>4 DEF eMMCWriteUefi
  <2> QED BY <1>1, <1>2, <2>1, BeginInv
<1>5. ASSUME NEW img \in Images, eMMCWriteMbr(img) PROVE FlashInv'
  <2>1. Begin("mbr", img, MbrWrites(img), <<>>, "running") BY <1>5 DEF eMMCWriteMbr
  <2> QED BY <1>1, <1>2, <2>1, BeginInv
<1>6. ASSUME NEW img \in Images, eMMCWriteGpt(img) PROVE FlashInv'
  <2>1. Begin("gpt", img, GptWrites(img), <<>>, "running") BY <1>6 DEF eMMCWriteGpt
  <2>2. GptWrites(img) = GptRest(img, 1) BY GptFacts
  <2> QED BY <2>1, <2>2, BeginInv
<1>7. ASSUME NEW Erase \in BOOLEAN, NEW img \in Images, eMMCFlashIoErase(Erase, img)
      PROVE  FlashInv'
  <2>1. Begin("erase", img, EraseBoot, Tail(img), "running")
        \/ Begin("noerase", img, <<>>, <<>>, "success")
    BY <1>7 DEF eMMCFlashIoErase
  <2>2. Tail(img) \in Seq(ErasedParts)
    <3>1. PartsOf(img) \subseteq ErasedParts BY DEF PartsOf, ErasedParts
    <3>2. \A S, T : S \subseteq T => \A s \in Seq(S) : s \in Seq(T) OBVIOUS
    <3> QED BY <3>1, <3>2, TailParts
  <2> QED BY <1>1, <2>1, <2>2, BeginInv
<1> QED BY <1>3, <1>4, <1>5, <1>6, <1>7 DEF eMMCFlashIoWriteBootFiles

(* A write that is finished: the call goes on to the next one, to the next *)
(* part, or ends.                                                          *)
LEMMA WriteBlocksInv ==
  ASSUME FlashInv, WriteBlocks PROVE FlashInv'
<1> DEFINE w == Head(job.todo)
<1>1. Running /\ disk' = Put(w, Covered(w)) /\ backupWhole' = backupWhole BY DEF WriteBlocks
<1>2. Written(w) BY <1>1 DEF Written
<1>3. BackupHeader' /\ GptSurvives' BY <1>1, <1>2, RunningWrite
<1>4. job' = IF Len(job.todo) > 1 THEN [job EXCEPT !.todo = Tail(@)]
             ELSE IF job.parts # <<>>
             THEN [job EXCEPT !.todo = ErasePart(Head(job.parts)), !.parts = Tail(@)]
             ELSE End("success")
  BY DEF WriteBlocks
<1>5. JobShape' BY <1>4, EndFacts DEF FlashInv, JobShape
<1>6. CASE job' = End("success")
  BY <1>3, <1>5, <1>6, EndFacts, CallEnds DEF FlashInv
<1>7. CASE job.op # "gpt" /\ job' # End("success")
  <2>1. /\ job.todo \in Seq(PlannedWrites) /\ job.todo # <<>> /\ job.parts \in Seq(ErasedParts)
        /\ backupWhole => Verifies(LastLba)
    BY <1>1, <1>7 DEF FlashInv, OtherCall
  <2>2. w \in PlannedWrites BY <2>1, HeadTailProperties
  <2>3. Verifies(LastLba)' <=> Verifies(LastLba) BY <1>2, <2>2, OtherWriteFacts DEF FlashInv
  <2>4. CASE Len(job.todo) > 1
    <3>1. job'.op = job.op /\ job'.todo = Tail(job.todo) /\ job'.parts = job.parts
      BY <1>4, <2>4 DEF FlashInv, JobShape
    <3>2. Tail(job.todo) \in Seq(PlannedWrites) /\ Len(Tail(job.todo)) = Len(job.todo) - 1
      BY <2>1, HeadTailProperties
    <3>3. Tail(job.todo) # <<>>
      <4>1. PICK n \in Nat : n = Len(job.todo) BY <2>1
      <4>2. PICK t \in Seq(PlannedWrites) : t = Tail(job.todo) BY <3>2
      <4>3. n > 1 /\ Len(t) = n - 1 BY <2>4, <3>2, <4>1, <4>2
      <4>4. Len(t) # 0
        <5>1. PICK m \in Nat : m = n - 1 BY <4>1, <4>3
        <5>2. m # 0 BY <4>3, <5>1
        <5> QED BY <4>3, <5>1, <5>2
      <4>5. t # <<>> BY <4>4
      <4> QED BY <4>2, <4>5
    <3>4. OtherCall' BY <1>1, <2>1, <2>3, <3>1, <3>2, <3>3 DEF OtherCall
    <3>5. GptCall' BY <1>7, <3>1 DEF GptCall
    <3> QED BY <1>3, <1>5, <3>4, <3>5 DEF FlashInv
  <2>5. CASE ~(Len(job.todo) > 1) /\ job.parts # <<>>
    <3>1. job'.op = job.op /\ job'.todo = ErasePart(Head(job.parts)) /\ job'.parts = Tail(job.parts)
      BY <1>4, <2>5 DEF FlashInv, JobShape
    <3>2. Head(job.parts) \in ErasedParts /\ Tail(job.parts) \in Seq(ErasedParts)
      BY <2>1, <2>5, HeadTailProperties
    <3>3. ErasePart(Head(job.parts)) \in Plans BY <3>2 DEF Plans
    <3>4. ErasePart(Head(job.parts)) \in Seq(PlannedWrites) /\ ErasePart(Head(job.parts)) # <<>>
      BY <3>3, PlansGood
    <3>5. OtherCall' BY <1>1, <2>1, <2>3, <3>1, <3>2, <3>4 DEF OtherCall
    <3>6. GptCall' BY <1>7, <3>1 DEF GptCall
    <3> QED BY <1>3, <1>5, <3>5, <3>6 DEF FlashInv
  <2> QED BY <1>4, <1>7, <2>4, <2>5
<1>8. CASE job.op = "gpt" /\ job' # End("success")
  <2>1. job.parts = <<>> BY <1>1, <1>8 DEF FlashInv, GptCall
  <2>2. Len(job.todo) > 1 /\ job' = [job EXCEPT !.todo = Tail(@)] BY <1>4, <1>8, <2>1
  <2>3. PICK k \in 1..5 :
          /\ job.img \in Images
          /\ job.todo = GptRest(job.img, k)
          /\ k <= 3 => (backupWhole => Verifies(LastLba))
          /\ k = 3 => disk[HeaderLba] = CreateGptTableAndEntry(job.img)
          /\ k > 3 => PrimaryIs(job.img)
    BY <1>1, <1>8 DEF FlashInv, GptCall
  <2>4. PICK img \in Images : img = job.img BY <2>3
  <2>5. Len(GptRest(img, k)) = 6 - k /\ w = GptWrites(img)[k]
        /\ (k < 5 => Tail(GptRest(img, k)) = GptRest(img, k + 1))
    BY <2>3, <2>4, RestFacts
  <2>6. k < 5
    <3>1. 6 - k > 1 BY <2>2, <2>3, <2>4, <2>5
    <3> QED BY <3>1
  <2>7. /\ job'.op = job.op /\ job'.img = img /\ job'.parts = <<>> /\ job'.status = job.status
        /\ job'.todo = GptRest(img, k + 1)
    <3>1. /\ job'.op = job.op /\ job'.img = job.img /\ job'.parts = job.parts
          /\ job'.status = job.status /\ job'.todo = Tail(job.todo)
      BY <2>2 DEF FlashInv, JobShape
    <3> QED BY <2>1, <2>3, <2>4, <2>5, <2>6, <3>1
  <2>8. /\ k <= 3 => (Verifies(LastLba)' <=> Verifies(LastLba))
        /\ k > 3 /\ PrimaryIs(img) => PrimaryIs(img)'
        /\ k = 2 => disk'[HeaderLba] = CreateGptTableAndEntry(img)
        /\ k = 3 /\ disk[HeaderLba] = CreateGptTableAndEntry(img) => PrimaryIs(img)'
    <3>1. Written(GptWrites(img)[k]) /\ disk' = Put(GptWrites(img)[k], Covered(GptWrites(img)[k]))
      BY <1>1, <1>2, <2>5
    <3> QED BY <3>1, GptWriteFacts DEF FlashInv
  <2>9. /\ k + 1 \in 1..5
        /\ k + 1 <= 3 => (backupWhole' => Verifies(LastLba)')
        /\ k + 1 = 3 => disk'[HeaderLba] = CreateGptTableAndEntry(img)
        /\ k + 1 > 3 => PrimaryIs(img)'
    <3>1. k + 1 \in 1..5 /\ (k + 1 <= 3 => k <= 3) /\ (k + 1 = 3 => k = 2)
          /\ (k + 1 > 3 => k = 3 \/ k > 3)
      BY <2>6
    <3> QED BY <1>1, <2>3, <2>4, <2>8, <3>1
  <2>10. GptCall'
    <3> DEFINE n == k + 1
    <3>1. n \in 1..5 /\ job'.todo = GptRest(img, n)
          /\ (n <= 3 => (backupWhole' => Verifies(LastLba)'))
          /\ (n = 3 => disk'[HeaderLba] = CreateGptTableAndEntry(img))
          /\ (n > 3 => PrimaryIs(img)')
      BY <2>7, <2>9
    <3> HIDE DEF n
    <3>2. job'.img = img /\ job'.img \in Images /\ job'.parts = <<>> BY <2>4, <2>7
    <3>3. \A g : g = img => (PrimaryIs(g)' <=> PrimaryIs(img)') OBVIOUS
    <3> QED BY <3>1, <3>2 DEF GptCall, PrimaryIs
  <2>11. OtherCall' BY <1>8, <2>7 DEF OtherCall
  <2> QED BY <1>3, <1>5, <2>10, <2>11 DEF FlashInv
<1> QED BY <1>6, <1>7, <1>8

(* A write that is cut short, by an error or by the power.                 *)
LEMMA CutShortInv ==
  ASSUME FlashInv, WriteBlocksFails \/ PowerLoss PROVE FlashInv'
<1>1. Running /\ disk' \in PutPartly(Head(job.todo)) /\ backupWhole' = backupWhole
  BY DEF WriteBlocksFails, PowerLoss
<1>2. PICK status \in {"device_error", "power_loss"} : job' = End(status)
  BY DEF WriteBlocksFails, PowerLoss
<1>3. BackupHeader' /\ GptSurvives' BY <1>1, RunningWrite DEF Written
<1>4. JobShape' /\ job'.status # "running" BY <1>2, EndFacts DEF FlashInv, JobShape
<1> QED BY <1>3, <1>4, CallEnds

(* A call that ends for want of memory has not touched the disk since.     *)
LEMMA NoMemoryInv ==
  ASSUME FlashInv, NoMemory PROVE FlashInv'
<1>1. Running /\ disk' = disk /\ backupWhole' = backupWhole BY DEF NoMemory
<1>2. PICK status \in {"out_of_resources", "not_found", "success"} :
        job' = End(status) \/ job' = [End(status) EXCEPT !.noMemory = TRUE]
  BY DEF NoMemory
<1>3. JobShape' /\ job'.status # "running" BY <1>2, EndFacts DEF FlashInv, JobShape
<1>4. BackupHeader' BY <1>1 DEF FlashInv, BackupHeader
<1>5. GptSurvives' BY <1>1 DEF FlashInv, GptSurvives, Verifies, ReadEntries
<1> QED BY <1>3, <1>4, <1>5, CallEnds

-----------------------------------------------------------------------------
(* Every step keeps the invariant.                                         *)
LEMMA FlashInvStep ==
  ASSUME FlashInv, [FlashNext \/ VendorNext]_flashVars PROVE FlashInv'
<1>1. CASE \/ eMMCFlashIoWriteBootFiles
           \/ \E Erase \in BOOLEAN, img \in Images : eMMCFlashIoErase(Erase, img)
  BY <1>1, CallsInv
<1>2. CASE WriteBlocks BY <1>2, WriteBlocksInv
<1>3. CASE WriteBlocksFails \/ PowerLoss BY <1>3, CutShortInv
<1>4. CASE NoMemory BY <1>4, NoMemoryInv
<1>5. CASE SunxiGetFsOffset BY <1>5, StandStill DEF SunxiGetFsOffset
<1>6. CASE VendorNext
  BY <1>6, StandStill DEF VendorNext, SunxiPartitionInitialize, sunxi_partition_refresh
<1>7. CASE UNCHANGED flashVars BY <1>7, StandStill DEF flashVars
<1> QED BY <1>1, <1>2, <1>3, <1>4, <1>5, <1>6, <1>7 DEF FlashNext

(* For any card, tables and number of calls, cut short at any write: if    *)
(* the backup verified when a call began, one of the two copies of the     *)
(* partition table verifies, during the call and after it.                 *)
THEOREM OneCopySurvives == FlashSpec => []GptSurvives
<1>1. FlashInv /\ [FlashNext \/ VendorNext]_flashVars => FlashInv' BY FlashInvStep
<1>2. FlashInv => GptSurvives BY DEF FlashInv
<1> QED BY <1>1, <1>2, FlashInvInit, PTL DEF FlashSpec
-----------------------------------------------------------------------------
(* What the calls that are through have left: the tables and their copies. *)

HeaderTrue(blk) == blk.kind = "header" => \E img \in Images : blk.entryCrc = Entries(img)

(* Every header on the disk was computed over the entries of one table.    *)
HeadersTrue == \A l \in Tracked : HeaderTrue(disk[l])

(* So was what SunxiGptPartitionInitialize accepted.                       *)
LibTrue == gptLib.status = 1 => \E img \in Images : gptLib.buf = Entries(img)

WindowTrue ==
  \/ fsWindow.part.start = fsWindow.part.end
  \/ fsWindow.base = fsWindow.part.start /\ fsWindow.base + fsWindow.size <= fsWindow.part.end

BackupOf(img) == PrimaryConvertBackup(CreateGptTableAndEntry(img))

(* eMMCWriteGpt at its last write.                                         *)
GptLast ==
  Running /\ job.op = "gpt" /\ Len(job.todo) = 1 => disk[LastLba] = BackupOf(job.img)

(* The number of boot records but the first, and what is left of the       *)
(* writes of eMMCWriteMbr from the k-th on.                                *)
Records(img) == IF Len(img) > 2 THEN Len(img) - 2 ELSE 0
MbrRest(img, k) == [j \in 1..(Records(img) + 2 - k) |-> MbrWrites(img)[j + k - 1]]
RecordsAre(img, k) == \A i \in 1..(k - 1) : disk[i] = ExtendedRecord(img, i)

MbrCall ==
  Running /\ job.op = "mbr" =>
    /\ job.img \in Images /\ job.parts = <<>>
    /\ \E k \in 1..(Records(job.img) + 1) :
         job.todo = MbrRest(job.img, k) /\ RecordsAre(job.img, k)

(* The calls that write one file.                                          *)
FileCall ==
  /\ Running /\ job.op = "boot0" => job.todo = <<Boot0Write>> /\ job.parts = <<>>
  /\ Running /\ job.op = "uefi" => job.todo = <<UefiWrite>> /\ job.parts = <<>>

EraseWrites(img) ==
  {EraseBoot[i] : i \in 1..4}
  \cup UNION {{ErasePart(p)[i] : i \in 1..Len(ErasePart(p))} : p \in PartsOf(img)}

(* The boot areas are erased, or will be.                                  *)
Erased(n, l) == disk[l] = Zeros \/ \E i \in 1..Len(job.todo) : job.todo[i] = EraseBoot[n]

EraseCall ==
  Running /\ job.op = "erase" =>
    /\ job.img \in Images
    /\ job.todo \in Seq(EraseWrites(job.img)) /\ job.parts \in Seq(PartsOf(job.img))
    /\ Erased(1, Boot0Lba) /\ Erased(3, UefiLba)

BackupIs(img) ==
  /\ disk[LastLba] = BackupOf(img)
  /\ \A b \in 1..EntryBlocks : disk[LastUsable + 1 + b - 1] = PartEntry(img)[b]

(* What a call that reports success has left behind.                       *)
Done(op) == job.status = "success" /\ ~job.noMemory /\ job.op = op
CallDone ==
  /\ Done("gpt") => job.img \in Images /\ PrimaryIs(job.img) /\ BackupIs(job.img)
  /\ Done("mbr") => /\ job.img \in Images /\ RecordsAre(job.img, Records(job.img) + 1)
                    /\ disk[0].parts[2].start = job.img[1].addr + MbrOffset
  /\ Done("boot0") => disk[Boot0Lba] = Boot0Image
  /\ Done("uefi") => disk[UefiLba] = UefiImage
  /\ Done("erase") => disk[Boot0Lba] = Zeros /\ disk[UefiLba] = Zeros

CallsTrue == GptLast /\ MbrCall /\ FileCall /\ EraseCall /\ CallDone

TablesInv == FlashInv /\ HeadersTrue /\ LibTrue /\ WindowTrue /\ CallsTrue

-----------------------------------------------------------------------------
(* What is written, one by one.                                            *)

(* A function on 1..n is a sequence of its values.                         *)
LEMMA SeqOfValues ==
  ASSUME NEW n \in Nat, NEW f, f = [j \in 1..n |-> f[j]], NEW S, \A j \in 1..n : f[j] \in S
  PROVE  f \in Seq(S) /\ Len(f) = n
OBVIOUS

(* The number of records of eMMCWriteMbr in numbers.                       *)
LEMMA RecordsNumber ==
  ASSUME NEW img \in Images
  PROVE  /\ Len(img) \in 1..EntryNum /\ Records(img) \in Nat /\ Records(img) < EntryNum
         /\ 1..Records(img) = 1..(Len(img) - 2)
         /\ Len(img) > 2 => Records(img) = Len(img) - 2
<1>1. Len(img) \in 1..EntryNum BY FlashAssumption
<1> QED BY <1>1, Numbers DEF Records

(* The writes of eMMCWriteMbr: record i to block i, then block 0.          *)
LEMMA MbrFacts ==
  ASSUME NEW img \in Images
  PROVE  /\ Len(MbrWrites(img)) = Records(img) + 1
         /\ \A i \in 1..Records(img) : MbrWrites(img)[i] = Write(i, 1, <<ExtendedRecord(img, i)>>)
         /\ MbrWrites(img)[Records(img) + 1] = Write(0, 1, <<MasterRecord(img)>>)
         /\ MbrWrites(img) = MbrRest(img, 1)
<1> DEFINE n == Records(img)
           f == [i \in 1..n |-> Write(i, 1, <<ExtendedRecord(img, i)>>)]
           w == Write(0, 1, <<MasterRecord(img)>>)
<1>1. n \in Nat /\ 1..n = 1..(Len(img) - 2) BY RecordsNumber
<1>2. MbrWrites(img) = f \o <<w>> BY <1>1 DEF MbrWrites
<1> DEFINE S == {f[i] : i \in 1..n} \cup {w}
<1>3. f \in Seq(S) /\ Len(f) = n
  <2>1. f = [i \in 1..n |-> f[i]] /\ \A i \in 1..n : f[i] \in S OBVIOUS
  <2> HIDE DEF f, n, S
  <2> QED BY <1>1, <2>1, SeqOfValues
<1>4. \A i \in 1..n : f[i] = Write(i, 1, <<ExtendedRecord(img, i)>>) OBVIOUS
<1> DEFINE g == f \o <<w>>
<1> HIDE DEF f, w, n
<1>5. <<w>> \in Seq(S) /\ Len(<<w>>) = 1 OBVIOUS
<1>6. g \in Seq(S) /\ Len(g) = n + 1 BY <1>1, <1>3, <1>5
<1>7. \A i \in 1..n : g[i] = f[i] BY <1>1, <1>3, <1>5
<1>8. g[n + 1] = w BY <1>1, <1>3, <1>5
<1> HIDE DEF g, S
<1>9. g = [j \in 1..(n + 1) |-> g[j]] BY <1>6
<1>10. MbrWrites(img) = MbrRest(img, 1)
  <2>1. MbrRest(img, 1) = [j \in 1..(n + 2 - 1) |-> MbrWrites(img)[j + 1 - 1]]
    BY DEF MbrRest, n
  <2>2. n + 2 - 1 = n + 1 BY <1>1
  <2>3. \A j \in 1..(n + 1) : j + 1 - 1 = j OBVIOUS
  <2> QED BY <1>2, <1>9, <2>1, <2>2, <2>3 DEF g
<1> QED BY <1>2, <1>4, <1>6, <1>7, <1>8, <1>10 DEF g, w, n

(* What is left of them, from the k-th on.                                 *)
LEMMA MbrRestFacts ==
  ASSUME NEW img \in Images, NEW k \in 1..(Records(img) + 1)
  PROVE  /\ Len(MbrRest(img, k)) = Records(img) + 2 - k /\ MbrRest(img, k) # <<>>
         /\ Head(MbrRest(img, k)) = MbrWrites(img)[k]
         /\ k <= Records(img) => Tail(MbrRest(img, k)) = MbrRest(img, k + 1)
<1> DEFINE n == Records(img) + 2 - k
           s == MbrRest(img, k)
<1>1. Records(img) \in Nat BY RecordsNumber
<1>2. n \in Nat /\ n >= 1 BY <1>1
<1>3. s = [j \in 1..n |-> MbrWrites(img)[j + k - 1]] BY DEF MbrRest
<1>4. 1 + k - 1 = k OBVIOUS
<1> DEFINE S == {s[j] : j \in 1..n}
<1> HIDE DEF n, s
<1>5. s \in Seq(S) /\ Len(s) = n
  <2>1. s = [j \in 1..n |-> s[j]] BY <1>3
  <2>2. \A j \in 1..n : s[j] \in S OBVIOUS
  <2> HIDE DEF S
  <2> QED BY <1>2, <2>1, <2>2, SeqOfValues
<1>6. s[1] = MbrWrites(img)[k] BY <1>2, <1>3, <1>4
<1>7. s # <<>> BY <1>2, <1>5
<1>8. Head(s) = s[1] BY <1>5, <1>7
<1> HIDE DEF S
<1>9. ASSUME k <= Records(img) PROVE Tail(s) = MbrRest(img, k + 1)
  <2>1. Tail(s) \in Seq(S) /\ Len(Tail(s)) = n - 1
        /\ \A j \in 1..Len(Tail(s)) : Tail(s)[j] = s[j + 1]
    BY <1>5, <1>7, HeadTailProperties
  <2>2. ASSUME NEW t \in Seq(S) PROVE t = [j \in 1..Len(t) |-> t[j]] OBVIOUS
  <2>3. Tail(s) = [j \in 1..(n - 1) |-> Tail(s)[j]] BY <2>1, <2>2
  <2>4. \A j \in 1..(n - 1) : Tail(s)[j] = s[j + 1] BY <2>1
  <2>5. Tail(s) = [j \in 1..(n - 1) |-> s[j + 1]] BY ONLY <2>3, <2>4
  <2>6. ASSUME NEW j \in 1..(n - 1) PROVE s[j + 1] = MbrWrites(img)[j + (k + 1) - 1]
    <3>1. j + 1 \in 1..n /\ (j + 1) + k - 1 = j + (k + 1) - 1 BY <1>2
    <3> QED BY <1>3, <3>1
  <2>7. n - 1 = Records(img) + 2 - (k + 1) BY <1>1 DEF n
  <2> QED BY <2>5, <2>6, <2>7 DEF MbrRest
<1> QED BY <1>5, <1>6, <1>7, <1>8, <1>9 DEF n, s

(* The erasure of the boot areas.                                          *)
LEMMA EraseBootFacts ==
  /\ EraseBoot \in Seq({EraseBoot[i] : i \in 1..4}) /\ Len(EraseBoot) = 4
  /\ EraseBoot[1] = Write(Boot0Lba, (32 * 1024) \div BlockSize, <<Zeros>>)
  /\ EraseBoot[2] = Write(Boot0Lba, 0, <<Zeros>>)
  /\ EraseBoot[3] = Write(UefiLba, (1024 * 1024) \div BlockSize, <<Zeros>>)
  /\ EraseBoot[4] = Write(UefiLba, 0, <<Zeros>>)
  /\ (32 * 1024) \div BlockSize \in Nat \ {0} /\ (1024 * 1024) \div BlockSize \in Nat \ {0}
<1> DEFINE n == (32 * 1024) \div BlockSize
           u == (1024 * 1024) \div BlockSize
<1>1. BlockSize \in Nat \ {0} /\ BlockSize <= 32 * 1024 BY FlashAssumption
<1>2. ASSUME NEW m \in Nat, NEW b \in Nat \ {0}, b <= m PROVE m \div b \in Nat \ {0}
  <2>1. m \div b \in Int /\ m % b \in 0..(b - 1) /\ (m \div b) * b + (m % b) = m OBVIOUS
  <2> DEFINE q == m \div b
  <2> HIDE DEF q
  <2>2. q \in Int /\ q * b > 0 BY <1>2, <2>1 DEF q
  <2>3. q >= 1
    <3>1. SUFFICES ASSUME q <= 0 PROVE FALSE BY <2>2
    <3>2. q * b <= 0 BY <2>2, <3>1
    <3> QED BY <2>2, <3>2
  <2> QED BY <2>2, <2>3 DEF q
<1>3. n \in Nat \ {0} /\ u \in Nat \ {0} BY <1>1, <1>2
<1> HIDE DEF n, u
<1>4. EraseBoot = <<Write(Boot0Lba, n, <<Zeros>>), Write(Boot0Lba, 0, <<Zeros>>),
                    Write(UefiLba, u, <<Zeros>>), Write(UefiLba, 0, <<Zeros>>)>>
  BY DEF EraseBoot, n, u
<1> QED BY <1>3, <1>4 DEF n, u

(* The erasure of a part writes zeros inside it, but for a part without a  *)
(* length that is not the last one.                                        *)
LEMMA ErasePartFacts ==
  ASSUME NEW img \in Images, NEW i \in 2..Len(img), NEW j \in 1..Len(ErasePart(img[i]))
  PROVE  LET w == ErasePart(img[i])[j]
         IN  /\ w.at \in Nat /\ w.n \in Nat /\ w.data = <<Zeros>>
             /\ Entry(img, i).start <= w.at
             /\ \/ w.at + w.n - 1 <= Entry(img, i).end
                \/ i < Len(img) /\ img[i].len = 0
<1> DEFINE p == img[i]
<1>1. p.addr \in Nat /\ p.len \in Nat
  <2>1. img \in Seq([name : STRING, addr : Nat, len : Nat]) /\ Len(img) \in Nat
    BY FlashAssumption
  <2>2. i \in 1..Len(img) BY <2>1
  <2>3. img[i] \in [name : STRING, addr : Nat, len : Nat] BY <2>1, <2>2, ElementOfSeq, Zenon
  <2> QED BY <2>3
<1>2. p.addr + (IF p.len = 0 THEN EraseBlock ELSE p.len) <= LastUsable + 1
  BY GeometryAssumption
<1>3. EraseBlock = 16384 /\ EraseTail = 4096 BY DEF EraseBlock, EraseTail
<1>4. /\ Entry(img, i).start = p.addr
      /\ Entry(img, i).end = IF i = Len(img) THEN LastUsable ELSE p.addr + p.len - 1
  BY DEF Entry
<1>5. Len(img) \in Nat /\ i \in Nat /\ i <= Len(img) BY FlashAssumption
<1> DEFINE head == Write(p.addr, EraseBlock, <<Zeros>>)
           tail1 == Write(p.addr + p.len - EraseBlock, EraseTail, <<Zeros>>)
           tail2 == Write(p.addr + p.len - EraseTail, EraseTail, <<Zeros>>)
           only == Write(p.addr, IF p.len > 0 THEN p.len ELSE EraseBlock, <<Zeros>>)
<1>10. /\ Entry(img, i).end \in Int
       /\ p.len > 0 => p.addr + p.len - 1 <= Entry(img, i).end
  <2>1. LastUsable \in Int BY Numbers
  <2> QED BY <1>1, <1>2, <1>4, <2>1
<1>6. \/ p.len > 2 * EraseBlock /\ ErasePart(p) = <<head, tail1>>
      \/ p.len > EraseBlock /\ ErasePart(p) = <<head, tail2>>
      \/ p.len <= EraseBlock /\ ErasePart(p) = <<only>>
  BY <1>1, <1>3 DEF ErasePart
<1> HIDE DEF p
<1>7. ASSUME NEW w, \/ p.len > EraseBlock /\ w \in {head, tail2}
                    \/ p.len > 2 * EraseBlock /\ w \in {head, tail1}
                    \/ p.len <= EraseBlock /\ w = only
      PROVE  /\ w.at \in Nat /\ w.n \in Nat /\ w.data = <<Zeros>>
             /\ Entry(img, i).start <= w.at
             /\ \/ w.at + w.n - 1 <= Entry(img, i).end
                \/ i < Len(img) /\ p.len = 0
  <2>1. CASE p.len > EraseBlock /\ w = head
    <3>1. w.at = p.addr /\ w.n = 16384 /\ w.data = <<Zeros>> BY <1>3, <2>1 DEF Write
    <3>2. p.len > 16384 BY <1>3, <2>1
    <3>3. p.addr + p.len - 1 <= Entry(img, i).end BY <1>1, <1>10, <3>2
    <3>4. w.at + w.n - 1 <= Entry(img, i).end BY <1>1, <1>10, <3>1, <3>2, <3>3
    <3> QED BY <1>1, <1>4, <3>1, <3>4
  <2>2. CASE p.len > EraseBlock /\ w = tail2
    <3>1. w.at = p.addr + p.len - 4096 /\ w.n = 4096 /\ w.data = <<Zeros>>
      BY <1>3, <2>2 DEF Write
    <3>2. p.len > 16384 BY <1>3, <2>2
    <3>3. p.addr + p.len - 1 <= Entry(img, i).end BY <1>1, <1>10, <3>2
    <3>4. w.at \in Nat /\ p.addr <= w.at BY <1>1, <3>1, <3>2
    <3>5. w.at + w.n - 1 = p.addr + p.len - 1
      <4>1. (p.addr + p.len - 4096) + 4096 - 1 = p.addr + p.len - 1 BY <1>1
      <4> QED BY <3>1, <4>1
    <3> QED BY <1>4, <3>1, <3>3, <3>4, <3>5
  <2>3. CASE p.len > 2 * EraseBlock /\ w = tail1
    <3>1. w.at = p.addr + p.len - 16384 /\ w.n = 4096 /\ w.data = <<Zeros>>
      BY <1>3, <2>3 DEF Write
    <3>2. p.len > 32768 BY <1>3, <2>3
    <3>3. p.addr + p.len - 1 <= Entry(img, i).end BY <1>1, <1>10, <3>2
    <3>4. w.at \in Nat /\ p.addr <= w.at BY <1>1, <3>1, <3>2
    <3>5. w.at + w.n - 1 <= Entry(img, i).end BY <1>1, <1>10, <3>1, <3>2, <3>3
    <3> QED BY <1>4, <3>1, <3>4, <3>5
  <2>4. CASE p.len <= EraseBlock /\ w = only
    <3>1. w.at = p.addr /\ w.data = <<Zeros>> BY <2>4 DEF Write
    <3>2. w.n = IF p.len > 0 THEN p.len ELSE 16384 BY <1>3, <2>4 DEF Write
    <3>3. CASE p.len > 0
      <4>1. w.at + w.n - 1 <= Entry(img, i).end BY <1>1, <1>10, <3>1, <3>2, <3>3
      <4> QED BY <1>1, <1>4, <3>1, <3>2, <3>3, <4>1
    <3>4. CASE p.len = 0
      <4>1. w.n = 16384 BY <3>2, <3>4
      <4>2. i = Len(img) => w.at + w.n - 1 <= Entry(img, i).end
        BY <1>1, <1>2, <1>3, <1>4, <3>1, <3>4, <4>1, Numbers
      <4> QED BY <1>1, <1>4, <1>5, <3>1, <3>4, <4>1, <4>2
    <3> QED BY <1>1, <3>3, <3>4
  <2>5. p.len > 2 * EraseBlock => p.len > EraseBlock BY <1>1, <1>3
  <2> QED BY <1>7, <2>1, <2>2, <2>3, <2>4, <2>5
<1> HIDE DEF head, tail1, tail2, only
<1>8. j \in 1..Len(ErasePart(p)) BY DEF p
<1>9. \/ p.len > 2 * EraseBlock /\ ErasePart(p)[j] \in {head, tail1}
      \/ p.len > EraseBlock /\ ErasePart(p)[j] \in {head, tail2}
      \/ p.len <= EraseBlock /\ ErasePart(p)[j] = only
  BY <1>6, <1>8
<1>11. PICK w : w = ErasePart(p)[j] OBVIOUS
<1> QED BY <1>7, <1>9, <1>11 DEF p

-----------------------------------------------------------------------------
(* The chain of boot records.                                              *)

(* A set of numbers that is not empty has a least element: what a proof by *)
(* induction needs.                                                        *)
LEMMA LeastOf ==
  ASSUME NEW T, T \subseteq Nat, T # {}
  PROVE  \E x \in T : \A y \in T : x <= y
<1>1. IsWellFoundedOn(OpToRel(<, Nat), Nat) BY NatLessThanWellFounded
<1>2. PICK x \in T : \A y \in T : ~(<<y, x>> \in OpToRel(<, Nat)) BY <1>1, WFMin
<1>3. \A y \in T : ~(y < x) BY <1>2 DEF OpToRel
<1> QED BY <1>3

(* A part of a table has a name, an address and a length.                  *)
LEMMA PartFacts ==
  ASSUME NEW img \in Images, NEW i \in 1..Len(img)
  PROVE  img[i].addr \in Nat /\ img[i].len \in Nat
<1>1. img \in Seq([name : STRING, addr : Nat, len : Nat]) BY FlashAssumption
<1>2. img[i] \in [name : STRING, addr : Nat, len : Nat] BY <1>1, ElementOfSeq, Zenon
<1> QED BY <1>2

(* A record but the last leads to the next block, the last one nowhere.    *)
LEMMA LinkedFacts ==
  ASSUME NEW img \in Images, NEW l \in 1..Records(img), disk[l] = ExtendedRecord(img, l)
  PROVE  /\ Linked(l) = IF l = Records(img) THEN {} ELSE {l + 1}
         /\ disk[l].parts[1].start + l = img[l + 1].addr + MbrOffset
         /\ disk[l].parts[1].size = img[l + 1].len
<1>1. /\ Records(img) \in Nat /\ Len(img) > 2 /\ Records(img) = Len(img) - 2
      /\ Len(img) \in Nat
  BY RecordsNumber DEF Records
<1> DEFINE p == MbrPart("83", img[l + 1].addr - l + MbrOffset, img[l + 1].len)
           q == MbrPart("05", l, img[l + 1].len)
           r == <<p>> \o (IF l = Len(img) - 2 THEN <<>> ELSE <<q>>)
<1>2. disk[l].kind = "mbr" /\ disk[l].parts = r BY DEF ExtendedRecord
<1>3. p.start = img[l + 1].addr - l + MbrOffset /\ p.size = img[l + 1].len
      /\ q.type = "05" /\ q.start = l
  BY DEF MbrPart
<1>4. /\ l = Records(img) => r = <<p>> \o <<>>
      /\ l # Records(img) => r = <<p>> \o <<q>>
  BY <1>1
<1> HIDE DEF p, q, r
<1>5. /\ l = Records(img) => Len(r) = 1
      /\ l # Records(img) => Len(r) = 2 /\ r[2] = q
      /\ r[1] = p
  <2>1. \A x, y : /\ Len(<<x>> \o <<>>) = 1 /\ (<<x>> \o <<>>)[1] = x
                  /\ Len(<<x>> \o <<y>>) = 2
                  /\ (<<x>> \o <<y>>)[1] = x /\ (<<x>> \o <<y>>)[2] = y
    OBVIOUS
  <2>2. Len(<<p>> \o <<>>) = 1 /\ (<<p>> \o <<>>)[1] = p BY <2>1, Zenon
  <2>3. Len(<<p>> \o <<q>>) = 2 /\ (<<p>> \o <<q>>)[1] = p /\ (<<p>> \o <<q>>)[2] = q
    BY <2>1, Zenon
  <2>4. CASE l = Records(img) BY <1>4, <2>2, <2>4, Zenon
  <2>5. CASE l # Records(img) BY <1>4, <2>3, <2>5, Zenon
  <2> QED BY <2>4, <2>5, Zenon
<1>6. Linked(l) = {1 + r[j].start : j \in {i \in 2..Len(r) : r[i].type = "05"}}
  BY <1>2 DEF Linked
<1>7. Linked(l) = IF l = Records(img) THEN {} ELSE {l + 1}
  <2>1. CASE l = Records(img)
    <3>1. 2..Len(r) = {} BY <1>5, <2>1
    <3> QED BY <1>6, <2>1, <3>1
  <2>2. CASE l # Records(img)
    <3>1. \A i : i \in 2..Len(r) <=> i = 2
      <4>1. Len(r) = 2 BY <1>5, <2>2
      <4>2. \A i : i \in 2..2 <=> i = 2 OBVIOUS
      <4> QED BY <4>1, <4>2
    <3>2. {i \in 2..Len(r) : r[i].type = "05"} = {2} BY <1>3, <1>5, <2>2, <3>1
    <3>3. Linked(l) = {1 + r[2].start} BY <1>6, <3>2
    <3> QED BY <1>3, <1>5, <2>2, <3>3
  <2> QED BY <2>1, <2>2
<1>8. img[l + 1].addr \in Nat
  <2>1. l + 1 \in 1..Len(img) BY <1>1
  <2> QED BY <2>1, PartFacts
<1>9. disk[l].parts[1].start + l = img[l + 1].addr + MbrOffset
  <2>1. MbrOffset \in Nat BY DEF MbrOffset
  <2> QED BY <1>2, <1>3, <1>5, <1>8, <2>1
<1> QED BY <1>2, <1>3, <1>5, <1>7, <1>9

(* The chain leads to each of the records that were written.               *)
LEMMA ChainFacts ==
  ASSUME NEW img \in Images, Len(img) > 2, RecordsAre(img, Records(img) + 1)
  PROVE  Chain(img) = 1..Records(img)
<1> DEFINE n == Records(img)
<1>1. n \in Nat /\ n = Len(img) - 2 /\ n >= 1 /\ Len(img) \in Nat BY RecordsNumber
<1>2. \A l \in 1..n : Linked(l) = IF l = n THEN {} ELSE {l + 1}
  <2>1. \A l \in 1..n : disk[l] = ExtendedRecord(img, l) BY <1>1 DEF RecordsAre
  <2> QED BY <2>1, LinkedFacts
<1> HIDE DEF n
<1>3. 1..n \in SUBSET (1..Len(img)) BY <1>1
<1>4. Closed(1..n)
  <2>1. \A l \in 1..n : Linked(l) \subseteq 1..n BY <1>1, <1>2
  <2> QED BY <1>1, <2>1 DEF Closed
<1>5. Chain(img) \subseteq 1..n BY <1>3, <1>4 DEF Chain
<1>6. ASSUME NEW b \in SUBSET (1..Len(img)), Closed(b) PROVE 1..n \subseteq b
  <2> DEFINE T == (1..n) \ b
  <2>1. SUFFICES ASSUME T # {} PROVE FALSE OBVIOUS
  <2>2. PICK x \in T : \A y \in T : x <= y
    <3>1. T \subseteq Nat OBVIOUS
    <3> HIDE DEF T
    <3> QED BY <2>1, <3>1, LeastOf
  <2>3. x # 1 /\ x \in 1..n /\ x \notin b BY <1>6 DEF Closed
  <2>4. x - 1 \in 1..n /\ x - 1 # n /\ x - 1 + 1 = x BY <1>1, <2>3
  <2>5. x - 1 \in b BY <2>2, <2>3, <2>4
  <2>6. x \in Linked(x - 1) BY <1>2, <2>4
  <2> QED BY <1>6, <2>3, <2>5, <2>6 DEF Closed
<1>7. 1..n \subseteq Chain(img) BY <1>3, <1>6 DEF Chain
<1> QED BY <1>5, <1>7 DEF n

(* So the records lead to all parts but the first and the last.            *)
LEMMA ChainTrue ==
  ASSUME NEW img \in Images, RecordsAre(img, Records(img) + 1)
  PROVE  ChainParts(img) = {<<img[i].addr + MbrOffset, img[i].len>> : i \in 2..(Len(img) - 1)}
<1>1. CASE Len(img) > 2
  <2> DEFINE n == Records(img)
  <2>1. n \in Nat /\ n = Len(img) - 2 /\ Len(img) \in Nat BY <1>1, RecordsNumber
  <2>2. Chain(img) = 1..n BY <1>1, ChainFacts
  <2>3. ChainParts(img) = {<<disk[l].parts[1].start + l, disk[l].parts[1].size>> : l \in 1..n}
    BY <1>1, <2>2 DEF ChainParts
  <2>4. \A l \in 1..n : /\ disk[l].parts[1].start + l = img[l + 1].addr + MbrOffset
                        /\ disk[l].parts[1].size = img[l + 1].len
    BY <2>1, LinkedFacts DEF RecordsAre
  <2>5. ChainParts(img) = {<<img[l + 1].addr + MbrOffset, img[l + 1].len>> : l \in 1..n}
    BY <2>3, <2>4
  <2> HIDE DEF n
  <2>6. ASSUME NEW l \in 1..n PROVE \E i \in 2..(Len(img) - 1) : i = l + 1 BY <2>1
  <2>7. ASSUME NEW i \in 2..(Len(img) - 1) PROVE \E l \in 1..n : i = l + 1
    <3>1. i - 1 \in 1..n /\ i = (i - 1) + 1 BY <2>1
    <3> QED BY <3>1
  <2> QED BY <2>5, <2>6, <2>7
<1>2. CASE ~(Len(img) > 2)
  <2>1. Len(img) \in Nat BY FlashAssumption
  <2>2. 2..(Len(img) - 1) = {} BY <1>2, <2>1
  <2>3. ChainParts(img) = {} BY <1>2 DEF ChainParts
  <2> QED BY <2>2, <2>3
<1> QED BY <1>1, <1>2

-----------------------------------------------------------------------------
(* What a write makes of the headers.                                      *)

(* A write whose data is a single block writes it everywhere.              *)
LEMMA SameBlock ==
  ASSUME NEW w, NEW x, w.data = <<x>>, w.at \in Int, NEW l \in Covered(w)
  PROVE  NewBlock(w, l) = x
<1>1. l \in Int /\ l >= w.at BY DEF Covered
<1>2. Len(<<x>>) = 1 /\ <<x>>[1] = x OBVIOUS
<1>3. (IF l - w.at < 1 THEN l - w.at + 1 ELSE 1) = 1 BY <1>1
<1> QED BY <1>2, <1>3 DEF NewBlock

(* No other call than eMMCWriteGpt writes a header.                        *)
LEMMA PlannedFacts ==
  ASSUME NEW w \in PlannedWrites
  PROVE  w.at \in Int /\ \E x : w.data = <<x>> /\ x.kind # "header"
<1> DEFINE G(v) == v.at \in Int /\ \E x : v.data = <<x>> /\ x.kind # "header"
<1>1. ASSUME NEW at \in Int, NEW n, NEW x, x.kind # "header" PROVE G(Write(at, n, <<x>>))
  BY <1>1 DEF Write
<1> DEFINE P(plan) == \A i \in 1..Len(plan) : G(plan[i])
<1> HIDE DEF G
<1>2. Zeros.kind # "header" /\ Boot0Image.kind # "header" /\ UefiImage.kind # "header"
  BY DEF Zeros, Boot0Image, UefiImage
<1>3. Boot0Lba \in Int /\ UefiLba \in Int BY DEF Boot0Lba, UefiLba
<1>4. P(EraseBoot)
  <2>1. ASSUME NEW i \in 1..4 PROVE G(EraseBoot[i]) BY <1>1, <1>2, <1>3, EraseBootFacts
  <2> QED BY <2>1, EraseBootFacts
<1>5. P(<<Boot0Write>>) /\ P(<<UefiWrite>>)
  <2>1. G(Boot0Write) /\ G(UefiWrite) BY <1>1, <1>2, <1>3 DEF Boot0Write, UefiWrite
  <2> QED BY <2>1
<1>6. ASSUME NEW img \in Images PROVE P(MbrWrites(img))
  <2>1. Records(img) \in Nat BY RecordsNumber
  <2>2. ASSUME NEW i \in 1..(Records(img) + 1) PROVE G(MbrWrites(img)[i])
    <3>1. CASE i \in 1..Records(img)
      <4>1. ExtendedRecord(img, i).kind # "header" BY DEF ExtendedRecord
      <4>2. MbrWrites(img)[i] = Write(i, 1, <<ExtendedRecord(img, i)>>) BY <3>1, MbrFacts
      <4> QED BY <1>1, <4>1, <4>2
    <3>2. CASE i = Records(img) + 1
      <4>1. MasterRecord(img).kind # "header" BY DEF MasterRecord
      <4>2. MbrWrites(img)[i] = Write(0, 1, <<MasterRecord(img)>>) BY <3>2, MbrFacts
      <4> QED BY <1>1, <4>1, <4>2
    <3> QED BY <2>1, <3>1, <3>2
  <2> QED BY <2>2, MbrFacts
<1>7. ASSUME NEW p \in ErasedParts PROVE P(ErasePart(p))
  <2>1. PICK img \in Images : \E i \in 2..Len(img) : p = img[i] BY DEF ErasedParts, PartsOf
  <2>2. PICK i \in 2..Len(img) : p = img[i] BY <2>1
  <2>3. ASSUME NEW j \in 1..Len(ErasePart(p)) PROVE G(ErasePart(p)[j])
    <3>1. ErasePart(p)[j].at \in Nat /\ ErasePart(p)[j].data = <<Zeros>>
      BY <2>2, ErasePartFacts
    <3> QED BY <1>2, <3>1 DEF G
  <2> QED BY <2>3
<1>8. PICK plan \in Plans : w \in {plan[i] : i \in 1..Len(plan)} BY DEF PlannedWrites
<1>9. PICK i \in 1..Len(plan) : w = plan[i] BY <1>8
<1>10. P(plan) BY <1>4, <1>5, <1>6, <1>7 DEF Plans
<1> QED BY <1>9, <1>10 DEF G

(* A write of blocks that are no false headers leaves none.                *)
LEMMA HeadersKept ==
  ASSUME HeadersTrue, NEW w, Written(w), \A l \in Covered(w) : HeaderTrue(NewBlock(w, l))
  PROVE  HeadersTrue'
<1>1. HeaderTrue(Torn) BY DEF HeaderTrue, Torn
<1>2. \A l \in Tracked : \/ disk'[l] = disk[l] \/ disk'[l] = Torn
                         \/ (l \in Covered(w) /\ disk'[l] = NewBlock(w, l))
  <2>1. /\ \A l \in Tracked : l \notin Covered(w) => disk'[l] = disk[l]
        /\ \A l \in Covered(w) : disk'[l] \in {disk[l], NewBlock(w, l), Torn}
    BY WrittenFacts
  <2> QED BY <2>1
<1>3. \A l \in Tracked : HeaderTrue(disk'[l]) BY <1>1, <1>2 DEF HeadersTrue
<1> QED BY <1>3 DEF HeadersTrue, HeaderTrue

(* The five writes of eMMCWriteGpt write the headers of one table.         *)
LEMMA GptHeaders ==
  ASSUME NEW img \in Images, NEW k \in 1..5, NEW l \in Covered(GptWrites(img)[k])
  PROVE  HeaderTrue(NewBlock(GptWrites(img)[k], l))
<1> DEFINE w == GptWrites(img)[k]
<1>1. /\ LastLba \in Int /\ LastUsable \in Int /\ EntryBlocks \in Nat \ {0}
      /\ HeaderLba \in Int /\ EntryLba \in Int /\ 0 \in Int
  BY Numbers DEF HeaderLba, EntryLba
<1>2. ASSUME NEW x, NEW at \in Int, NEW n, w = Write(at, n, <<x>>) PROVE NewBlock(w, l) = x
  <2>1. w.at = at /\ w.data = <<x>> BY <1>2 DEF Write
  <2> HIDE DEF w
  <2> QED BY <2>1, SameBlock DEF w
<1>3. ASSUME NEW at \in Int, w = Write(at, EntryBlocks, PartEntry(img))
      PROVE  NewBlock(w, l).kind = "entries"
  <2>1. w.at = at /\ w.n = EntryBlocks /\ w.data = PartEntry(img) BY <1>3 DEF Write
  <2>2. l \in at..(at + EntryBlocks - 1) BY <2>1 DEF Covered
  <2>3. Len(PartEntry(img)) = EntryBlocks BY <1>1 DEF PartEntry
  <2>4. NewBlock(w, l) = PartEntry(img)[l - at + 1]
    <3> HIDE DEF w
    <3>1. l - at < EntryBlocks BY <1>1, <2>2
    <3> QED BY <2>1, <2>3, <3>1 DEF NewBlock
  <2>5. l - at + 1 \in 1..EntryBlocks BY <1>1, <2>2
  <2> QED BY <2>4, <2>5 DEF PartEntry
<1>4. \A x : x.kind # "header" => HeaderTrue(x) BY DEF HeaderTrue
<1>5. /\ CreateGptTableAndEntry(img).entryCrc = Entries(img)
      /\ BackupOf(img).entryCrc = Entries(img)
  BY DEF CreateGptTableAndEntry, PrimaryConvertBackup, BackupOf
<1>6. CASE k = 1
  <2>1. CreateProtectiveMbr.kind # "header" BY DEF CreateProtectiveMbr
  <2> QED BY <1>1, <1>2, <1>4, <1>6, <2>1, GptFacts
<1>7. CASE k = 2 BY <1>1, <1>2, <1>5, <1>7, GptFacts DEF HeaderTrue
<1>8. CASE k = 3 BY <1>1, <1>3, <1>4, <1>8, GptFacts
<1>9. CASE k = 4 BY <1>1, <1>2, <1>5, <1>9, GptFacts DEF HeaderTrue, BackupOf
<1>10. CASE k = 5
  <2>1. LastUsable + 1 \in Int BY <1>1
  <2> QED BY <1>3, <1>4, <1>10, <2>1, GptFacts
<1> QED BY <1>6, <1>7, <1>8, <1>9, <1>10

(* What one write of the running call makes of the headers.                *)
LEMMA RunningHeaders ==
  ASSUME FlashInv, HeadersTrue, Running, Written(Head(job.todo))
  PROVE  HeadersTrue'
<1>1. CASE job.op # "gpt"
  <2>1. job.todo \in Seq(PlannedWrites) /\ job.todo # <<>> BY <1>1 DEF FlashInv, OtherCall
  <2>2. PICK w \in PlannedWrites : w = Head(job.todo) BY <2>1, HeadTailProperties
  <2>3. PICK x : w.data = <<x>> /\ x.kind # "header" BY PlannedFacts
  <2>4. \A l \in Covered(w) : HeaderTrue(NewBlock(w, l))
    BY <2>3, PlannedFacts, SameBlock DEF HeaderTrue
  <2> QED BY <2>2, <2>4, HeadersKept
<1>2. CASE job.op = "gpt"
  <2>1. PICK k \in 1..5 : job.img \in Images /\ job.todo = GptRest(job.img, k)
    BY <1>2 DEF FlashInv, GptCall
  <2>2. PICK img \in Images : img = job.img BY <2>1
  <2>3. Head(job.todo) = GptWrites(img)[k] BY <2>1, <2>2, RestFacts
  <2> QED BY <2>3, GptHeaders, HeadersKept
<1> QED BY <1>1, <1>2

-----------------------------------------------------------------------------
(* The calls, step by step.                                                *)

(* The blocks that are named are on the modelled disk.                     *)
LEMMA TrackedFacts ==
  /\ HeaderLba \in Tracked /\ LastLba \in Tracked /\ Boot0Lba \in Tracked /\ UefiLba \in Tracked
  /\ \A l \in 0..EntryNum : l \in Tracked
  /\ \A b \in 1..EntryBlocks : LastUsable + 1 + b - 1 \in Tracked
<1>1. HeaderLba \in 0..EntryNum BY Numbers DEF HeaderLba
<1>2. \A b \in 1..EntryBlocks : LastUsable + 1 + b - 1 \in (LastUsable + 1)..LastLba BY Numbers
<1>3. LastLba \in (LastUsable + 1)..LastLba BY Numbers
<1> QED BY <1>1, <1>2, <1>3 DEF Tracked

(* A call that does nothing on the disk is where it was.                   *)
LEMMA CallsStill ==
  ASSUME CallsTrue, disk' = disk, job' = job
  PROVE  CallsTrue'
<1>1. GptLast' BY DEF CallsTrue, GptLast, Running
<1>2. MbrCall' BY DEF CallsTrue, MbrCall, Running, RecordsAre
<1>3. FileCall' BY DEF CallsTrue, FileCall, Running
<1>4. EraseCall' BY DEF CallsTrue, EraseCall, Running, Erased
<1>5. \A img : (PrimaryIs(img)' <=> PrimaryIs(img)) /\ (BackupIs(img)' <=> BackupIs(img))
  BY DEF PrimaryIs, BackupIs
<1>6. \A img, k : RecordsAre(img, k)' <=> RecordsAre(img, k) BY DEF RecordsAre
<1>7. \A op : Done(op)' <=> Done(op) BY DEF Done
<1>8. CallDone' BY <1>5, <1>6, <1>7 DEF CallsTrue, CallDone
<1> QED BY <1>1, <1>2, <1>3, <1>4, <1>8 DEF CallsTrue

(* A call that has ended without success leaves nothing to say.            *)
LEMMA CallsEnd ==
  ASSUME job'.status # "running", job'.status # "success" \/ job'.noMemory
  PROVE  CallsTrue'
<1>1. \A op : ~Done(op)' BY DEF Done
<1> QED BY <1>1 DEF CallsTrue, GptLast, MbrCall, FileCall, EraseCall, CallDone, Running

(* A call begins.                                                          *)
LEMMA CallsBegin ==
  ASSUME NEW op, NEW img, NEW todo, NEW parts, NEW status, Begin(op, img, todo, parts, status),
         status \in {"running", "device_error"} \/ op = "noerase",
         status = "running" =>
           \/ op = "gpt" /\ Len(todo) = 5
           \/ op = "mbr" /\ img \in Images /\ parts = <<>> /\ todo = MbrWrites(img)
           \/ op = "boot0" /\ parts = <<>> /\ todo = <<Boot0Write>>
           \/ op = "uefi" /\ parts = <<>> /\ todo = <<UefiWrite>>
           \/ op = "erase" /\ img \in Images /\ parts \in Seq(PartsOf(img)) /\ todo = EraseBoot,
         status # "running" => status # "success" \/ op = "noerase"
  PROVE  CallsTrue'
<1>1. job' = [op |-> op, img |-> img, todo |-> todo, parts |-> parts, status |-> status,
              noMemory |-> FALSE]
  BY DEF Begin
<1>2. job'.op = op /\ job'.img = img /\ job'.todo = todo /\ job'.parts = parts
      /\ job'.status = status
  BY <1>1
<1>3. CallDone'
  <2>1. \A o \in {"gpt", "mbr", "boot0", "uefi", "erase"} : ~Done(o)' BY <1>2 DEF Done
  <2> QED BY <2>1 DEF CallDone
<1>4. GptLast' BY <1>2 DEF GptLast, Running
<1>5. FileCall' BY <1>2 DEF FileCall, Running
<1>6. MbrCall'
  <2> SUFFICES ASSUME status = "running", op = "mbr" PROVE MbrCall'
    BY <1>2 DEF MbrCall, Running
  <2>1. img \in Images /\ parts = <<>> /\ todo = MbrRest(img, 1) BY MbrFacts
  <2>2. 1 \in 1..(Records(img) + 1) BY <2>1, RecordsNumber
  <2>3. RecordsAre(img, 1)' BY DEF RecordsAre
  <2> QED BY <1>2, <2>1, <2>2, <2>3 DEF MbrCall
<1>7. EraseCall'
  <2> SUFFICES ASSUME status = "running", op = "erase" PROVE EraseCall'
    BY <1>2 DEF EraseCall, Running
  <2>1. img \in Images /\ parts \in Seq(PartsOf(img)) /\ todo = EraseBoot OBVIOUS
  <2>2. EraseBoot \in Seq(EraseWrites(img))
    <3>1. {EraseBoot[i] : i \in 1..4} \subseteq EraseWrites(img) BY DEF EraseWrites
    <3>2. \A S, T : S \subseteq T => \A s \in Seq(S) : s \in Seq(T) OBVIOUS
    <3> QED BY <3>1, <3>2, EraseBootFacts
  <2>3. Erased(1, Boot0Lba)' /\ Erased(3, UefiLba)'
    <3>1. 1 \in 1..Len(EraseBoot) /\ 3 \in 1..Len(EraseBoot) BY EraseBootFacts
    <3> QED BY <1>2, <2>1, <3>1 DEF Erased
  <2> QED BY <1>2, <2>1, <2>2, <2>3 DEF EraseCall
<1> QED BY <1>3, <1>4, <1>5, <1>6, <1>7 DEF CallsTrue

(* The call begins that its caller asked for.                              *)
LEMMA CallsBegun ==
  ASSUME \/ eMMCFlashIoWriteBootFiles
         \/ \E Erase \in BOOLEAN, img \in Images : eMMCFlashIoErase(Erase, img)
  PROVE  CallsTrue' /\ UNCHANGED <<disk, gptLib, fsWindow>>
<1>1. ASSUME NEW a \in BOOLEAN, NEW b \in BOOLEAN, NEW c \in BOOLEAN, eMMCWriteBoot0(a, b, c)
      PROVE  CallsTrue' /\ UNCHANGED <<disk, gptLib, fsWindow>>
  <2>1. Begin("boot0", <<>>, <<Boot0Write>>, <<>>, "running")
        \/ Begin("boot0", <<>>, <<>>, <<>>, "device_error")
    BY <1>1 DEF eMMCWriteBoot0
  <2>2. UNCHANGED <<disk, gptLib, fsWindow>> BY <2>1 DEF Begin
  <2> QED BY <2>1, <2>2, CallsBegin
<1>2. ASSUME NEW magic, eMMCWriteUefi(magic)
      PROVE  CallsTrue' /\ UNCHANGED <<disk, gptLib, fsWindow>>
  <2>1. Begin("uefi", <<>>, <<UefiWrite>>, <<>>, "running")
        \/ Begin("uefi", <<>>, <<>>, <<>>, "device_error")
    BY <1>2 DEF eMMCWriteUefi
  <2>2. UNCHANGED <<disk, gptLib, fsWindow>> BY <2>1 DEF Begin
  <2> QED BY <2>1, <2>2, CallsBegin
<1>3. ASSUME NEW img \in Images, eMMCWriteMbr(img)
      PROVE  CallsTrue' /\ UNCHANGED <<disk, gptLib, fsWindow>>
  <2>1. Begin("mbr", img, MbrWrites(img), <<>>, "running") BY <1>3 DEF eMMCWriteMbr
  <2>2. UNCHANGED <<disk, gptLib, fsWindow>> BY <2>1 DEF Begin
  <2> QED BY <2>1, <2>2, CallsBegin
<1>4. ASSUME NEW img \in Images, eMMCWriteGpt(img)
      PROVE  CallsTrue' /\ UNCHANGED <<disk, gptLib, fsWindow>>
  <2>1. Begin("gpt", img, GptWrites(img), <<>>, "running") BY <1>4 DEF eMMCWriteGpt
  <2>2. UNCHANGED <<disk, gptLib, fsWindow>> BY <2>1 DEF Begin
  <2>3. Len(GptWrites(img)) = 5 BY GptFacts
  <2> QED BY <2>1, <2>2, <2>3, CallsBegin
<1>5. ASSUME NEW Erase \in BOOLEAN, NEW img \in Images, eMMCFlashIoErase(Erase, img)
      PROVE  CallsTrue' /\ UNCHANGED <<disk, gptLib, fsWindow>>
  <2>1. Begin("erase", img, EraseBoot, Tail(img), "running")
        \/ Begin("noerase", img, <<>>, <<>>, "success")
    BY <1>5 DEF eMMCFlashIoErase
  <2>2. UNCHANGED <<disk, gptLib, fsWindow>> BY <2>1 DEF Begin
  <2>3. Tail(img) \in Seq(PartsOf(img)) BY TailParts
  <2> QED BY <2>1, <2>2, <2>3, CallsBegin
<1> QED BY <1>1, <1>2, <1>3, <1>4, <1>5 DEF eMMCFlashIoWriteBootFiles

(* The writes of an erase are zeros; two of them are the boot areas.       *)
LEMMA EraseWriteFacts ==
  ASSUME NEW img \in Images, NEW w \in EraseWrites(img)
  PROVE  w.at \in Int /\ w.data = <<Zeros>>
<1>1. CASE w \in {EraseBoot[i] : i \in 1..4}
  <2>1. PICK i \in 1..4 : w = EraseBoot[i] BY <1>1
  <2>2. Boot0Lba \in Int /\ UefiLba \in Int BY DEF Boot0Lba, UefiLba
  <2>3. \E at \in Int : \E n : w = Write(at, n, <<Zeros>>) BY <2>1, <2>2, EraseBootFacts
  <2> QED BY <2>3 DEF Write
<1>2. ASSUME NEW p \in PartsOf(img), w \in {ErasePart(p)[j] : j \in 1..Len(ErasePart(p))}
      PROVE  w.at \in Int /\ w.data = <<Zeros>>
  <2>1. PICK i \in 2..Len(img) : p = img[i] BY DEF PartsOf
  <2>2. PICK j \in 1..Len(ErasePart(p)) : w = ErasePart(p)[j] BY <1>2
  <2>3. w.at \in Nat /\ w.data = <<Zeros>> BY <2>1, <2>2, ErasePartFacts
  <2> QED BY <2>3
<1> QED BY <1>1, <1>2 DEF EraseWrites

(* A write that is finished has written the boot area it names.            *)
LEMMA BootWritten ==
  ASSUME NEW n, NEW x, NEW w,
         \/ w = Write(Boot0Lba, n, <<x>>) /\ n = (32 * 1024) \div BlockSize
         \/ w = Write(UefiLba, n, <<x>>) /\ n = (1024 * 1024) \div BlockSize,
         disk' = Put(w, Covered(w))
  PROVE  disk'[w.at] = x
<1>1. n \in Nat \ {0} BY EraseBootFacts
<1>2. w.at \in {Boot0Lba, UefiLba} /\ w.n = n /\ w.data = <<x>> BY DEF Write
<1>3. w.at \in Int /\ w.at \in Tracked BY <1>2, TrackedFacts DEF Boot0Lba, UefiLba
<1>4. w.at \in Covered(w) BY <1>1, <1>2, <1>3 DEF Covered
<1>5. NewBlock(w, w.at) = x BY <1>2, <1>3, <1>4, SameBlock
<1> QED BY <1>4, <1>5, PutFacts

(* A write of an erase: what is zero stays zero, what is written is zero,  *)
(* and what is left is left.                                               *)
LEMMA EraseStep ==
  ASSUME NEW img \in Images, job.todo \in Seq(EraseWrites(img)), job.todo # <<>>,
         disk' = Put(Head(job.todo), Covered(Head(job.todo))),
         NEW n, NEW l, (n = 1 /\ l = Boot0Lba) \/ (n = 3 /\ l = UefiLba), Erased(n, l)
  PROVE  disk'[l] = Zeros \/ \E i \in 1..Len(Tail(job.todo)) : Tail(job.todo)[i] = EraseBoot[n]
<1> DEFINE w == Head(job.todo)
<1>1. w \in EraseWrites(img) /\ w = job.todo[1] BY HeadTailProperties
<1>2. l \in Tracked BY TrackedFacts
<1>3. CASE disk[l] = Zeros
  <2>1. disk' = [b \in Tracked |-> IF b \in Covered(w) THEN NewBlock(w, b) ELSE disk[b]]
    BY DEF Put
  <2>2. l \in Covered(w) => NewBlock(w, l) = Zeros BY <1>1, EraseWriteFacts, SameBlock
  <2> HIDE DEF w
  <2> QED BY <1>2, <1>3, <2>1, <2>2
<1>4. ASSUME NEW i \in 1..Len(job.todo), job.todo[i] = EraseBoot[n]
      PROVE  disk'[l] = Zeros
             \/ \E j \in 1..Len(Tail(job.todo)) : Tail(job.todo)[j] = EraseBoot[n]
  <2>1. CASE i = 1
    <3>1. w = EraseBoot[n] BY <1>1, <1>4, <2>1
    <3>2. \/ w = Write(Boot0Lba, (32 * 1024) \div BlockSize, <<Zeros>>) /\ l = Boot0Lba
          \/ w = Write(UefiLba, (1024 * 1024) \div BlockSize, <<Zeros>>) /\ l = UefiLba
      BY <3>1, EraseBootFacts
    <3>3. w.at = l BY <3>2 DEF Write
    <3>4. disk' = Put(w, Covered(w)) OBVIOUS
    <3> HIDE DEF w
    <3>5. disk'[w.at] = Zeros BY <3>2, <3>4, BootWritten
    <3> QED BY <3>3, <3>5
  <2>2. CASE i # 1
    <3>1. Tail(job.todo) \in Seq(EraseWrites(img)) /\ Len(Tail(job.todo)) = Len(job.todo) - 1
          /\ \A j \in 1..Len(Tail(job.todo)) : Tail(job.todo)[j] = job.todo[j + 1]
      BY HeadTailProperties
    <3>2. Len(job.todo) \in Nat OBVIOUS
    <3>3. i - 1 \in 1..Len(Tail(job.todo)) /\ (i - 1) + 1 = i BY <2>2, <3>1, <3>2
    <3> QED BY <1>4, <3>1, <3>3
  <2> QED BY <2>1, <2>2
<1> QED BY <1>3, <1>4 DEF Erased

(* What a write that is finished makes of the call: the next write, the    *)
(* next part, or the end.                                                  *)
LEMMA NextOfCall ==
  ASSUME FlashInv, WriteBlocks
  PROVE  /\ job'.op = job.op /\ job'.img = job.img
         /\ \/ /\ Len(job.todo) > 1 /\ job'.status = "running"
               /\ job'.todo = Tail(job.todo) /\ job'.parts = job.parts
            \/ /\ ~(Len(job.todo) > 1) /\ job.parts # <<>> /\ job'.status = "running"
               /\ job'.todo = ErasePart(Head(job.parts)) /\ job'.parts = Tail(job.parts)
            \/ /\ ~(Len(job.todo) > 1) /\ job.parts = <<>> /\ job'.status = "success"
<1>1. Running /\ JobShape BY DEF WriteBlocks, FlashInv
<1>2. CASE Len(job.todo) > 1
  <2>1. job' = [job EXCEPT !.todo = Tail(@)] BY <1>2 DEF WriteBlocks
  <2> QED BY <1>1, <1>2, <2>1 DEF JobShape, Running
<1>3. CASE ~(Len(job.todo) > 1) /\ job.parts # <<>>
  <2>1. job' = [job EXCEPT !.todo = ErasePart(Head(job.parts)), !.parts = Tail(@)]
    BY <1>3 DEF WriteBlocks
  <2> QED BY <1>1, <1>3, <2>1 DEF JobShape, Running
<1>4. CASE ~(Len(job.todo) > 1) /\ job.parts = <<>>
  <2>1. job' = End("success") BY <1>4 DEF WriteBlocks
  <2> QED BY <1>1, <1>4, <2>1 DEF JobShape, End
<1> QED BY <1>2, <1>3, <1>4

(* A write of eMMCWriteGpt is finished.                                    *)
LEMMA GptStep ==
  ASSUME FlashInv, CallsTrue, WriteBlocks, job.op = "gpt"
  PROVE  CallsTrue'
<1> DEFINE w == Head(job.todo)
<1>1. Running /\ disk' = Put(w, Covered(w)) BY DEF WriteBlocks
<1>2. /\ job.img \in Images /\ job.parts = <<>>
      /\ \E k \in 1..5 : job.todo = GptRest(job.img, k) /\ (k > 3 => PrimaryIs(job.img))
  BY <1>1 DEF FlashInv, GptCall
<1>3. PICK img \in Images : img = job.img BY <1>2
<1>4. PICK k \in 1..5 : job.todo = GptRest(img, k) /\ (k > 3 => PrimaryIs(img)) BY <1>2, <1>3
<1>5. Len(job.todo) = 6 - k /\ w = GptWrites(img)[k] BY <1>4, RestFacts
<1>6. job'.op = "gpt" /\ job'.img = img BY <1>3, NextOfCall
<1>7. MbrCall' /\ FileCall' /\ EraseCall' BY <1>6 DEF MbrCall, FileCall, EraseCall
<1>8. Written(w) BY <1>1 DEF Written
<1>9. /\ \A l \in Tracked : l \notin Covered(w) => disk'[l] = disk[l]
      /\ \A l \in Covered(w) : disk'[l] = NewBlock(w, l)
  BY <1>1, <1>8, WrittenFacts, PutFacts
<1>10. CASE k < 5
  <2>1. job'.status = "running" /\ job'.todo = Tail(job.todo) BY <1>5, <1>10, NextOfCall
  <2>2. job'.todo = GptRest(img, k + 1) BY <1>4, <1>10, <2>1, RestFacts
  <2>3. Len(job'.todo) = 6 - (k + 1)
    <3>1. k + 1 \in 1..5 BY <1>10
    <3> QED BY <2>2, <3>1, RestFacts
  <2>4. CallDone' BY <2>1 DEF CallDone, Done
  <2>5. GptLast'
    <3>7. BackupOf(job.img)' = BackupOf(img)
      <4>1. BackupOf(img)' = BackupOf(img)
        BY Zenon DEF BackupOf, PrimaryConvertBackup, CreateGptTableAndEntry, Entries, Entry
      <4>2. \A g : g = img => BackupOf(g)' = BackupOf(img)' OBVIOUS
      <4> QED BY <1>6, <4>1, <4>2
    <3>8. Len(job'.todo) = 1 => k = 4
      <4>1. 6 - (k + 1) = 1 => k = 4 OBVIOUS
      <4> QED BY <2>3, <4>1
    <3>1. SUFFICES ASSUME k = 4 PROVE disk'[LastLba] = BackupOf(img)
      BY <3>7, <3>8 DEF GptLast
    <3>2. w = Write(LastLba, 1, <<BackupOf(img)>>) BY <1>5, <3>1, GptFacts DEF BackupOf
    <3>3. w.at = LastLba /\ w.n = 1 /\ w.data = <<BackupOf(img)>> BY <3>2 DEF Write
    <3>4. LastLba \in Int /\ LastLba \in Tracked BY Numbers, TrackedFacts
    <3>5. LastLba \in Covered(w) BY <3>3, <3>4 DEF Covered
    <3> HIDE DEF w
    <3>6. NewBlock(w, LastLba) = BackupOf(img) BY <3>3, <3>4, <3>5, SameBlock
    <3> QED BY <1>9, <3>5, <3>6
  <2> QED BY <1>7, <2>4, <2>5 DEF CallsTrue
<1>11. CASE k = 5
  <2>1. Len(job.todo) = 1 BY <1>5, <1>11
  <2>2. job'.status = "success" BY <1>2, <2>1, NextOfCall
  <2>3. GptLast' BY <2>2 DEF GptLast, Running
  <2>4. disk[LastLba] = BackupOf(img)
    BY <1>1, <1>3, <2>1 DEF CallsTrue, GptLast
  <2>5. w = Write(LastUsable + 1, EntryBlocks, PartEntry(img)) BY <1>5, <1>11, GptFacts
  <2>6. w.at = LastUsable + 1 /\ w.n = EntryBlocks /\ w.data = PartEntry(img)
    BY <2>5 DEF Write
  <2>7. LastLba \notin Covered(w) BY <2>6, Numbers DEF Covered
  <2>8. disk'[LastLba] = BackupOf(img) BY <1>9, <2>4, <2>7, TrackedFacts
  <2>9. ASSUME NEW b \in 1..EntryBlocks
        PROVE  disk'[LastUsable + 1 + b - 1] = PartEntry(img)[b]
    <3> DEFINE l == LastUsable + 1 + b - 1
    <3>1. l \in Tracked BY TrackedFacts
    <3>2. /\ l \in Int /\ LastUsable + 1 <= l /\ l <= LastUsable + 1 + EntryBlocks - 1
          /\ l - (LastUsable + 1) < EntryBlocks /\ l - (LastUsable + 1) + 1 = b
      BY Numbers
    <3>3. l \in (LastUsable + 1)..(LastUsable + 1 + EntryBlocks - 1) BY <3>2, Numbers
    <3> HIDE DEF l, w
    <3>4. l \in Covered(w) BY <2>6, <3>1, <3>3 DEF Covered
    <3>5. Len(PartEntry(img)) = EntryBlocks BY Numbers DEF PartEntry
    <3>6. NewBlock(w, l) = PartEntry(img)[b]
      <4>1. NewBlock(w, l) = PartEntry(img)[IF l - (LastUsable + 1) < Len(PartEntry(img))
                                            THEN l - (LastUsable + 1) + 1 ELSE Len(PartEntry(img))]
        BY <2>6, Zenon DEF NewBlock
      <4> QED BY <3>2, <3>5, <4>1
    <3>7. disk'[l] = PartEntry(img)[b] BY <1>9, <3>4, <3>6
    <3> QED BY <3>7 DEF l
  <2>10. PrimaryIs(img)'
    <3>1. k > 3 /\ PrimaryIs(img) BY <1>4, <1>11
    <3>2. Written(GptWrites(img)[k]) BY <1>5, <1>8
    <3> QED BY <3>1, <3>2, GptWriteFacts DEF FlashInv
  <2>11. BackupIs(img)' BY <2>8, <2>9 DEF BackupIs, BackupOf, PrimaryConvertBackup,
                                          CreateGptTableAndEntry, Entries, Entry, PartEntry
  <2>12. \A g : g = img => (PrimaryIs(g)' <=> PrimaryIs(img)') /\ (BackupIs(g)' <=> BackupIs(img)')
    OBVIOUS
  <2>13. CallDone'
    <3>1. job'.img \in Images /\ PrimaryIs(job.img)' /\ BackupIs(job.img)'
      BY <1>3, <1>6, <2>10, <2>11, <2>12
    <3> QED BY <1>3, <1>6, <2>10, <2>11 DEF CallDone, Done, PrimaryIs, BackupIs
  <2> QED BY <1>7, <2>3, <2>13 DEF CallsTrue
<1> QED BY <1>10, <1>11

(* A write of eMMCWriteMbr is finished.                                    *)
LEMMA MbrStep ==
  ASSUME FlashInv, CallsTrue, WriteBlocks, job.op = "mbr"
  PROVE  CallsTrue'
<1> DEFINE w == Head(job.todo)
<1>1. Running /\ disk' = Put(w, Covered(w)) BY DEF WriteBlocks
<1>2. /\ job.img \in Images /\ job.parts = <<>>
      /\ \E k \in 1..(Records(job.img) + 1) :
           job.todo = MbrRest(job.img, k) /\ RecordsAre(job.img, k)
  BY <1>1 DEF CallsTrue, MbrCall
<1>3. PICK img \in Images : img = job.img BY <1>2
<1>4. PICK k \in 1..(Records(img) + 1) : job.todo = MbrRest(img, k) /\ RecordsAre(img, k)
  BY <1>2, <1>3
<1>5. Records(img) \in Nat /\ Records(img) < EntryNum /\ EntryNum \in Nat
  BY RecordsNumber, Numbers
<1>6. Len(job.todo) = Records(img) + 2 - k /\ w = MbrWrites(img)[k] BY <1>4, MbrRestFacts
<1>7. job'.op = "mbr" /\ job'.img = img BY <1>3, NextOfCall
<1>8. GptLast' /\ FileCall' /\ EraseCall' BY <1>7 DEF GptLast, FileCall, EraseCall
<1>9. /\ \A l \in Tracked : l \notin Covered(w) => disk'[l] = disk[l]
      /\ \A l \in Covered(w) : disk'[l] = NewBlock(w, l)
  BY <1>1, WrittenFacts, PutFacts DEF Written
<1>10. ASSUME NEW at \in 0..EntryNum, NEW x, w = Write(at, 1, <<x>>)
       PROVE  disk'[at] = x /\ \A l \in 0..EntryNum : l # at => disk'[l] = disk[l]
  <2>1. w.at = at /\ w.n = 1 /\ w.data = <<x>> BY <1>10 DEF Write
  <2>2. at \in Int /\ at \in Tracked /\ at + 1 - 1 = at BY TrackedFacts
  <2>3. \A l : l \in Covered(w) <=> l = at BY <2>1, <2>2 DEF Covered
  <2> HIDE DEF w
  <2>4. NewBlock(w, at) = x BY <2>1, <2>2, <2>3, SameBlock
  <2> QED BY <1>9, <2>3, <2>4, TrackedFacts
<1>11. CASE k <= Records(img)
  <2>1. Len(job.todo) > 1 BY <1>5, <1>6, <1>11
  <2>2. job'.status = "running" /\ job'.todo = MbrRest(img, k + 1) /\ job'.parts = <<>>
    BY <1>2, <1>4, <1>11, <2>1, NextOfCall, MbrRestFacts
  <2>3. k \in 1..Records(img) /\ k \in 0..EntryNum BY <1>5, <1>11
  <2>4. w = Write(k, 1, <<ExtendedRecord(img, k)>>) BY <1>6, <2>3, MbrFacts
  <2>5. disk'[k] = ExtendedRecord(img, k) /\ \A l \in 0..EntryNum : l # k => disk'[l] = disk[l]
    BY <1>10, <2>3, <2>4
  <2>6. \A i \in 1..(k + 1 - 1) : disk'[i] = ExtendedRecord(img, i)
    <3>1. ASSUME NEW i \in 1..(k + 1 - 1) PROVE i \in 0..EntryNum /\ (i = k \/ i \in 1..(k - 1))
      BY <1>5, <1>11
    <3> QED BY <1>4, <2>5, <3>1 DEF RecordsAre
  <2>7. k + 1 \in 1..(Records(img) + 1) BY <1>5, <1>11
  <2>8. MbrCall'
    <3> DEFINE n == k + 1
    <3>1. n \in 1..(Records(img) + 1) /\ job'.todo = MbrRest(img, n)
          /\ \A i \in 1..(n - 1) : disk'[i] = ExtendedRecord(img, i)
      BY <2>2, <2>6, <2>7
    <3> HIDE DEF n
    <3> QED BY <1>7, <2>2, <3>1 DEF MbrCall, RecordsAre
  <2>9. CallDone' BY <2>2 DEF CallDone, Done
  <2> QED BY <1>8, <2>8, <2>9 DEF CallsTrue
<1>12. CASE k = Records(img) + 1
  <2>1. Len(job.todo) = 1 BY <1>5, <1>6, <1>12
  <2>2. job'.status = "success" BY <1>2, <2>1, NextOfCall
  <2>3. MbrCall' BY <2>2 DEF MbrCall, Running
  <2>4. w = Write(0, 1, <<MasterRecord(img)>>) BY <1>6, <1>12, MbrFacts
  <2>5. 0 \in 0..EntryNum BY <1>5
  <2>6. disk'[0] = MasterRecord(img) /\ \A l \in 0..EntryNum : l # 0 => disk'[l] = disk[l]
    BY <1>10, <2>4, <2>5
  <2>7. \A i \in 1..(Records(img) + 1 - 1) : disk'[i] = ExtendedRecord(img, i)
    <3>1. ASSUME NEW i \in 1..(Records(img) + 1 - 1)
          PROVE  i \in 0..EntryNum /\ i # 0 /\ i \in 1..(k - 1)
      BY <1>5, <1>12
    <3> QED BY <1>4, <2>6, <3>1 DEF RecordsAre
  <2>8. CallDone'
    <3>1. ~Done("gpt")' /\ ~Done("boot0")' /\ ~Done("uefi")' /\ ~Done("erase")'
      BY <1>7 DEF Done
    <3>2. RecordsAre(job.img, Records(job.img) + 1)'
      BY <1>7, <2>7 DEF RecordsAre, Records, ExtendedRecord
    <3>3. disk'[0].parts[2].start = img[1].addr + MbrOffset
      BY <2>6 DEF MasterRecord, MbrPart
    <3>4. disk'[0].parts[2].start = (job.img[1].addr + MbrOffset)'
      BY <1>7, <3>3 DEF MbrOffset
    <3> QED BY <1>7, <3>1, <3>2, <3>4 DEF CallDone
  <2> QED BY <1>8, <2>3, <2>8 DEF CallsTrue
<1> QED BY <1>5, <1>11, <1>12

(* The write of a boot file is finished.                                   *)
LEMMA FileStep ==
  ASSUME FlashInv, CallsTrue, WriteBlocks, job.op \in {"boot0", "uefi"}
  PROVE  CallsTrue'
<1> DEFINE w == Head(job.todo)
<1>1. Running /\ disk' = Put(w, Covered(w)) BY DEF WriteBlocks
<1>2. /\ job.parts = <<>>
      /\ job.op = "boot0" => job.todo = <<Boot0Write>>
      /\ job.op = "uefi" => job.todo = <<UefiWrite>>
  BY <1>1 DEF CallsTrue, FileCall
<1>3. /\ Len(job.todo) = 1
      /\ job.op = "boot0" => w = Boot0Write
      /\ job.op = "uefi" => w = UefiWrite
  <2>1. \A x : Len(<<x>>) = 1 /\ Head(<<x>>) = x OBVIOUS
  <2> QED BY <1>2, <2>1
<1>4. job'.op = job.op /\ job'.status = "success" BY <1>2, <1>3, NextOfCall
<1>5. GptLast' /\ MbrCall' /\ FileCall' /\ EraseCall'
  BY <1>4 DEF GptLast, MbrCall, FileCall, EraseCall, Running
<1> HIDE DEF w
<1>6. job.op = "boot0" => disk'[Boot0Lba] = Boot0Image
  <2> SUFFICES ASSUME job.op = "boot0" PROVE disk'[Boot0Lba] = Boot0Image OBVIOUS
  <2>1. w = Write(Boot0Lba, (32 * 1024) \div BlockSize, <<Boot0Image>>)
    BY <1>3 DEF Boot0Write
  <2>2. disk'[w.at] = Boot0Image BY <1>1, <2>1, BootWritten DEF w
  <2> QED BY <2>1, <2>2 DEF Write
<1>7. job.op = "uefi" => disk'[UefiLba] = UefiImage
  <2> SUFFICES ASSUME job.op = "uefi" PROVE disk'[UefiLba] = UefiImage OBVIOUS
  <2>1. w = Write(UefiLba, (1024 * 1024) \div BlockSize, <<UefiImage>>)
    BY <1>3 DEF UefiWrite
  <2>2. disk'[w.at] = UefiImage BY <1>1, <2>1, BootWritten DEF w
  <2> QED BY <2>1, <2>2 DEF Write
<1>8. CallDone'
  <2>1. ~Done("gpt")' /\ ~Done("mbr")' /\ ~Done("erase")' BY <1>4 DEF Done
  <2>2. Done("boot0")' => job.op = "boot0" BY <1>4 DEF Done
  <2>3. Done("uefi")' => job.op = "uefi" BY <1>4 DEF Done
  <2> QED BY <1>6, <1>7, <2>1, <2>2, <2>3 DEF CallDone
<1> QED BY <1>5, <1>8 DEF CallsTrue

(* A write of eMMCFlashIoErase is finished.                                *)
LEMMA EraseStepCall ==
  ASSUME FlashInv, CallsTrue, WriteBlocks, job.op = "erase"
  PROVE  CallsTrue'
<1>1. Running /\ disk' = Put(Head(job.todo), Covered(Head(job.todo))) BY DEF WriteBlocks
<1>2. /\ job.img \in Images
      /\ job.todo \in Seq(EraseWrites(job.img)) /\ job.parts \in Seq(PartsOf(job.img))
      /\ Erased(1, Boot0Lba) /\ Erased(3, UefiLba)
  BY <1>1 DEF CallsTrue, EraseCall
<1>3. job.todo # <<>> BY <1>1 DEF FlashInv, OtherCall
<1>4. PICK img \in Images : img = job.img BY <1>2
<1>5. job'.op = "erase" /\ job'.img = img BY <1>4, NextOfCall
<1>6. GptLast' /\ MbrCall' /\ FileCall' BY <1>5 DEF GptLast, MbrCall, FileCall
<1>7. /\ \/ disk'[Boot0Lba] = Zeros
         \/ \E i \in 1..Len(Tail(job.todo)) : Tail(job.todo)[i] = EraseBoot[1]
      /\ \/ disk'[UefiLba] = Zeros
         \/ \E i \in 1..Len(Tail(job.todo)) : Tail(job.todo)[i] = EraseBoot[3]
  BY <1>1, <1>2, <1>3, EraseStep
<1>8. /\ Tail(job.todo) \in Seq(EraseWrites(img)) /\ Len(Tail(job.todo)) = Len(job.todo) - 1
      /\ Len(job.todo) \in Nat
  <2>1. job.todo \in Seq(EraseWrites(img)) BY <1>2, <1>4
  <2> QED BY <1>3, <2>1, HeadTailProperties
<1>9. ASSUME ~(Len(job.todo) > 1) PROVE disk'[Boot0Lba] = Zeros /\ disk'[UefiLba] = Zeros
  <2>1. \A i : i \notin 1..Len(Tail(job.todo)) BY <1>8, <1>9
  <2> QED BY <1>7, <2>1
<1>10. CASE /\ Len(job.todo) > 1 /\ job'.status = "running"
            /\ job'.todo = Tail(job.todo) /\ job'.parts = job.parts
  <2>1. Erased(1, Boot0Lba)' /\ Erased(3, UefiLba)' BY <1>7, <1>10 DEF Erased
  <2>2. job'.todo \in Seq(EraseWrites(img)) /\ job'.parts \in Seq(PartsOf(img))
    BY <1>2, <1>4, <1>8, <1>10
  <2>3. EraseCall' BY <1>5, <2>1, <2>2 DEF EraseCall, EraseWrites, PartsOf
  <2>4. CallDone' BY <1>10 DEF CallDone, Done
  <2> QED BY <1>6, <2>3, <2>4 DEF CallsTrue
<1>11. CASE /\ ~(Len(job.todo) > 1) /\ job.parts # <<>> /\ job'.status = "running"
            /\ job'.todo = ErasePart(Head(job.parts)) /\ job'.parts = Tail(job.parts)
  <2>1. Head(job.parts) \in PartsOf(img) /\ Tail(job.parts) \in Seq(PartsOf(img))
    BY <1>2, <1>4, <1>11, HeadTailProperties
  <2>2. PICK p \in PartsOf(img) : p = Head(job.parts) BY <2>1
  <2>3. ErasePart(p) \in Seq(EraseWrites(img))
    <3>1. ErasePart(p) \in Seq({ErasePart(p)[i] : i \in 1..Len(ErasePart(p))})
      <4>1. p \in ErasedParts BY <2>2 DEF ErasedParts
      <4> QED BY <4>1, GoodErase DEF Good
    <3>2. {ErasePart(p)[i] : i \in 1..Len(ErasePart(p))} \subseteq EraseWrites(img)
      BY DEF EraseWrites
    <3>3. \A S, T : S \subseteq T => \A s \in Seq(S) : s \in Seq(T) OBVIOUS
    <3> QED BY <3>1, <3>2, <3>3
  <2>4. Erased(1, Boot0Lba)' /\ Erased(3, UefiLba)' BY <1>9, <1>11 DEF Erased
  <2>5. job'.todo \in Seq(EraseWrites(img)) /\ job'.parts \in Seq(PartsOf(img))
    BY <1>11, <2>1, <2>2, <2>3
  <2>6. EraseCall' BY <1>5, <2>4, <2>5 DEF EraseCall
  <2>7. CallDone' BY <1>11 DEF CallDone, Done
  <2> QED BY <1>6, <2>6, <2>7 DEF CallsTrue
<1>12. CASE /\ ~(Len(job.todo) > 1) /\ job.parts = <<>> /\ job'.status = "success"
  <2>1. EraseCall' BY <1>12 DEF EraseCall, Running
  <2>2. ~Done("gpt")' /\ ~Done("mbr")' /\ ~Done("boot0")' /\ ~Done("uefi")'
    BY <1>5 DEF Done
  <2>3. CallDone' BY <1>9, <1>12, <2>2 DEF CallDone
  <2> QED BY <1>6, <2>1, <2>3 DEF CallsTrue
<1> QED BY <1>10, <1>11, <1>12, NextOfCall

(* A write is finished.                                                    *)
LEMMA CallsWrite ==
  ASSUME FlashInv, CallsTrue, WriteBlocks
  PROVE  CallsTrue'
<1>1. CASE job.op \notin {"gpt", "mbr", "boot0", "uefi", "erase"}
  <2>1. job'.op = job.op BY NextOfCall
  <2>2. GptLast' /\ MbrCall' /\ FileCall' /\ EraseCall'
    BY <1>1, <2>1 DEF GptLast, MbrCall, FileCall, EraseCall
  <2>3. \A op \in {"gpt", "mbr", "boot0", "uefi", "erase"} : ~Done(op)'
    BY <1>1, <2>1 DEF Done
  <2>4. CallDone' BY <2>3 DEF CallDone
  <2> QED BY <2>2, <2>4 DEF CallsTrue
<1> QED BY <1>1, GptStep, MbrStep, FileStep, EraseStepCall

(* A call is cut short, or runs out of memory.                             *)
LEMMA CallsCut ==
  ASSUME JobShape, WriteBlocksFails \/ PowerLoss \/ NoMemory
  PROVE  CallsTrue'
<1>1. ASSUME NEW s, s # "success", s # "running", job' = End(s) PROVE CallsTrue'
  <2>1. job'.status = s BY <1>1 DEF End, JobShape
  <2> QED BY <1>1, <2>1, CallsEnd
<1>2. ASSUME job' = [End("success") EXCEPT !.noMemory = TRUE] PROVE CallsTrue'
  <2>1. job'.status = "success" /\ job'.noMemory BY <1>2 DEF End, JobShape
  <2> QED BY <2>1, CallsEnd
<1> QED BY <1>1, <1>2 DEF WriteBlocksFails, PowerLoss, NoMemory

-----------------------------------------------------------------------------
(* What the library finds.                                                 *)

(* The entry of a part.                                                    *)
LEMMA EntryFacts ==
  ASSUME NEW img \in Images, NEW i \in 1..Len(img)
  PROVE  /\ i \in 1..EntryNum /\ Entries(img)[i] = Entry(img, i)
         /\ Entry(img, i).name = img[i].name /\ Entry(img, i).start = img[i].addr
         /\ Entry(img, i).end = IF i = Len(img) THEN LastUsable ELSE img[i].addr + img[i].len - 1
<1>1. Len(img) \in 1..EntryNum /\ EntryNum \in Nat BY FlashAssumption, Numbers
<1>2. i \in 1..EntryNum /\ i <= Len(img) BY <1>1
<1>3. Entries(img)[i] = Entry(img, i) BY <1>2 DEF Entries
<1> QED BY <1>2, <1>3 DEF Entry

(* The first entry of a name is the one that is found.                     *)
LEMMA FirstNamedOne ==
  ASSUME NEW buf, NEW n \in Nat, NEW m \in 1..n,
         \A j \in 1..(m - 1) : buf[j].name # buf[m].name
  PROVE  FirstNamed(buf, n, buf[m].name) = {m}
<1>1. m \in FirstNamed(buf, n, buf[m].name) BY DEF FirstNamed
<1>2. ASSUME NEW k \in FirstNamed(buf, n, buf[m].name) PROVE k = m
  <2>1. /\ k \in 1..n /\ buf[k].name = buf[m].name
        /\ \A j \in 1..(k - 1) : buf[j].name # buf[m].name
    BY DEF FirstNamed
  <2>2. k < m => k \in 1..(m - 1) BY <2>1
  <2>3. m < k => m \in 1..(k - 1) BY <2>1
  <2>4. ~(k < m) /\ ~(m < k) BY <2>1, <2>2, <2>3
  <2> QED BY <2>1, <2>4
<1> QED BY <1>1, <1>2

(* SunxiGptPartitionInitialize accepts the entries of one table.           *)
LEMMA LibFound ==
  ASSUME FlashInv, HeadersTrue, LibTrue, WindowTrue, SunxiGetFsOffset
  PROVE  LibTrue' /\ WindowTrue'
<1> DEFINE h == disk[HeaderLba]
<1>1. PICK readOk \in BOOLEAN :
        /\ gptLib' = SunxiGptPartitionInitialize(h, readOk)
        /\ fsWindow' =
             IF gptLib'.status = 0 THEN fsWindow
             ELSE LET e == gptLib'.buf[UsbMassPart + 1]
                  IN  [base |-> e.start, part |-> e,
                       size |-> IF e.end = e.start THEN LastLba - e.start ELSE e.end - e.start]
  BY DEF SunxiGetFsOffset
<1>2. HeaderTrue(h) BY TrackedFacts DEF HeadersTrue
<1> DEFINE ok == h.kind = "header" /\ readOk /\ ReadEntries(h) = h.entryCrc
<1>3. /\ gptLib'.status = IF ok THEN 1 ELSE 0
      /\ ok => gptLib'.buf = h.entryCrc
  <2> HIDE DEF h
  <2>1. gptLib' = [status |-> IF ok THEN 1 ELSE 0,
                   buf |-> IF h.kind = "header" /\ readOk THEN ReadEntries(h) ELSE gptLib.buf]
    BY <1>1 DEF SunxiGptPartitionInitialize
  <2>2. gptLib'.status = (IF ok THEN 1 ELSE 0)
        /\ gptLib'.buf = IF h.kind = "header" /\ readOk THEN ReadEntries(h) ELSE gptLib.buf
    <3> HIDE DEF ok
    <3> QED BY <2>1
  <2> QED BY <2>2
<1>4. ok => \E img \in Images : gptLib'.buf = Entries(img) BY <1>2, <1>3 DEF HeaderTrue
<1> HIDE DEF ok, h
<1>5. LibTrue'
  <2>1. gptLib'.status = 1 => ok BY <1>3
  <2>2. gptLib'.status = 1 => \E img \in Images : gptLib'.buf = Entries(img) BY <1>4, <2>1
  <2>3. \A img : Entries(img)' = Entries(img) BY Zenon DEF Entries, Entry
  <2> QED BY <2>2, <2>3 DEF LibTrue
<1>6. CASE gptLib'.status = 0
  <2>1. fsWindow' = fsWindow BY <1>1, <1>6
  <2> QED BY <1>5, <2>1 DEF WindowTrue
<1>7. CASE gptLib'.status # 0
  <2>1. PICK img \in Images : gptLib'.buf = Entries(img) BY <1>3, <1>4, <1>7
  <2> DEFINE e == Entries(img)[UsbMassPart + 1]
  <2>2. fsWindow' = [base |-> e.start, part |-> e,
                     size |-> IF e.end = e.start THEN LastLba - e.start ELSE e.end - e.start]
    BY <1>1, <1>7, <2>1
  <2>3. e.start \in Int /\ e.end \in Int
    <3>1. UsbMassPart + 1 \in 1..EntryNum /\ Len(img) \in 1..EntryNum /\ LastUsable \in Nat
      BY FlashAssumption, Numbers DEF UsbMassPart
    <3>2. CASE UsbMassPart + 1 \in 1..Len(img)
      <4>1. img[UsbMassPart + 1].addr \in Nat /\ img[UsbMassPart + 1].len \in Nat
        BY <3>2, PartFacts
      <4>2. e = Entry(img, UsbMassPart + 1) /\ e.start = img[UsbMassPart + 1].addr
            /\ e.end = IF UsbMassPart + 1 = Len(img) THEN LastUsable
                       ELSE img[UsbMassPart + 1].addr + img[UsbMassPart + 1].len - 1
        BY <3>2, EntryFacts
      <4> HIDE DEF e
      <4> QED BY <3>1, <4>1, <4>2
    <3>3. CASE UsbMassPart + 1 \notin 1..Len(img)
      <4>1. e = NoEntry BY <3>1, <3>3 DEF Entries
      <4>2. NoEntry.start = 0 /\ NoEntry.end = 0 BY DEF NoEntry
      <4> HIDE DEF e
      <4> QED BY <4>1, <4>2
    <3> QED BY <3>2, <3>3
  <2> HIDE DEF e
  <2>4. fsWindow'.base = e.start /\ fsWindow'.part = e
        /\ (e.end # e.start => fsWindow'.size = e.end - e.start)
    BY <2>2
  <2>5. e.start + (e.end - e.start) = e.end BY <2>3
  <2>6. e.start + (e.end - e.start) <= e.end BY <2>3, <2>5
  <2> QED BY <1>5, <2>4, <2>6 DEF WindowTrue
<1> QED BY <1>6, <1>7

-----------------------------------------------------------------------------
(* What the calls leave behind is what the properties ask for.             *)

(* A call that reports success has written what it was asked for.          *)
LEMMA DoneWritten ==
  ASSUME FlashInv, CallDone PROVE SuccessWritten
<1> SUFFICES ASSUME job.status = "success", ~job.noMemory PROVE SuccessWritten
  BY DEF SuccessWritten
<1>1. CASE job.op = "gpt"
  <2>1. job.img \in Images /\ PrimaryIs(job.img) /\ BackupIs(job.img)
    BY <1>1 DEF CallDone, Done
  <2>2. PICK img \in Images : img = job.img BY <2>1
  <2>3. PrimaryIs(img) /\ BackupIs(img) BY <2>1, <2>2
  <2>4. Verifies(HeaderLba) BY <2>3, PrimaryVerifies
  <2>5. disk[HeaderLba].my = HeaderLba /\ disk[HeaderLba].entryCrc = Entries(img)
    BY <2>3 DEF PrimaryIs, CreateGptTableAndEntry
  <2>6. disk[LastLba] = BackupOf(img)
        /\ \A b \in 1..EntryBlocks : disk[LastUsable + 1 + b - 1] = PartEntry(img)[b]
    BY <2>3 DEF BackupIs
  <2>7. /\ BackupOf(img).my = LastLba /\ BackupOf(img).entryCrc = Entries(img)
        /\ BackupOf(img).kind = "header" /\ BackupOf(img).entries = LastUsable + 1
    BY GptFacts DEF BackupOf, PrimaryConvertBackup, CreateGptTableAndEntry
  <2>8. LastUsable + 1 \in Nat BY Numbers
  <2>9. ReadEntries(BackupOf(img)) = Entries(img) BY <2>6, <2>7, <2>8, TableReads
  <2>10. Verifies(LastLba) BY <2>6, <2>7, <2>9 DEF Verifies
  <2>11. \A l \in {HeaderLba, LastLba} :
            Verifies(l) /\ disk[l].my = l /\ disk[l].entryCrc = Entries(job.img)
    BY <2>2, <2>4, <2>5, <2>6, <2>7, <2>10
  <2> QED BY <1>1, <2>11 DEF SuccessWritten
<1>2. CASE job.op = "mbr"
  <2>1. /\ job.img \in Images /\ RecordsAre(job.img, Records(job.img) + 1)
        /\ disk[0].parts[2].start = job.img[1].addr + MbrOffset
    BY <1>2 DEF CallDone, Done
  <2>2. ChainParts(job.img)
          = {<<job.img[i].addr + MbrOffset, job.img[i].len>> : i \in 2..(Len(job.img) - 1)}
    BY <2>1, ChainTrue
  <2> QED BY <1>2, <2>1, <2>2 DEF SuccessWritten
<1>3. CASE job.op = "boot0"
  <2>1. disk[Boot0Lba].body = disk[Boot0Lba].sumOf
    BY <1>3 DEF CallDone, Done, Boot0Image
  <2> QED BY <1>3, <2>1 DEF SuccessWritten
<1>4. CASE job.op = "uefi" BY <1>4 DEF CallDone, Done, SuccessWritten
<1>5. CASE job.op = "erase" BY <1>5 DEF CallDone, Done, SuccessWritten
<1>6. CASE job.op \notin {"gpt", "mbr", "boot0", "uefi", "erase"} BY <1>6 DEF SuccessWritten
<1> QED BY <1>1, <1>2, <1>3, <1>4, <1>5, <1>6

(* The look-ups give what the accepted entries say.                        *)
LEMMA LibLookups ==
  ASSUME LibTrue PROVE LookupsTrue
<1> SUFFICES ASSUME gptLib.status = 1
             PROVE  \E img \in Images :
                      \A i \in 0..(Len(img) - 1) :
                        LET info == <<img[i + 1].addr,
                                      IF i = Len(img) - 1 THEN LastUsable - img[i + 1].addr
                                      ELSE img[i + 1].len - 1>>
                        IN  /\ <<SunxiGptPartitionGetOffset(i), SunxiGptPartitionGetSize(i)>> = info
                            /\ FirstOfName(img, i + 1) =>
                                 /\ SunxiGptPartitionGetInfoByName(img[i + 1].name) = {info}
                                 /\ SunxiGptPartitionGetOffsetByName(img[i + 1].name) = {info[1]}
                                 /\ SunxiGptPartitionGetSizeByName(img[i + 1].name) = {info[2]}
  BY DEF LookupsTrue
<1>1. PICK img \in Images : gptLib.buf = Entries(img) BY DEF LibTrue
<1>2. Len(img) \in 1..EntryNum /\ EntryNum \in Nat /\ LastUsable \in Int
  BY FlashAssumption, Numbers
<1>3. ASSUME NEW i \in 0..(Len(img) - 1)
      PROVE  LET start == img[i + 1].addr
                 size == IF i = Len(img) - 1 THEN LastUsable - img[i + 1].addr
                         ELSE img[i + 1].len - 1
             IN  /\ SunxiGptPartitionGetOffset(i) = start /\ SunxiGptPartitionGetSize(i) = size
                 /\ FirstOfName(img, i + 1) => GptNamed(img[i + 1].name) = {i + 1}
  <2>1. i + 1 \in 1..Len(img) /\ i < EntryNum /\ (i + 1 = Len(img) <=> i = Len(img) - 1)
    BY <1>2
  <2>2. GptIndex(i) BY <2>1 DEF GptIndex
  <2>3. /\ gptLib.buf[i + 1].name = img[i + 1].name /\ gptLib.buf[i + 1].start = img[i + 1].addr
        /\ gptLib.buf[i + 1].end = IF i = Len(img) - 1 THEN LastUsable
                                   ELSE img[i + 1].addr + img[i + 1].len - 1
    BY <1>1, <2>1, EntryFacts
  <2>4. SunxiGptPartitionGetOffset(i) = img[i + 1].addr
    BY <2>2, <2>3 DEF SunxiGptPartitionGetOffset
  <2>5. SunxiGptPartitionGetSize(i) = IF i = Len(img) - 1 THEN LastUsable - img[i + 1].addr
                                      ELSE img[i + 1].len - 1
    <3>1. img[i + 1].addr \in Nat /\ img[i + 1].len \in Nat BY <2>1, PartFacts
    <3>2. SunxiGptPartitionGetSize(i)
            = (IF i = Len(img) - 1 THEN LastUsable
               ELSE img[i + 1].addr + img[i + 1].len - 1) - img[i + 1].addr
      BY <2>2, <2>3 DEF SunxiGptPartitionGetSize
    <3>3. \A a, n \in Nat : a + n - 1 - a = n - 1 OBVIOUS
    <3> QED BY <3>1, <3>2, <3>3
  <2>6. FirstOfName(img, i + 1) => GptNamed(img[i + 1].name) = {i + 1}
    <3> SUFFICES ASSUME FirstOfName(img, i + 1) PROVE GptNamed(img[i + 1].name) = {i + 1}
      OBVIOUS
    <3>1. i + 1 \in 1..EntryNum BY <1>2, <2>1
    <3>2. ASSUME NEW j \in 1..(i + 1 - 1) PROVE gptLib.buf[j].name # img[i + 1].name
      <4>1. j \in 1..Len(img) BY <1>2, <2>1
      <4>2. gptLib.buf[j].name = img[j].name BY <1>1, <4>1, EntryFacts
      <4> QED BY <4>2 DEF FirstOfName
    <3>3. FirstNamed(gptLib.buf, EntryNum, img[i + 1].name) = {i + 1}
      <4>1. PICK m \in 1..EntryNum : m = i + 1 BY <3>1
      <4>2. gptLib.buf[m].name = img[m].name
            /\ \A j \in 1..(m - 1) : gptLib.buf[j].name # img[m].name
        BY <2>3, <3>2, <4>1
      <4>3. EntryNum \in Nat BY Numbers
      <4>4. FirstNamed(gptLib.buf, EntryNum, gptLib.buf[m].name) = {m}
        <5>1. \A j \in 1..(m - 1) : gptLib.buf[j].name # gptLib.buf[m].name BY <4>2
        <5>2. PICK buf : buf = gptLib.buf OBVIOUS
        <5>3. FirstNamed(buf, EntryNum, buf[m].name) = {m} BY <4>3, <5>1, <5>2, FirstNamedOne
        <5> QED BY <5>2, <5>3
      <4> QED BY <4>1, <4>2, <4>4
    <3> QED BY <3>3 DEF GptNamed
  <2> QED BY <2>4, <2>5, <2>6
<1>4. \A i \in 0..(Len(img) - 1) : i + 1 - 1 = i BY <1>2
<1> WITNESS img \in Images
<1> TAKE i \in 0..(Len(img) - 1)
<1>5. ASSUME GptNamed(img[i + 1].name) = {i + 1}
      PROVE  /\ SunxiGptPartitionGetInfoByName(img[i + 1].name)
                  = {<<SunxiGptPartitionGetOffset(i), SunxiGptPartitionGetSize(i)>>}
             /\ SunxiGptPartitionGetOffsetByName(img[i + 1].name) = {SunxiGptPartitionGetOffset(i)}
             /\ SunxiGptPartitionGetSizeByName(img[i + 1].name) = {SunxiGptPartitionGetSize(i)}
  BY <1>4, <1>5 DEF SunxiGptPartitionGetInfoByName, SunxiGptPartitionGetOffsetByName,
                    SunxiGptPartitionGetSizeByName
<1> QED BY <1>3, <1>5

(* So do those in the vendor's table.                                      *)
LEMMA MbrLookups == MbrLookupsTrue
<1> SUFFICES ASSUME NEW img \in Images, mbrLib.buf = img
             PROVE  LET known == mbrLib.status = 1
                    IN  /\ SunxipartitionGetOffset(Len(img)) = Refused
                        /\ \A i \in 1..Len(img) :
                             FirstOfName(img, i) =>
                               /\ SunxiPartitionGetInfoByName(img[i].name)
                                    = IF known THEN {<<img[i].addr, img[i].len>>} ELSE {}
                               /\ SunxiPartitionGetOffsetByName(img[i].name)
                                    = {SunxipartitionGetOffset(i - 1)} \ {Refused}
                               /\ SunxiPartitionGetSizeByName(img[i].name)
                                    = {SunxiPartitionGetSize(i - 1)} \ {Refused}
  BY DEF MbrLookupsTrue
<1>1. Len(img) \in Nat BY FlashAssumption
<1>2. SunxipartitionGetOffset(Len(img)) = Refused
  BY <1>1 DEF SunxipartitionGetOffset, MbrIndex
<1>3. ASSUME NEW i \in 1..Len(img), FirstOfName(img, i), mbrLib.status = 1
      PROVE  /\ SunxiPartitionGetInfoByName(img[i].name) = {<<img[i].addr, img[i].len>>}
             /\ SunxiPartitionGetOffsetByName(img[i].name)
                  = {SunxipartitionGetOffset(i - 1)} \ {Refused}
             /\ SunxiPartitionGetSizeByName(img[i].name)
                  = {SunxiPartitionGetSize(i - 1)} \ {Refused}
  <2>1. i - 1 < Len(img) /\ i - 1 + 1 = i BY <1>1
  <2>2. SunxipartitionGetOffset(i - 1) = img[i].addr /\ SunxiPartitionGetSize(i - 1) = img[i].len
    BY <1>3, <2>1 DEF SunxipartitionGetOffset, SunxiPartitionGetSize, MbrIndex
  <2>3. FirstNamed(img, Len(img), img[i].name) = {i}
    <3>1. \A j \in 1..(i - 1) : img[j].name # img[i].name BY <1>3 DEF FirstOfName
    <3> QED BY <1>1, <3>1, FirstNamedOne
  <2>4. MbrNamed(img[i].name) = {i} BY <1>3, <2>3 DEF MbrNamed
  <2>5. img[i].addr # Refused /\ img[i].len # Refused BY PartFacts DEF Refused
  <2> QED BY <2>2, <2>4, <2>5 DEF SunxiPartitionGetInfoByName, SunxiPartitionGetOffsetByName,
                                  SunxiPartitionGetSizeByName
<1>4. ASSUME NEW i \in 1..Len(img), mbrLib.status # 1
      PROVE  /\ SunxiPartitionGetInfoByName(img[i].name) = {}
             /\ SunxiPartitionGetOffsetByName(img[i].name)
                  = {SunxipartitionGetOffset(i - 1)} \ {Refused}
             /\ SunxiPartitionGetSizeByName(img[i].name)
                  = {SunxiPartitionGetSize(i - 1)} \ {Refused}
  <2>1. SunxipartitionGetOffset(i - 1) = Refused /\ SunxiPartitionGetSize(i - 1) = Refused
    BY <1>4 DEF SunxipartitionGetOffset, SunxiPartitionGetSize, MbrIndex
  <2>2. MbrNamed(img[i].name) = {} BY <1>4 DEF MbrNamed
  <2> QED BY <2>1, <2>2 DEF SunxiPartitionGetInfoByName, SunxiPartitionGetOffsetByName,
                            SunxiPartitionGetSizeByName
<1> QED BY <1>2, <1>3, <1>4

(* An erase is inside the boot areas or inside the part it is at.          *)
LEMMA EraseInside ==
  ASSUME FlashInv, EraseCall, WindowTrue PROVE RangesInside
<1>1. ASSUME Running, job.op = "erase", Head(job.todo).at >= MbrOffset
      PROVE  \E i \in 2..Len(job.img) :
               LET w == Head(job.todo)
               IN  /\ Entry(job.img, i).start <= w.at
                   /\ \/ w.at + w.n - 1 <= Entry(job.img, i).end
                      \/ i < Len(job.img) /\ job.img[i].len = 0
  <2>1. job.img \in Images /\ job.todo \in Seq(EraseWrites(job.img)) BY <1>1 DEF EraseCall
  <2>2. PICK img \in Images : img = job.img BY <2>1
  <2>3. job.todo # <<>> BY <1>1 DEF FlashInv, OtherCall
  <2>4. PICK w \in EraseWrites(img) : w = Head(job.todo)
    <3>1. job.todo \in Seq(EraseWrites(img)) BY <2>1, <2>2
    <3> QED BY <2>3, <3>1, HeadTailProperties
  <2>5. w \notin {EraseBoot[i] : i \in 1..4}
    <3>1. ASSUME NEW i \in 1..4 PROVE EraseBoot[i].at \in {Boot0Lba, UefiLba}
      BY EraseBootFacts DEF Write
    <3>2. ASSUME NEW i \in 1..4 PROVE ~(EraseBoot[i].at >= MbrOffset)
      BY <3>1 DEF Boot0Lba, UefiLba, MbrOffset
    <3> QED BY <1>1, <2>4, <3>2
  <2>6. PICK p \in PartsOf(img) : w \in {ErasePart(p)[j] : j \in 1..Len(ErasePart(p))}
    BY <2>5 DEF EraseWrites
  <2>7. PICK i \in 2..Len(img) : p = img[i] BY DEF PartsOf
  <2>8. PICK j \in 1..Len(ErasePart(p)) : w = ErasePart(p)[j] BY <2>6
  <2>9. /\ Entry(img, i).start <= w.at
        /\ \/ w.at + w.n - 1 <= Entry(img, i).end
           \/ i < Len(img) /\ img[i].len = 0
    BY <2>7, <2>8, ErasePartFacts
  <2> QED BY <2>2, <2>4, <2>9
<1> QED BY <1>1 DEF RangesInside, WindowTrue

(* What the invariant says.                                                *)
LEMMA TablesInvTrue ==
  ASSUME TablesInv PROVE TablesTrue
BY DoneWritten, LibLookups, MbrLookups, EraseInside DEF TablesInv, TablesTrue, CallsTrue

(* It holds of an empty card.                                              *)
LEMMA TablesInvInit ==
  ASSUME FlashInit PROVE TablesInv
<1>1. FlashInv BY FlashInvInit
<1>2. HeadersTrue
  <2>1. \A l \in Tracked : disk[l] = Zeros BY DEF FlashInit
  <2> QED BY <2>1 DEF HeadersTrue, HeaderTrue, Zeros
<1>3. LibTrue /\ WindowTrue
  <2>1. gptLib.status = 0 BY DEF FlashInit
  <2>2. fsWindow.part.start = fsWindow.part.end BY DEF FlashInit, NoWindow, NoEntry
  <2> QED BY <2>1, <2>2 DEF LibTrue, WindowTrue
<1>4. job.op = "none" /\ job.status = "success" BY DEF FlashInit, Idle
<1>5. CallsTrue
  BY <1>4 DEF CallsTrue, GptLast, MbrCall, FileCall, EraseCall, CallDone, Done, Running
<1> QED BY <1>1, <1>2, <1>3, <1>5 DEF TablesInv

(* Every step keeps it.                                                    *)
LEMMA TablesInvStep ==
  ASSUME TablesInv, [FlashNext \/ VendorNext]_flashVars PROVE TablesInv'
<1>1. FlashInv' BY FlashInvStep DEF TablesInv
<1>2. ASSUME UNCHANGED gptLib PROVE LibTrue'
  <2>1. LibTrue BY DEF TablesInv
  <2> QED BY <1>2, <2>1 DEF LibTrue, Entries, Entry
<1>3. ASSUME UNCHANGED fsWindow PROVE WindowTrue' BY <1>3 DEF TablesInv, WindowTrue
<1>4. ASSUME UNCHANGED disk PROVE HeadersTrue'
  <2>1. \A l \in Tracked : HeaderTrue(disk'[l]) BY <1>4 DEF TablesInv, HeadersTrue
  <2> QED BY <2>1 DEF HeadersTrue, HeaderTrue
<1>5. ASSUME Running, Written(Head(job.todo)) PROVE HeadersTrue'
  BY <1>5, RunningHeaders DEF TablesInv
<1>6. CASE \/ eMMCFlashIoWriteBootFiles
           \/ \E Erase \in BOOLEAN, img \in Images : eMMCFlashIoErase(Erase, img)
  <2>1. CallsTrue' /\ UNCHANGED <<disk, gptLib, fsWindow>> BY <1>6, CallsBegun
  <2> QED BY <1>1, <1>2, <1>3, <1>4, <2>1 DEF TablesInv
<1>7. CASE WriteBlocks
  <2>1. UNCHANGED <<gptLib, fsWindow>> /\ Running /\ Written(Head(job.todo))
    BY <1>7 DEF WriteBlocks, Written
  <2>2. CallsTrue' BY <1>7, CallsWrite DEF TablesInv
  <2> QED BY <1>1, <1>2, <1>3, <1>5, <2>1, <2>2 DEF TablesInv
<1>8. CASE WriteBlocksFails
  <2>1. UNCHANGED <<gptLib, fsWindow>> /\ Running /\ Written(Head(job.todo))
    BY <1>8 DEF WriteBlocksFails, Written
  <2>2. CallsTrue' BY <1>8, CallsCut DEF TablesInv, FlashInv
  <2> QED BY <1>1, <1>2, <1>3, <1>5, <2>1, <2>2 DEF TablesInv
<1>9. CASE NoMemory
  <2>1. UNCHANGED <<disk, gptLib, fsWindow>> BY <1>9 DEF NoMemory
  <2>2. CallsTrue' BY <1>9, CallsCut DEF TablesInv, FlashInv
  <2> QED BY <1>1, <1>2, <1>3, <1>4, <2>1, <2>2 DEF TablesInv
<1>10. CASE PowerLoss
  <2>1. Running /\ Written(Head(job.todo)) BY <1>10 DEF PowerLoss, Written
  <2>2. CallsTrue' BY <1>10, CallsCut DEF TablesInv, FlashInv
  <2>3. gptLib'.status = 0 /\ fsWindow' = NoWindow BY <1>10 DEF PowerLoss
  <2>4. fsWindow'.part.start = fsWindow'.part.end BY <2>3 DEF NoWindow, NoEntry
  <2>5. LibTrue' /\ WindowTrue' BY <2>3, <2>4 DEF LibTrue, WindowTrue
  <2> QED BY <1>1, <1>5, <2>1, <2>2, <2>5 DEF TablesInv
<1>11. CASE SunxiGetFsOffset
  <2>1. UNCHANGED <<disk, job>> BY <1>11 DEF SunxiGetFsOffset
  <2>2. LibTrue' /\ WindowTrue' BY <1>11, LibFound DEF TablesInv
  <2>3. CallsTrue' BY <2>1, CallsStill DEF TablesInv
  <2> QED BY <1>1, <1>4, <2>1, <2>2, <2>3 DEF TablesInv
<1>12. CASE VendorNext \/ UNCHANGED flashVars
  <2>1. UNCHANGED <<disk, job, gptLib, fsWindow>>
    BY <1>12 DEF VendorNext, SunxiPartitionInitialize, sunxi_partition_refresh, flashVars
  <2>2. CallsTrue' BY <2>1, CallsStill DEF TablesInv
  <2> QED BY <1>1, <1>2, <1>3, <1>4, <2>1, <2>2 DEF TablesInv
<1> QED BY <1>6, <1>7, <1>8, <1>9, <1>10, <1>11, <1>12 DEF FlashNext

(* For any card, tables and number of calls, cut short at any write: what  *)
(* a call reports as written is written and found, both copies of the      *)
(* table verify, the chain of boot records leads to every part, look-ups   *)
(* in an accepted table are those of the table that was written, and       *)
(* neither an erase nor the file system's window leaves its part.          *)
THEOREM TablesAreTrue == FlashSpec => []TablesTrue
<1>1. FlashInit => TablesInv BY TablesInvInit
<1>2. TablesInv /\ [FlashNext \/ VendorNext]_flashVars => TablesInv' BY TablesInvStep
<1>3. TablesInv => TablesTrue BY TablesInvTrue
<1> QED BY <1>1, <1>2, <1>3, PTL DEF FlashSpec
=============================================================================
