----------------------------- MODULE CardDetect -----------------------------
(***************************************************************************)
(* Drivers/SunxiSdMmcDxe/SdMmcDxe.c: how a card that is put into or taken  *)
(* out of the SD slot becomes a Block I/O interface or ceases to be one,   *)
(* and what a client can read through it.                                  *)
(*                                                                         *)
(* Two threads: SunxiSdMmcDxeInitialize, at TPL_APPLICATION, publishes the *)
(* card it finds; Card0DetectTimerCallback, at TPL_CALLBACK, runs every    *)
(* 100 ms, to its end, wherever it preempts the former.  The timer is      *)
(* started first, and the entry point takes no lock: a tick may fall       *)
(* between its look at the slot, the initialisation, the medium and the    *)
(* publication, though not between the calls that make up the last.        *)
(* SdReadWrite raises the TPL above the callback's and is one action.  A   *)
(* callback that finds gCard0DetectLock held returns at once, which is no  *)
(* step.                                                                   *)
(*                                                                         *)
(* The firmware's handle database (external) is the set of the slot's      *)
(* interfaces, by the number of the AllocateZeroPool they came from: a     *)
(* Block I/O and a device path, which come and go together.  Installing an *)
(* interface fails if the database has the same device path;               *)
(* uninstalling disconnects the client, and fails, leaving everything      *)
(* installed, if one of the named protocols is not on the handle.  A card  *)
(* is not replaced between two ticks of the timer.                         *)
(***************************************************************************)
EXTENDS Integers, FiniteSets

CONSTANTS Cards,           \* the cards that may be put into the slot
          NoCard,          \* an empty slot
          BadCards,        \* cards whose initialisation fails
          Capacity,        \* the number of blocks of each card
          LbaModulus,      \* 2^64: LastBlock is a UINT64
          InitTicks,       \* bound: ticks during SunxiSdMmcDxeInitialize
          MaxSwaps         \* bound: cards put into the slot

ASSUME CardAssumption ==
  /\ NoCard \notin Cards
  /\ BadCards \subseteq Cards
  /\ LbaModulus \in Nat \ {0}
  /\ Capacity \in [Cards -> 1..(LbaModulus - 1)]
  /\ InitTicks \in Nat
  /\ MaxSwaps \in Nat

VARIABLES slot,          \* the card in the slot
          seenEmpty,     \* a tick has passed since the slot became empty
          swaps,         \* cards put in so far
          DetectCount,   \* DetectCard0's counter of ticks with a card present
          MediaPresent,  \* gSdMmc0.MediaPresent and
          LastBlock,     \* gSdMmc0.LastBlock
          host,          \* the card that SD host 0 is initialised for
          lock,          \* gCard0DetectLock is held
          handle,        \* the interface on gSdMmcHandleArray[0], 0 if none
          flashIo,       \* ... and a FlashIo is on that handle, too
          db,            \* the installed interfaces
          live,          \* the interfaces whose memory is allocated
          made,          \* interfaces allocated so far
          flashElsewhere,  \* the eMMC, or NAND, has published a FlashIo
          pc,            \* where SunxiSdMmcDxeInitialize is
          ticks,         \* ticks so far, while it runs
          lba,           \* its local variable Lba
          raced,         \* history: a tick changed the slot's state under it
          asserted,      \* an ASSERT failed: the firmware has stopped
          client,        \* the interface a client has opened, 0 if none,
          media,         \* the card its MediaId is from
          wrongCard      \* history: a read succeeded on another card

slotVars == <<slot, seenEmpty, swaps>>
mediaVars == <<DetectCount, MediaPresent, LastBlock, host>>
dbVars == <<handle, flashIo, db, live, made, asserted, flashElsewhere>>
initVars == <<pc, ticks, lba, raced>>
clientVars == <<client, media, wrongCard>>

vars == <<slotVars, mediaVars, lock, dbVars, initVars, clientVars>>

(* Ticks a card must be there before it is initialised.                    *)
DetectLimit == 3

Init ==
  /\ slot \in Cards \cup {NoCard}
  /\ seenEmpty = TRUE
  /\ swaps = 0
  /\ DetectCount = 0
  /\ MediaPresent = FALSE
  /\ LastBlock = 0
  /\ host = NoCard
  /\ lock = FALSE
  /\ handle = 0
  /\ flashIo = FALSE
  /\ db = {}
  /\ live = {}
  /\ made = 0
  /\ flashElsewhere \in BOOLEAN
  /\ pc = "otherHosts"
  /\ ticks = 0
  /\ lba = 0
  /\ raced = FALSE
  /\ asserted = FALSE
  /\ client = 0
  /\ media = NoCard
  /\ wrongCard = FALSE

-----------------------------------------------------------------------------
(* The user.                                                               *)

InsertCard(c) ==
  /\ slot = NoCard
  /\ seenEmpty
  /\ swaps < MaxSwaps
  /\ slot' = c
  /\ swaps' = swaps + 1
  /\ UNCHANGED <<seenEmpty, mediaVars, lock, dbVars, initVars, clientVars>>

RemoveCard ==
  /\ slot # NoCard
  /\ slot' = NoCard
  /\ seenEmpty' = FALSE
  /\ UNCHANGED <<swaps, mediaVars, lock, dbVars, initVars, clientVars>>

-----------------------------------------------------------------------------
(* Publishing a card.                                                      *)

Card0Present == slot # NoCard

(* SDMMC_LogicalInit(0, 0): 0 on success, -1 on failure.                   *)
LogicalInitOK == slot \in Cards \ BadCards

(* An interface is allocated and installed on the handle h; FlashIo first, *)
(* if no other driver and no earlier card has published one.  The ASSERT   *)
(* on the result stops the firmware.                                       *)
Publish(h) ==
  LET id == made + 1
      known == h # 0 \/ db \cap live # {}
  IN  /\ made' = id
      /\ live' = live \cup {id}
      /\ flashIo' = (flashIo \/ ~flashElsewhere)
      /\ UNCHANGED flashElsewhere
      /\ \/ /\ ~known
            /\ db' = db \cup {id}
            /\ handle' = id
            /\ asserted' = FALSE
         \/ /\ known \/ db # {}
            /\ db' = db
            /\ handle' = h
            /\ asserted' = TRUE

-----------------------------------------------------------------------------
(* SunxiSdMmcDxeInitialize, after it has started the timer.                *)

(* The eMMC, host 2, comes first: if there is one, it publishes a FlashIo, *)
(* unless somebody has.                                                    *)
InitOtherHosts ==
  /\ pc = "otherHosts"
  /\ ~asserted
  /\ \E emmc \in BOOLEAN : flashElsewhere' = (flashElsewhere \/ (emmc /\ ~flashIo))
  /\ pc' = IF Card0Present THEN "init" ELSE "done"
  /\ UNCHANGED <<slotVars, mediaVars, lock, handle, flashIo, db, live, made, asserted,
                 ticks, lba, raced, clientVars>>

InitHost0 ==
  /\ pc = "init"
  /\ ~asserted
  /\ IF LogicalInitOK
       THEN host' = slot /\ lba' = Capacity[slot] /\ pc' = "media"
       ELSE host' = NoCard /\ lba' = lba /\ pc' = "done"
  /\ UNCHANGED <<slotVars, DetectCount, MediaPresent, LastBlock, lock, dbVars, ticks, raced,
                 clientVars>>

InitMedia ==
  /\ pc = "media"
  /\ ~asserted
  /\ MediaPresent' = TRUE
  /\ LastBlock' = lba - 1
  /\ pc' = "publish"
  /\ UNCHANGED <<slotVars, DetectCount, host, lock, dbVars, ticks, lba, raced, clientVars>>

InitPublish ==
  /\ pc = "publish"
  /\ ~asserted
  /\ Publish(handle)
  /\ pc' = "done"
  /\ UNCHANGED <<slotVars, mediaVars, lock, ticks, lba, raced, clientVars>>

-----------------------------------------------------------------------------
(* Card0DetectTimerCallback.                                               *)

(* It may run, and finds the lock free; what every run of it does.  A run  *)
(* that changes what the entry point has gone by, races it.                *)
Tick(race) ==
  /\ ~asserted
  /\ ~lock
  /\ pc # "done" => ticks < InitTicks
  /\ ticks' = IF pc # "done" THEN ticks + 1 ELSE ticks
  /\ raced' = (raced \/ race)
  /\ UNCHANGED <<swaps, pc, lba>>

(* Nothing has changed since the last tick.  From an empty slot on, the    *)
(* card the entry point has initialised may be replaced.                   *)
TickQuiet ==
  /\ Tick(pc \in {"media", "publish"} /\ slot = NoCard)
  /\ MediaPresent <=> Card0Present
  /\ seenEmpty' = (seenEmpty \/ slot = NoCard)
  /\ UNCHANGED <<slot, mediaVars, lock, dbVars, clientVars>>

(* Mutant of TickRemoved: the interfaces are freed but stay installed.      *)
MutNoUninstall ==
  /\ Tick(pc # "done")
  /\ MediaPresent
  /\ ~Card0Present
  /\ seenEmpty' = TRUE
  /\ UNCHANGED db
  /\ handle' = handle
  /\ flashIo' = FALSE
  /\ client' = 0
  /\ live' = live \ {handle}
  /\ MediaPresent' = FALSE
  /\ host' = NoCard
  /\ UNCHANGED <<slot, DetectCount, LastBlock, lock, made, flashElsewhere, asserted, media,
                 wrongCard>>

(* The card is gone: the three protocols are uninstalled at once, which    *)
(* fails if FlashIo is another driver's, or if nothing is published yet;   *)
(* their memory is freed in any case.  The FreePool that follows then, of  *)
(* NULL or of a pointer HandleProtocol did not set, stops a build with     *)
(* assertions and does nothing in another.                                 *)
TickRemoved ==
  /\ Tick(pc # "done")
  /\ MediaPresent
  /\ ~Card0Present
  /\ seenEmpty' = TRUE
  /\ IF flashIo THEN db' = db \ {handle} /\ flashIo' = FALSE ELSE UNCHANGED <<db, flashIo>>
  /\ client' = 0
  /\ live' = live \ {handle}
  /\ MediaPresent' = FALSE
  /\ host' = NoCard
  /\ asserted' \in {FALSE, ~flashIo}
  /\ UNCHANGED <<slot, DetectCount, LastBlock, lock, handle, made, flashElsewhere, media,
                 wrongCard>>

(* Mutant of TickCounts: the early return forgets to release the lock.      *)
MutKeepsLock ==
  /\ Tick(FALSE)
  /\ ~MediaPresent
  /\ Card0Present
  /\ DetectCount + 1 < DetectLimit
  /\ DetectCount' = DetectCount + 1
  /\ lock' = TRUE
  /\ UNCHANGED <<slot, seenEmpty, MediaPresent, LastBlock, host, dbVars, clientVars>>

(* DetectCard0 counts a tick, and the callback returns early.              *)
TickCounts ==
  /\ Tick(FALSE)
  /\ ~MediaPresent
  /\ Card0Present
  /\ DetectCount + 1 < DetectLimit
  /\ DetectCount' = DetectCount + 1
  /\ UNCHANGED <<slot, seenEmpty, MediaPresent, LastBlock, host, lock, dbVars, clientVars>>

(* The card is pulled between the callback's look at the pin and that of   *)
(* DetectCard0, the only way in which DetectCard0 sees an empty slot.      *)
TickPulled ==
  /\ Tick(FALSE)
  /\ ~MediaPresent
  /\ Card0Present
  /\ slot' = NoCard
  /\ seenEmpty' = FALSE
  /\ DetectCount' = 0
  /\ UNCHANGED <<MediaPresent, LastBlock, host, lock, dbVars, clientVars>>

(* A card that cannot be initialised is tried again after three more ticks.*)
TickInitFails ==
  /\ Tick(FALSE)
  /\ ~MediaPresent
  /\ Card0Present
  /\ DetectCount + 1 >= DetectLimit
  /\ ~LogicalInitOK
  /\ host' = NoCard
  /\ LastBlock' = 0
  /\ DetectCount' = 0
  /\ UNCHANGED <<slot, seenEmpty, MediaPresent, lock, dbVars, clientVars>>

(* Mutant of TickInserts: the card is published, but not as present.        *)
MutNotPresent ==
  /\ Tick(pc # "done")
  /\ ~MediaPresent
  /\ Card0Present
  /\ DetectCount + 1 >= DetectLimit
  /\ LogicalInitOK
  /\ host' = slot
  /\ LastBlock' = (0 - 1) % LbaModulus
  /\ DetectCount' = 0
  /\ Publish(0)
  /\ UNCHANGED <<slot, seenEmpty, MediaPresent, lock, clientVars>>

(* The card is initialised and published on a new handle.  LastBlock is    *)
(* computed from the result of SDMMC_LogicalInit.                          *)
TickInserts ==
  /\ Tick(pc # "done")
  /\ ~MediaPresent
  /\ Card0Present
  /\ DetectCount + 1 >= DetectLimit
  /\ LogicalInitOK
  /\ host' = slot
  /\ MediaPresent' = TRUE
  /\ LastBlock' = (0 - 1) % LbaModulus
  /\ DetectCount' = 0
  /\ Publish(0)
  /\ UNCHANGED <<slot, seenEmpty, lock, clientVars>>

Callback ==
  \/ TickQuiet \/ TickRemoved \/ TickCounts \/ TickPulled
  \/ TickInitFails \/ TickInserts

-----------------------------------------------------------------------------
(* A client, which keeps the MediaId of the card it saw first.             *)

OpenBlockIo(id) ==
  /\ ~asserted
  /\ client = 0
  /\ id \in db
  /\ client' = id
  /\ media' = IF media = NoCard THEN host ELSE media
  /\ UNCHANGED <<slotVars, mediaVars, lock, dbVars, initVars, wrongCard>>

(* SdReadWrite: the MediaId is not looked at; mmc_bread compares the block *)
(* with the card's capacity, and fails if the card is gone.                *)
ReadBlocks(block) ==
  /\ ~asserted
  /\ client # 0
  /\ block <= LastBlock
  /\ host # NoCard
  /\ host = slot
  /\ block < Capacity[host]
  /\ wrongCard' = (wrongCard \/ host # media)
  /\ UNCHANGED <<slotVars, mediaVars, lock, dbVars, initVars, client, media>>

InitSteps == InitOtherHosts \/ InitHost0 \/ InitMedia \/ InitPublish

Next ==
  \/ \E c \in Cards : InsertCard(c)
  \/ RemoveCard
  \/ InitSteps
  \/ Callback
  \/ \E id \in db : OpenBlockIo(id)
  \/ \E block \in 0..(LbaModulus - 1) : ReadBlocks(block)

Spec == Init /\ [][Next]_vars

(* The driver's entry point runs to its end, and the timer is periodic.    *)
FairSpec == Spec /\ WF_vars(InitSteps) /\ WF_vars(Callback)

-----------------------------------------------------------------------------
(* Properties.                                                             *)

(* Type correctness.                                                       *)
TypeOK ==
  /\ slot \in Cards \cup {NoCard}
  /\ seenEmpty \in BOOLEAN
  /\ swaps \in 0..MaxSwaps
  /\ DetectCount \in 0..(DetectLimit - 1)
  /\ MediaPresent \in BOOLEAN
  /\ LastBlock \in 0..(LbaModulus - 1)
  /\ host \in Cards \cup {NoCard}
  /\ lock \in BOOLEAN
  /\ made \in Nat
  /\ handle \in 0..made
  /\ flashIo \in BOOLEAN
  /\ flashElsewhere \in BOOLEAN
  /\ db \in SUBSET (1..made)
  /\ live \in SUBSET (1..made)
  /\ pc \in {"otherHosts", "init", "media", "publish", "done"}
  /\ ticks \in 0..InitTicks
  /\ lba \in 0..(LbaModulus - 1)
  /\ raced \in BOOLEAN
  /\ asserted \in BOOLEAN
  /\ client \in 0..made
  /\ media \in Cards \cup {NoCard}
  /\ wrongCard \in BOOLEAN

(* What a client can find of the slot.  "Uninstall Protocol Interfaces"    *)
(* comes before the FreePool calls, which do not look at its result: an    *)
(* interface may outlive its memory only where another driver's FlashIo    *)
(* made the uninstall fail.  Nothing is leaked, at most one interface is   *)
(* alive, and the one of a card that is present is.                        *)
InstalledIsLive ==
  ~asserted =>
    /\ live \subseteq db \cap {handle}
    /\ db # live => flashElsewhere
    /\ pc # "publish" /\ MediaPresent => handle \in live

(* The ASSERT on an installation (and the one in FreePool) fails only      *)
(* where the timer published or withdrew the card while the entry point    *)
(* was about to publish it, or where an interface was left without memory  *)
(* beside another driver's FlashIo; never by insertions and removals alone.*)
AssertExplained ==
  asserted => raced \/ (flashElsewhere /\ db \ live # {})

(* Installing an interface never fails: ASSERT_EFI_ERROR (Status).  This   *)
(* is not so: the two cases of AssertExplained both happen.                *)
NoAssert == ~asserted

(* Unless the timer raced the entry point, the slot has an interface that  *)
(* is alive exactly while the driver takes a card to be present; a FlashIo *)
(* of the slot goes with it.                                               *)
PublishedIffPresent ==
  pc = "done" /\ ~raced /\ ~asserted =>
    /\ live = IF MediaPresent THEN {handle} ELSE {}
    /\ flashIo => MediaPresent

(* What a client reads through an interface comes from the card the host   *)
(* was initialised for: no other card is in the slot while it is published.*)
HostFollowsSlot ==
  pc = "done" /\ MediaPresent /\ ~raced => /\ host # NoCard
                                           /\ slot \in {host, NoCard}
                                           /\ slot = NoCard => ~seenEmpty

(* "Id of the media, changes every time the media is replaced": a read     *)
(* that succeeds is from the card whose MediaId the client gave.  This is  *)
(* not so: only a removal that a tick sees changes MediaId, and a card that*)
(* is swapped between two ticks is read under the old one.                 *)
MediaIdentity == ~wrongCard

(* A good card that stays in the slot is eventually published, however     *)
(* often it bounced, or bad cards failed, before.                          *)
Detected ==
  \A c \in Cards \ BadCards :
    slot = c ~> (slot # c \/ (MediaPresent /\ host = c) \/ raced \/ asserted)

(* A card that is taken out is eventually withdrawn, its interface too,    *)
(* unless the uninstall fails.                                             *)
Withdrawn ==
  slot = NoCard ~>
    \/ slot # NoCard
    \/ ~MediaPresent /\ live = {} /\ (db = {} \/ flashElsewhere)
    \/ raced \/ asserted

(* The interfaces follow the slot: Card0DetectTimerCallback, which returns *)
(* early in several places, publishes every good card that stays, and      *)
(* withdraws what was published when the slot stays empty, unless it raced *)
(* the entry point or an assertion has stopped the firmware.               *)
SlotFollowed == Detected /\ Withdrawn
=============================================================================
