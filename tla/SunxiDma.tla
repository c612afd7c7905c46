------------------------------ MODULE SunxiDma -----------------------------
(***************************************************************************)
(* Drivers/SunxiDmaDxe/SunxiDma.c: the allocator of the system DMA         *)
(* controller's channels and the dispatcher of its single interrupt.       *)
(*                                                                         *)
(* The controller has two interrupt words, irq_pending0/1, with four bits  *)
(* for each of HalfChan channels (8 in the code); the driver uses bit 1 of *)
(* the four, DMA_PKG_END_INT.  A word's set bits are modelled as a set of  *)
(* <<word, bit>> pairs, because the driver writes masks to it that do not  *)
(* always belong to one channel.  irq_en0/1 are only ever changed one      *)
(* channel's bit at a time, and are modelled as the set of those channels. *)
(*                                                                         *)
(* One CPU runs everything: the clients' calls come one after another, and *)
(* sunxi_dma_int_func runs to its end wherever it interrupts them.  Calls  *)
(* are one action each, except sunxi_dma_release, whose parts are separate *)
(* because a transfer can complete between them.  A client calls with a    *)
(* handle it was given and has not released; calls that fail the `used'    *)
(* test change nothing and are not modelled, nor is sunxi_dma_querystatus, *)
(* which only reads.                                                       *)
(***************************************************************************)
EXTENDS Integers, FiniteSets

CONSTANTS SUNXI_DMA_MAX,  \* the number of channels: 16
          HalfChan,       \* channels per interrupt word: 8
          IsrTop          \* where the interrupt handler's second loop ends: 15

ASSUME SizeAssumption ==
  /\ SUNXI_DMA_MAX \in Nat \ {0}
  /\ HalfChan \in Nat \ {0}
  /\ SUNXI_DMA_MAX <= 2 * HalfChan
  /\ IsrTop = SUNXI_DMA_MAX - 1

VARIABLES used,           \* channels whose handle some client holds
          m_func,         \* channels with a handler installed (m_func # NULL)
          irq_en,         \* channels whose END interrupt is enabled
          dma_int_count,
          gicEnabled,     \* AW_IRQ_DMA is enabled at the interrupt controller
          running,        \* channels the hardware is working on
          looping,        \* channels whose descriptor links to itself
          irq_pending,    \* set bits of irq_pending0/1
          stale,          \* history: channels whose END bit was set before they
                          \* were last released, and has not been cleared
          releasing,      \* the channel sunxi_dma_release works on, or -1
          releasePc,      \* where it is
          exited          \* sunxi_dma_exit was called

vars == <<used, m_func, irq_en, dma_int_count, gicEnabled, running, looping,
          irq_pending, stale, releasing, releasePc, exited>>

Chan == 0..(SUNXI_DMA_MAX - 1)

Word(c) == IF c < HalfChan THEN 0 ELSE 1

(* A mask shifted up by n in the word of channel c.                        *)
Mask(c, n, bits) == {<<Word(c), n + b>> : b \in bits}

(* The channel's number within its word.                                   *)
InWord(c) == IF c < HalfChan THEN c ELSE c - HalfChan

EndBit(c) == <<Word(c), 4 * InWord(c) + 1>>

(* The history variable after the pending bits became those of irq_pending'.*)
StillStale == {c \in stale : EndBit(c) \in irq_pending'}

(* The clients' thread is between two calls.                               *)
Idle == releasePc = "idle" /\ ~exited

Init ==
  /\ used = {}
  /\ m_func = {}
  /\ irq_en = {}
  /\ dma_int_count = 0
  /\ gicEnabled = FALSE
  /\ running = {}
  /\ looping = {}
  /\ irq_pending = {}
  /\ stale = {}
  /\ releasing = -1
  /\ releasePc = "idle"
  /\ exited = FALSE

-----------------------------------------------------------------------------
(* The calls of the protocol.                                              *)

(* sunxi_dma_request: the first channel that is not used, if there is one. *)
Request(c) ==
  /\ Idle
  /\ c \notin used
  /\ \A b \in Chan : b < c => b \in used
  /\ used' = used \cup {c}
  /\ UNCHANGED <<m_func, irq_en, dma_int_count, gicEnabled, running, looping,
                 irq_pending, stale, releasing, releasePc, exited>>

(* sunxi_dma_setting: loop_mode decides what the descriptor links to.      *)
Setting(c, loop_mode) ==
  /\ Idle
  /\ c \in used
  /\ looping' = IF loop_mode THEN looping \cup {c} ELSE looping \ {c}
  /\ UNCHANGED <<used, m_func, irq_en, dma_int_count, gicEnabled, running,
                 irq_pending, stale, releasing, releasePc, exited>>

Start(c) ==
  /\ Idle
  /\ c \in used
  /\ running' = running \cup {c}
  /\ UNCHANGED <<used, m_func, irq_en, dma_int_count, gicEnabled, looping,
                 irq_pending, stale, releasing, releasePc, exited>>

Stop(c) ==
  /\ Idle
  /\ c \in used
  /\ running' = running \ {c}
  /\ UNCHANGED <<used, m_func, irq_en, dma_int_count, gicEnabled, looping,
                 irq_pending, stale, releasing, releasePc, exited>>

(* Mutant of InstallInt: what an earlier owner left pending is not cleared. *)
MutInstallKeepsPending(c) ==
  /\ Idle
  /\ c \in used
  /\ m_func' = m_func \cup {c}
  /\ UNCHANGED <<used, irq_en, dma_int_count, gicEnabled, running, looping,
                 irq_pending, stale, releasing, releasePc, exited>>

(* sunxi_dma_install_int: the channel's pending bits are cleared even when *)
(* a handler is there already and the call fails.                          *)
InstallInt(c) ==
  /\ Idle
  /\ c \in used
  /\ irq_pending' = irq_pending \ Mask(c, 4 * InWord(c), 0..2)
  /\ stale' = StillStale
  /\ m_func' = m_func \cup {c}
  /\ UNCHANGED <<used, irq_en, dma_int_count, gicEnabled, running, looping,
                 releasing, releasePc, exited>>

(* Mutant of EnableInt: the test for an interrupt already enabled is gone.  *)
MutEnableTwice(c) ==
  /\ Idle
  /\ c \in used
  /\ irq_en' = irq_en \cup {c}
  /\ gicEnabled' = (gicEnabled \/ dma_int_count = 0)
  /\ dma_int_count' = dma_int_count + 1
  /\ dma_int_count < 3
  /\ UNCHANGED <<used, m_func, running, looping, irq_pending, stale,
                 releasing, releasePc, exited>>

EnableInt(c) ==
  /\ Idle
  /\ c \in used
  /\ c \notin irq_en
  /\ irq_en' = irq_en \cup {c}
  /\ gicEnabled' = (gicEnabled \/ dma_int_count = 0)
  /\ dma_int_count' = dma_int_count + 1
  /\ UNCHANGED <<used, m_func, running, looping, irq_pending, stale,
                 releasing, releasePc, exited>>

(* What sunxi_dma_disable_int does to the enable bit, the counter and the  *)
(* interrupt controller; it changes nothing when the bit is not set.       *)
DisableIntEffect(c) ==
  IF c \in irq_en
    THEN LET n == IF dma_int_count > 0 THEN dma_int_count - 1 ELSE dma_int_count
         IN  /\ irq_en' = irq_en \ {c}
             /\ dma_int_count' = n
             /\ gicEnabled' = (gicEnabled /\ n # 0)
    ELSE UNCHANGED <<irq_en, dma_int_count, gicEnabled>>

DisableInt(c) ==
  /\ Idle
  /\ c \in irq_en
  /\ c \in used
  /\ DisableIntEffect(c)
  /\ UNCHANGED <<used, m_func, running, looping, irq_pending, stale,
                 releasing, releasePc, exited>>

(* What sunxi_dma_free_int does: its mask is shifted by the channel's      *)
(* number, where the other functions shift by four times the number.       *)
FreeIntEffect(c) ==
  /\ irq_pending' = irq_pending \ Mask(c, InWord(c), 0..2)
  /\ stale' = StillStale
  /\ m_func' = m_func \ {c}

FreeInt(c) ==
  /\ Idle
  /\ c \in used
  /\ FreeIntEffect(c)
  /\ UNCHANGED <<used, irq_en, dma_int_count, gicEnabled, running, looping,
                 releasing, releasePc, exited>>

(* sunxi_dma_release, up to and after each of its two calls.               *)
ReleaseDisable(c) ==
  /\ Idle
  /\ c \in used
  /\ DisableIntEffect(c)
  /\ releasing' = c
  /\ releasePc' = "free_int"
  /\ UNCHANGED <<used, m_func, running, looping, irq_pending, stale, exited>>

ReleaseFree ==
  /\ releasePc = "free_int"
  /\ FreeIntEffect(releasing)
  /\ releasePc' = "unuse"
  /\ UNCHANGED <<used, irq_en, dma_int_count, gicEnabled, running, looping,
                 releasing, exited>>

ReleaseUnuse ==
  /\ releasePc = "unuse"
  /\ running' = running \ {releasing}
  /\ used' = used \ {releasing}
  /\ stale' = stale \cup {c \in {releasing} : EndBit(c) \in irq_pending}
  /\ releasing' = -1
  /\ releasePc' = "idle"
  /\ UNCHANGED <<m_func, irq_en, dma_int_count, gicEnabled, looping,
                 irq_pending, exited>>

(* sunxi_dma_exit: every used channel is released, then the interrupt      *)
(* words are cleared.  The descriptors are freed, so no call may follow.   *)
Exit ==
  /\ Idle
  /\ LET n == dma_int_count - Cardinality(irq_en \cap used)
     IN  dma_int_count' = IF n > 0 THEN n ELSE 0
  /\ used' = {}
  /\ m_func' = m_func \ used
  /\ running' = running \ used
  /\ irq_en' = {}
  /\ irq_pending' = {}
  /\ gicEnabled' = FALSE
  /\ exited' = TRUE
  /\ stale' = {}
  /\ UNCHANGED <<looping, releasing, releasePc>>

-----------------------------------------------------------------------------
(* The hardware and the interrupt handler.                                 *)

(* A transfer's package ends: the END bit is set, enabled or not; a        *)
(* descriptor that links to itself starts again.                           *)
TransferEnds(c) ==
  /\ c \in running
  /\ irq_pending' = irq_pending \cup {EndBit(c)}
  /\ running' = IF c \in looping THEN running ELSE running \ {c}
  /\ UNCHANGED <<used, m_func, irq_en, dma_int_count, gicEnabled, looping,
                 stale, releasing, releasePc, exited>>

(* The bit sunxi_dma_int_func tests for channel i.  In its second loop the *)
(* shift count 4 * i is not below 32: the behaviour is undefined in C and  *)
(* the count modulo the word's width on AArch64.                           *)
IsrBit(i) == <<Word(i), (4 * i + 1) % (4 * HalfChan)>>

(* The channels the handler's two loops look at.                           *)
IsrChan == {i \in Chan : i < HalfChan \/ i < IsrTop}

Served == {i \in IsrChan : i \in m_func /\ IsrBit(i) \in irq_pending}

InterruptAsserted == gicEnabled /\ \E c \in irq_en : EndBit(c) \in irq_pending

(* sunxi_dma_int_func: clear and call for every channel that is served.    *)
(* What a handler does is its client's business and is not modelled.       *)
Interrupt ==
  /\ InterruptAsserted
  /\ irq_pending' = irq_pending \ {IsrBit(i) : i \in Served}
  /\ stale' = StillStale
  /\ UNCHANGED <<used, m_func, irq_en, dma_int_count, gicEnabled, running, looping,
                 releasing, releasePc, exited>>

Call(c) ==
  \/ Request(c)
  \/ \E loop_mode \in BOOLEAN : Setting(c, loop_mode)
  \/ Start(c)
  \/ Stop(c)
  \/ InstallInt(c)
  \/ EnableInt(c)
  \/ DisableInt(c)
  \/ FreeInt(c)
  \/ ReleaseDisable(c)

Next ==
  \/ \E c \in Chan : Call(c) \/ TransferEnds(c)
  \/ ReleaseFree
  \/ ReleaseUnuse
  \/ Exit
  \/ Interrupt

Spec == Init /\ [][Next]_vars

-----------------------------------------------------------------------------
(* Properties.                                                             *)

(* Type correctness of the driver's tables and of the registers.           *)
TypeOK ==
  /\ used \in SUBSET Chan
  /\ m_func \in SUBSET Chan
  /\ irq_en \in SUBSET Chan
  /\ dma_int_count \in Int
  /\ gicEnabled \in BOOLEAN
  /\ running \in SUBSET Chan
  /\ looping \in SUBSET Chan
  /\ irq_pending \in SUBSET ({0, 1} \X (0..(4 * HalfChan - 1)))
  /\ stale \in SUBSET Chan
  /\ releasing \in Chan \cup {-1}
  /\ releasePc \in {"idle", "free_int", "unuse"}
  /\ exited \in BOOLEAN

(* dma_int_count, which decides when the interrupt controller's source is  *)
(* switched, counts the enabled channels exactly, and the source is on if  *)
(* and only if some channel's interrupt is: enable_int and disable_int     *)
(* calls of different clients, releases and exits never get it out of step.*)
CountMatchesEnables ==
  /\ dma_int_count = Cardinality(irq_en)
  /\ gicEnabled <=> irq_en # {}

(* A channel that no client holds has no interrupt enabled, no handler and *)
(* no transfer running: the interrupt handler never calls into a client    *)
(* that released its channel, and no transfer outlives its buffers' owner. *)
FreeChannelQuiet == irq_en \cup m_func \cup running \subseteq used

(* A handler is never called for a transfer of the channel's earlier owner,*)
(* although sunxi_dma_free_int can leave that transfer's END bit set and a *)
(* transfer may end while its channel is being released.                   *)
NoStaleCompletion == m_func \cap stale = {}

(* Every channel that sunxi_dma_request hands out ("dma handler, if 0,      *)
(* fail") can be used with an interrupt: a completion that asserts the     *)
(* interrupt is one the interrupt handler clears and delivers.             *)
AssertedIsServed ==
  \A c \in irq_en \cap m_func : EndBit(c) \in irq_pending => c \in Served
=============================================================================
