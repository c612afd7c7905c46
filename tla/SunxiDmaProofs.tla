--------------------------- MODULE SunxiDmaProofs --------------------------
(***************************************************************************)
(* Proofs about SunxiDma for every number of channels.                     *)
(***************************************************************************)
EXTENDS SunxiDma, FiniteSetTheorems, TLAPS

USE SizeAssumption

(* While a channel is released it is still in use, its interrupt is off,   *)
(* and from the second part on it has no handler: what the last part needs *)
(* to hand over a quiet channel.                                           *)
ReleaseOK ==
  /\ releasePc # "idle" => releasing \in used \ irq_en
  /\ releasePc = "unuse" => releasing \notin m_func

(* The inductive invariant.                                                *)
IInv ==
  /\ TypeOK
  /\ CountMatchesEnables
  /\ FreeChannelQuiet
  /\ NoStaleCompletion
  /\ ReleaseOK

(* The enabled channels can be counted.                                    *)
LEMMA EnFinite == ASSUME TypeOK PROVE IsFiniteSet(irq_en) /\ Cardinality(irq_en) \in Nat
<1>1. IsFiniteSet(Chan)
  BY FS_Interval DEF Chan
<1>2. irq_en \subseteq Chan
  BY DEF TypeOK
<1>3. IsFiniteSet(irq_en)
  BY <1>1, <1>2, FS_Subset
<1> QED
  BY <1>3, FS_CardinalityType

(* Switching one channel's interrupt off keeps the counter exact.          *)
LEMMA DisableKeepsCount ==
  ASSUME TypeOK, CountMatchesEnables, NEW c \in Chan, DisableIntEffect(c)
  PROVE  /\ irq_en' = irq_en \ {c}
         /\ dma_int_count' \in Int
         /\ gicEnabled' \in BOOLEAN
         /\ CountMatchesEnables'
<1>1. IsFiniteSet(irq_en) /\ Cardinality(irq_en) \in Nat
  BY EnFinite
<1>2. CASE c \notin irq_en
  BY <1>2 DEF DisableIntEffect, CountMatchesEnables, TypeOK
<1>3. CASE c \in irq_en
  <2>1. IsFiniteSet(irq_en \ {c}) /\ Cardinality(irq_en \ {c}) = Cardinality(irq_en) - 1
    BY <1>1, <1>3, FS_RemoveElement
  <2>2. irq_en' = irq_en \ {c}
    BY <1>3 DEF DisableIntEffect
  <2>3. Cardinality(irq_en) > 0
    BY <1>1, <1>3, <2>1, FS_CardinalityType
  <2>4. dma_int_count' = Cardinality(irq_en')
    BY <1>1, <1>3, <2>1, <2>2, <2>3 DEF DisableIntEffect, CountMatchesEnables
  <2>5. Cardinality(irq_en') = 0 <=> irq_en' = {}
    BY <2>1, <2>2, FS_EmptySet
  <2>6. gicEnabled' <=> irq_en' # {}
    <3>1. gicEnabled
      BY <1>3 DEF CountMatchesEnables
    <3>2. gicEnabled' <=> dma_int_count' # 0
      BY <1>3, <3>1 DEF DisableIntEffect
    <3> QED
      BY <3>2, <2>4, <2>5
  <2>7. dma_int_count' \in Int /\ gicEnabled' \in BOOLEAN
    BY <1>1, <1>3, <2>1, <2>2, <2>4 DEF DisableIntEffect, TypeOK
  <2> QED
    BY <2>2, <2>4, <2>6, <2>7 DEF CountMatchesEnables
<1> QED
  BY <1>2, <1>3

(* Before the first request nothing is used, enabled or pending.           *)
LEMMA InitIInv == Init => IInv
<1>1. Cardinality({}) = 0
  BY FS_EmptySet
<1> SUFFICES ASSUME Init PROVE IInv
  OBVIOUS
<1>2. CountMatchesEnables
  <2>1. dma_int_count = Cardinality(irq_en)
    BY <1>1 DEF Init
  <2>2. gicEnabled <=> irq_en # {}
    BY DEF Init
  <2> QED
    BY <2>1, <2>2 DEF CountMatchesEnables
<1>3. TypeOK
  <2>1. irq_pending \in SUBSET ({0, 1} \X (0..(4 * HalfChan - 1)))
    BY Zenon DEF Init
  <2>2. dma_int_count \in Int
    BY DEF Init
  <2> QED
    BY <2>1, <2>2, Zenon DEF Init, TypeOK
<1> QED
  BY <1>2, <1>3 DEF Init, IInv, FreeChannelQuiet, NoStaleCompletion, ReleaseOK

(* The END bit of a channel is one of the three bits its own mask clears.  *)
LEMMA EndBitInMask ==
  ASSUME NEW c \in Chan
  PROVE  /\ EndBit(c) \in Mask(c, 4 * InWord(c), 0..2)
         /\ EndBit(c) \in {0, 1} \X (0..(4 * HalfChan - 1))
<1>1. InWord(c) \in 0..(HalfChan - 1)
  BY DEF InWord, Chan
<1>2. EndBit(c) \in Mask(c, 4 * InWord(c), 0..2)
  BY <1>1 DEF EndBit, Mask
<1>3. 4 * InWord(c) + 1 \in 0..(4 * HalfChan - 1)
  BY <1>1
<1> QED
  BY <1>2, <1>3 DEF EndBit, Word

(* No step of a client, of the hardware or of the handler breaks it.       *)
LEMMA StepIInv == IInv /\ [Next]_vars => IInv'
<1> SUFFICES ASSUME IInv, [Next]_vars PROVE IInv'
  OBVIOUS
<1> USE DEF IInv
<1>1. ASSUME NEW c \in Chan, Request(c) PROVE IInv'
  BY <1>1 DEF Request, Idle, TypeOK, CountMatchesEnables, FreeChannelQuiet,
              NoStaleCompletion, ReleaseOK
<1>2. ASSUME NEW c \in Chan, NEW m \in BOOLEAN, Setting(c, m) PROVE IInv'
  BY <1>2 DEF Setting, Idle, TypeOK, CountMatchesEnables, FreeChannelQuiet,
              NoStaleCompletion, ReleaseOK
<1>3. ASSUME NEW c \in Chan, Start(c) PROVE IInv'
  BY <1>3 DEF Start, Idle, TypeOK, CountMatchesEnables, FreeChannelQuiet,
              NoStaleCompletion, ReleaseOK
<1>4. ASSUME NEW c \in Chan, Stop(c) PROVE IInv'
  BY <1>4 DEF Stop, Idle, TypeOK, CountMatchesEnables, FreeChannelQuiet,
              NoStaleCompletion, ReleaseOK
<1>5. ASSUME NEW c \in Chan, InstallInt(c) PROVE IInv'
  <2>1. stale' \subseteq stale \ {c}
    BY <1>5, EndBitInMask DEF InstallInt, StillStale
  <2>2. NoStaleCompletion'
    BY <1>5, <2>1 DEF InstallInt, NoStaleCompletion
  <2> QED
    BY <1>5, <2>1, <2>2 DEF InstallInt, Idle, TypeOK, CountMatchesEnables,
                            FreeChannelQuiet, ReleaseOK
<1>6. ASSUME NEW c \in Chan, EnableInt(c) PROVE IInv'
  <2>1. /\ IsFiniteSet(irq_en) /\ Cardinality(irq_en) \in Nat
        /\ Cardinality(irq_en \cup {c}) = Cardinality(irq_en) + 1
    BY <1>6, EnFinite, FS_AddElement DEF EnableInt
  <2>2. dma_int_count' = Cardinality(irq_en')
    BY <1>6, <2>1 DEF EnableInt, CountMatchesEnables
  <2>3. gicEnabled' <=> irq_en' # {}
    <3>1. gicEnabled' <=> (gicEnabled \/ dma_int_count = 0)
      BY <1>6 DEF EnableInt
    <3>2. irq_en' # {}
      BY <1>6 DEF EnableInt
    <3>3. irq_en = {} => dma_int_count = 0
      BY FS_EmptySet DEF CountMatchesEnables
    <3> QED
      BY <3>1, <3>2, <3>3 DEF CountMatchesEnables
  <2>4. gicEnabled' \in BOOLEAN /\ dma_int_count' \in Int
    BY <1>6, <2>1 DEF EnableInt, TypeOK
  <2>5. TypeOK'
    BY <1>6, <2>4 DEF EnableInt, TypeOK
  <2> QED
    BY <1>6, <2>2, <2>3, <2>5 DEF EnableInt, Idle, CountMatchesEnables,
                                  FreeChannelQuiet, NoStaleCompletion, ReleaseOK
<1>7. ASSUME NEW c \in Chan, DisableInt(c) PROVE IInv'
  <2>1. irq_en' = irq_en \ {c} /\ dma_int_count' \in Int /\ gicEnabled' \in BOOLEAN
        /\ CountMatchesEnables'
    BY <1>7, DisableKeepsCount DEF DisableInt
  <2>2. TypeOK'
    BY <1>7, <2>1 DEF DisableInt, TypeOK
  <2> QED
    BY <1>7, <2>1, <2>2 DEF DisableInt, Idle, FreeChannelQuiet, NoStaleCompletion, ReleaseOK
<1>8. ASSUME NEW c \in Chan, FreeInt(c) PROVE IInv'
  <2>1. stale' \subseteq stale /\ m_func' = m_func \ {c} /\ irq_pending' \subseteq irq_pending
    BY <1>8 DEF FreeInt, FreeIntEffect, StillStale
  <2> QED
    BY <1>8, <2>1 DEF FreeInt, Idle, TypeOK, CountMatchesEnables, FreeChannelQuiet,
                      NoStaleCompletion, ReleaseOK
<1>9. ASSUME NEW c \in Chan, ReleaseDisable(c) PROVE IInv'
  <2>1. irq_en' = irq_en \ {c} /\ dma_int_count' \in Int /\ gicEnabled' \in BOOLEAN
        /\ CountMatchesEnables'
    BY <1>9, DisableKeepsCount DEF ReleaseDisable
  <2>2. TypeOK'
    BY <1>9, <2>1 DEF ReleaseDisable, TypeOK
  <2> QED
    BY <1>9, <2>1, <2>2 DEF ReleaseDisable, Idle, FreeChannelQuiet, NoStaleCompletion, ReleaseOK
<1>10. CASE ReleaseFree
  <2>1. stale' \subseteq stale /\ m_func' = m_func \ {releasing} /\ irq_pending' \subseteq irq_pending
    BY <1>10 DEF ReleaseFree, FreeIntEffect, StillStale
  <2> QED
    BY <1>10, <2>1 DEF ReleaseFree, TypeOK, CountMatchesEnables, FreeChannelQuiet,
                       NoStaleCompletion, ReleaseOK
<1>11. CASE ReleaseUnuse
  <2>1. releasing \in Chan /\ releasing \in used /\ releasing \notin irq_en /\ releasing \notin m_func
    BY <1>11 DEF ReleaseUnuse, ReleaseOK, TypeOK
  <2>2. stale' \subseteq stale \cup {releasing}
    BY <1>11 DEF ReleaseUnuse
  <2>3. TypeOK'
    BY <1>11, <2>1, <2>2 DEF ReleaseUnuse, TypeOK
  <2> QED
    BY <1>11, <2>1, <2>2, <2>3 DEF ReleaseUnuse, CountMatchesEnables, FreeChannelQuiet,
                                   NoStaleCompletion, ReleaseOK
<1>12. CASE Exit
  <2>1. irq_en \cap used = irq_en
    BY DEF FreeChannelQuiet
  <2>2. Cardinality(irq_en) \in Nat /\ Cardinality({}) = 0
    BY EnFinite, FS_EmptySet
  <2>3. dma_int_count' = 0
    <3>1. dma_int_count = Cardinality(irq_en)
      BY DEF CountMatchesEnables
    <3>2. Cardinality(irq_en \cap used) = Cardinality(irq_en)
      BY <2>1, Zenon
    <3>3. dma_int_count - Cardinality(irq_en \cap used) = 0
      BY <3>1, <3>2, <2>2
    <3> QED
      BY <1>12, <3>3 DEF Exit
  <2>4. CountMatchesEnables'
    BY <1>12, <2>2, <2>3 DEF Exit, CountMatchesEnables
  <2>5. TypeOK'
    <3>1. irq_pending' \in SUBSET ({0, 1} \X (0..(4 * HalfChan - 1)))
      BY <1>12, Zenon DEF Exit
    <3>2. dma_int_count' \in Int
      BY <2>3
    <3>3. m_func' \in SUBSET Chan /\ running' \in SUBSET Chan
      BY <1>12 DEF Exit, TypeOK
    <3> QED
      BY <1>12, <3>1, <3>2, <3>3, Zenon DEF Exit, TypeOK
  <2> QED
    BY <1>12, <2>4, <2>5 DEF Exit, Idle, FreeChannelQuiet, NoStaleCompletion, ReleaseOK
<1>13. ASSUME NEW c \in Chan, TransferEnds(c) PROVE IInv'
  <2>1. irq_pending' \in SUBSET ({0, 1} \X (0..(4 * HalfChan - 1)))
    BY <1>13, EndBitInMask DEF TransferEnds, TypeOK
  <2>2. running' \subseteq running
    BY <1>13 DEF TransferEnds
  <2> QED
    BY <1>13, <2>1, <2>2 DEF TransferEnds, TypeOK, CountMatchesEnables,
                             FreeChannelQuiet, NoStaleCompletion, ReleaseOK
<1>14. CASE Interrupt
  <2>1. irq_pending' \subseteq irq_pending /\ stale' \subseteq stale
    BY <1>14 DEF Interrupt, StillStale
  <2> QED
    BY <1>14, <2>1 DEF Interrupt, TypeOK, CountMatchesEnables, FreeChannelQuiet,
                       NoStaleCompletion, ReleaseOK
<1>15. CASE UNCHANGED vars
  BY <1>15 DEF vars, TypeOK, CountMatchesEnables, FreeChannelQuiet,
               NoStaleCompletion, ReleaseOK
<1> QED
  BY <1>1, <1>2, <1>3, <1>4, <1>5, <1>6, <1>7, <1>8, <1>9, <1>10, <1>11, <1>12,
     <1>13, <1>14, <1>15 DEF Next, Call

(* Hence it holds always.                                                  *)
LEMMA SpecIInv == Spec => []IInv
<1>1. Init => IInv
  BY InitIInv
<1>2. IInv /\ [Next]_vars => IInv'
  BY StepIInv
<1> QED
  BY <1>1, <1>2, PTL DEF Spec

(* dma_int_count equals the number of enabled channels, and the interrupt  *)
(* controller's source is on exactly when it is positive, whatever calls   *)
(* the clients make and wherever transfers end between them.               *)
THEOREM DmaCountExact == Spec => []CountMatchesEnables
<1>1. IInv => CountMatchesEnables
  BY DEF IInv
<1> QED
  BY <1>1, SpecIInv, PTL

(* A channel that no client holds is quiet, and no handler is called for a *)
(* completion that belongs to an earlier holder of its channel.            *)
THEOREM DmaIsolation == Spec => [](FreeChannelQuiet /\ NoStaleCompletion)
<1>1. IInv => FreeChannelQuiet /\ NoStaleCompletion
  BY DEF IInv
<1> QED
  BY <1>1, SpecIInv, PTL
=============================================================================
