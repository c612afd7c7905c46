----------------------------- MODULE PowerProofs -----------------------------
(***************************************************************************)
(* Proofs about the interrupt registers of the power chips                 *)
(* (AxpInterrupts), for every set of chips and of masks, whatever a failed *)
(* read gives, and for every bound on the events.                          *)
(***************************************************************************)
EXTENDS AxpInterrupts, TLAPS

-----------------------------------------------------------------------------
(* The tables of the chips, as sets: PowerSources and KeySources.          *)
PowerSet == {Source("AC_REMOVE", 0, 5), Source("AC_INSERT", 0, 6), Source("VBUS_REMOVE", 0, 2),
             Source("VBUS_INSERT", 0, 3), Source("CHARGE_DONE", 1, 2)}
KeySet(reg, long, short) == {Source("LONG_KEY_PRESS", reg, long), Source("SHORT_KEY_PRESS", reg, short)}
Names == {"AC_REMOVE", "AC_INSERT", "VBUS_REMOVE", "VBUS_INSERT", "CHARGE_DONE", "LONG_KEY_PRESS", "SHORT_KEY_PRESS"}
Triples == [src : Names, reg : 0..4, bit : VersionBits]

(* The five sources that every chip has.                                   *)
LEMMA PowerRange == PowerSources \in Seq(Triples) /\ Len(PowerSources) = 5 /\ Range(PowerSources) = PowerSet
<1>1. PowerSources \in Seq(Triples) /\ Len(PowerSources) = 5 /\ DOMAIN PowerSources = 1..5
  <2>1. PowerSet \subseteq Triples
    BY DEF PowerSet, Source, Triples, VersionBits, Names
  <2> QED BY <2>1 DEF PowerSources, PowerSet
<1>2. \A i \in 1..5 : i = 1 \/ i = 2 \/ i = 3 \/ i = 4 \/ i = 5
  OBVIOUS
<1> QED BY <1>1, <1>2 DEF PowerSources, Range, PowerSet

(* The two of the power key.                                               *)
LEMMA KeyRange ==
  ASSUME NEW reg \in 0..4, NEW long \in VersionBits, NEW short \in VersionBits
  PROVE  /\ KeySources(reg, long, short) \in Seq(Triples)
         /\ Range(KeySources(reg, long, short)) = KeySet(reg, long, short)
<1>1. /\ KeySources(reg, long, short) \in Seq(Triples)
      /\ DOMAIN KeySources(reg, long, short) = 1..2
  <2>1. KeySet(reg, long, short) \subseteq Triples
    BY DEF KeySet, Source, Triples, VersionBits, Names
  <2> QED BY <2>1 DEF KeySources, KeySet
<1>2. \A i \in 1..2 : i = 1 \/ i = 2
  OBVIOUS
<1> QED BY <1>1, <1>2 DEF KeySources, Range, KeySet

(* What a concatenation is made of.                                        *)
LEMMA RangeOfBoth ==
  ASSUME NEW S, NEW p \in Seq(S), NEW q \in Seq(S)
  PROVE  Range(p \o q) = Range(p) \cup Range(q)
<1>1. DOMAIN (p \o q) = 1..(Len(p) + Len(q)) /\ DOMAIN p = 1..Len(p) /\ DOMAIN q = 1..Len(q)
  OBVIOUS
<1>2. ASSUME NEW x \in Range(p \o q) PROVE x \in Range(p) \cup Range(q)
  <2>1. PICK i \in 1..(Len(p) + Len(q)) : x = (p \o q)[i]
    BY <1>1 DEF Range
  <2>2. CASE i <= Len(p)
    BY <2>1, <2>2, <1>1 DEF Range
  <2>3. CASE i > Len(p)
    <3>1. x = q[i - Len(p)] /\ i - Len(p) \in 1..Len(q)
      BY <2>1, <2>3
    <3> QED BY <3>1, <1>1 DEF Range
  <2> QED BY <2>2, <2>3
<1>3. ASSUME NEW x \in Range(p) PROVE x \in Range(p \o q)
  <2>1. PICK i \in 1..Len(p) : x = p[i]
    BY <1>1, <1>3 DEF Range
  <2>2. x = (p \o q)[i] /\ i \in 1..(Len(p) + Len(q))
    BY <2>1
  <2> QED BY <2>2, <1>1 DEF Range
<1>4. ASSUME NEW x \in Range(q) PROVE x \in Range(p \o q)
  <2>1. PICK i \in 1..Len(q) : x = q[i]
    BY <1>1, <1>4 DEF Range
  <2>2. x = (p \o q)[i + Len(p)] /\ i + Len(p) \in 1..(Len(p) + Len(q))
    BY <2>1
  <2> QED BY <2>2, <1>1 DEF Range
<1> QED BY <1>2, <1>3, <1>4

(* What the proofs need of a chip's tables.                                *)
TableOk(c) ==
  /\ c.intRegs = 0..1 \/ c.intRegs = 0..4
  /\ Range(c.enable) \subseteq Triples /\ c.disable = c.enable
  /\ \A t \in Range(c.enable) : t.reg \in c.intRegs
  /\ Range(c.pending) \subseteq Triples
  /\ \A t, u \in Range(c.pending) : t.src = u.src => t = u
  /\ c.key.reg \in 0..4
  /\ c.key.bits \subseteq VersionBits
  /\ c.key.bits # {} => c.key.reg \in c.intRegs

(* A table with a key names every source once.                             *)
LEMMA SevenSources ==
  ASSUME NEW reg \in 0..4, NEW long \in VersionBits, NEW short \in VersionBits
  PROVE  /\ Range(PowerSources \o KeySources(reg, long, short)) \subseteq Triples
         /\ \A t, u \in Range(PowerSources \o KeySources(reg, long, short)) : t.src = u.src => t = u
<1>1. Range(PowerSources \o KeySources(reg, long, short)) = PowerSet \cup KeySet(reg, long, short)
  <2>1. KeySources(reg, long, short) \in Seq(Triples) /\ Range(KeySources(reg, long, short)) = KeySet(reg, long, short)
    BY KeyRange
  <2>2. PowerSources \in Seq(Triples) /\ Range(PowerSources) = PowerSet
    BY PowerRange
  <2>3. Range(PowerSources \o KeySources(reg, long, short)) = Range(PowerSources) \cup Range(KeySources(reg, long, short))
    BY <2>1, <2>2, RangeOfBoth
  <2> QED BY <2>1, <2>2, <2>3
<1>2. PowerSet \cup KeySet(reg, long, short) \subseteq Triples
  BY DEF PowerSet, KeySet, Source, Triples, Names, VersionBits
<1>3. \A t, u \in PowerSet \cup KeySet(reg, long, short) : t.src = u.src => t = u
  <2>1. \A x, r, b : Source(x, r, b).src = x
    BY DEF Source
  <2> QED BY <2>1 DEF PowerSet, KeySet
<1> QED BY <1>1, <1>2, <1>3

(* The tables of the AXP806 and the AXP808 stay in their two registers.    *)
LEMMA FiveSources == /\ Range(PowerSources) \subseteq Triples
                     /\ \A t \in Range(PowerSources) : t.reg \in 0..1
<1>1. PowerSet \subseteq Triples /\ \A t \in PowerSet : t.reg \in 0..1
  BY DEF PowerSet, Source, Triples, Names, VersionBits
<1> QED BY <1>1, PowerRange

(* The tables of the five drivers: Axp81X.c, Axp22x.c, Axp809.c, Axp806.c, *)
(* Axp808.c.                                                               *)
LEMMA ChipOk == dev \in Devices => TableOk(Chip)
<1> SUFFICES ASSUME dev \in Devices PROVE TableOk(Chip)
  OBVIOUS
<1>a. 0 \in VersionBits /\ 1 \in VersionBits /\ 3 \in VersionBits /\ 4 \in VersionBits /\ 2 \in 0..4 /\ 4 \in 0..4
  BY DEF VersionBits
<1>b. \A t \in Triples : t.reg \in 0..4
  BY DEF Triples
<1>1. CASE dev = "Axp81X"
  <2>1. Chip = Axp81XInterrupts
    BY <1>1 DEF Chip
  <2> QED
    BY <2>1, <1>a, <1>b, SevenSources, FiveSources
    DEF TableOk, Axp81XInterrupts, Axp81XIntRegs, Axp81XProbeIntPending, Axp81XSetIntEnable,
        Axp81XSetIntDisable,
        Axp81XProbePowerKey
<1>2. CASE dev = "Axp22x"
  <2>1. Chip = Axp22xInterrupts
    BY <1>2 DEF Chip
  <2> QED
    BY <2>1, <1>a, <1>b, SevenSources, FiveSources
    DEF TableOk, Axp22xInterrupts, Axp22xIntRegs, Axp22xProbeIntPending, Axp22xSetIntEnable,
        Axp22xSetIntDisable,
        Axp22xProbePowerKey
<1>3. CASE dev = "Axp809"
  <2>1. Chip = Axp809Interrupts
    BY <1>3 DEF Chip
  <2> QED
    BY <2>1, <1>a, <1>b, SevenSources, FiveSources
    DEF TableOk, Axp809Interrupts, Axp809IntRegs, Axp809ProbeIntPending, Axp809SetIntEnable,
        Axp809SetIntDisable,
        Axp809ProbePowerKey
<1>4. CASE dev = "Axp806"
  <2>1. Chip = Axp806Interrupts
    BY <1>4 DEF Chip
  <2> QED
    BY <2>1, <1>a, <1>b, SevenSources, FiveSources
    DEF TableOk, Axp806Interrupts, Axp806IntRegs, Axp806ProbeIntPending, Axp806SetIntEnable,
        Axp806SetIntDisable,
        Axp806ProbePowerKey
<1>5. CASE dev = "Axp808"
  <2>1. Chip = Axp808Interrupts
    BY <1>5 DEF Chip
  <2> QED
    BY <2>1, <1>a, <1>b, SevenSources, FiveSources
    DEF TableOk, Axp808Interrupts, Axp808IntRegs, Axp808ProbeIntPending, Axp808SetIntEnable,
        Axp808SetIntDisable,
        Axp808ProbePowerKey
<1> QED BY <1>1, <1>2, <1>3, <1>4, <1>5, DevicesAssumption

-----------------------------------------------------------------------------
IntType ==
  /\ dev \in Devices
  /\ sts \in [IntRegs -> SUBSET VersionBits] /\ inten \in [IntRegs -> SUBSET VersionBits]
  /\ got \in [0..4 -> SUBSET VersionBits]
  /\ pc \in [op : {"idle", "read", "clear", "freq", "key"}, for : {"none", "pending", "probe", "key"}, i : 0..4]
  /\ pc.op \in {"read", "clear"} => pc.i \in IntRegs
  /\ pc.for = "pending" => pc.op \in {"read", "clear"}
  /\ pc.op = "key" => KeyReg \in IntRegs /\ pc.i = KeyReg
  /\ unseen \subseteq VersionBits

\* A press that nobody has read and that the call under way is going to
\* clear is known to be exposed.
KeyHeld == KeyReg \in IntRegs => \A b \in unseen : InWindow(b) => b \in exposed

\* A source that was pending at the start is in the byte read, or still in the register.
Gathered ==
  pc.for = "pending" =>
    \A t \in TestedFirst(Chip.pending) : t.src \in atStart /\ t.reg \notin misread =>
      /\ t.reg \in IntRegs
      /\ IF pc.op = "clear" \/ t.reg < pc.i THEN t.bit \in got[t.reg] ELSE t.bit \in sts[t.reg]

IntInv == IntType /\ KeyHeld /\ Gathered /\ KeyNotLost /\ EnableKept

(* A source that is tested first is a source.                              *)
LEMMA TestedIn == ASSUME NEW tests PROVE TestedFirst(tests) \subseteq Range(tests)
BY DEF TestedFirst, Range

(* The chip is the same after a step.                                      *)
LEMMA SameChip == dev' = dev => Chip' = Chip /\ IntRegs' = IntRegs /\ KeyReg' = KeyReg
BY DEF Chip, IntRegs, KeyReg

(* The state before the first call.                                        *)
LEMMA IntInitially == IntInit => IntInv
<1> SUFFICES ASSUME IntInit PROVE IntInv
  OBVIOUS
<1>1. dev \in Devices /\ TableOk(Chip)
  BY ChipOk DEF IntInit
<1> QED
  BY <1>1 DEF IntInit, IntInv, IntType, KeyHeld, Gathered, KeyNotLost, EnableKept, Zero, NoBytes,
      IntBytes, Idle

(* What the bus gives is a byte, and what a failed write leaves is one of  *)
(* two.                                                                    *)
LEMMA AByte == ASSUME NEW b \in SUBSET VersionBits PROVE AxpPmBusRead(b) \subseteq SUBSET VersionBits
BY GarbageAssumption DEF AxpPmBusRead, SunxiRsbRead, VersionBits

LEMMA Leaves == ASSUME NEW old, NEW new PROVE FailedWrite(old, new) \subseteq {old, new}
<1> SUFFICES ASSUME NEW x \in FailedWrite(old, new) PROVE x \in {old, new}
  OBVIOUS
<1>1. PICK w \in AxpPmBusWrite(old, new) : w[2] # "success" /\ x = w[1]
  BY DEF FailedWrite
<1>2. w \in {<<new, "success">>} \/ w \in {old, new} \X {"device_error"}
  BY <1>1 DEF AxpPmBusWrite, SunxiRsbWrite
<1> QED BY <1>1, <1>2

LEMMA EnablesRead ==
  ASSUME IntType, NEW r \in ReadEnables
  PROVE  r \in [IntRegs -> SUBSET VersionBits]
<1>1. PICK j \in IntRegs : \E byte \in AxpPmBusRead(inten[j]) : r = [inten EXCEPT ![j] = byte]
  BY DEF ReadEnables
<1> QED BY <1>1, AByte DEF IntType

(* One step per call, bus access and event of the chip.                    *)
LEMMA IntStep == IntInv /\ [IntNext]_intVars => IntInv'
<1> SUFFICES ASSUME IntInv, [IntNext]_intVars PROVE IntInv'
  OBVIOUS
<1> USE DEF IntInv, IntType, KeyHeld, Gathered, KeyNotLost, EnableKept
<1>a. TableOk(Chip)
  BY ChipOk
<1>b. /\ IntRegs = Chip.intRegs /\ KeyReg = Chip.key.reg
      /\ IntRegs = 0..1 \/ IntRegs = 0..4
      /\ KeyReg \in 0..4 /\ (Chip.key.bits # {} => KeyReg \in IntRegs)
      /\ Range(Chip.pending) \subseteq Triples /\ Range(Chip.enable) \subseteq Triples
      /\ \A t \in Range(Chip.enable) : t.reg \in IntRegs
  BY <1>a DEF TableOk, IntRegs, KeyReg
<1>c. dev' = dev
  BY DEF IntNext, intVars, Raise, ProbeIntPending, ReadStatus, ClearStatus, ProbePowerKey,
      ClearKey, ProbeChip, SetFrequency,
         BusError, SetIntEnable, SetIntDisable, WriteEnables, ProbeIntEnable
<1>d. Chip' = Chip /\ IntRegs' = IntRegs /\ KeyReg' = KeyReg
  BY <1>c, SameChip
<1>1. ASSUME NEW t \in Range(Chip.pending), Raise(t) PROVE IntInv'
  <2>1. t \in Triples /\ t.bit \in VersionBits
    BY <1>b DEF Triples
  <2>2. KeyHeld'
    BY <1>1, <1>d DEF Raise, InWindow
  <2> QED BY <1>1, <1>b, <1>d, <2>1, <2>2 DEF Raise
<1>2. CASE ProbeIntPending
  <2>1. \A t, u \in Range(Chip.pending) : t.src = u.src => t = u
    BY <1>a DEF TableOk
  <2>2. Gathered'
    BY <1>2, <1>b, <1>d, <2>1, TestedIn DEF ProbeIntPending, Set
  <2>3. KeyHeld'
    BY <1>2, <1>b, <1>d DEF ProbeIntPending, InWindow
  <2> QED BY <1>2, <1>b, <1>d, <2>2, <2>3 DEF ProbeIntPending, IntBytes, Idle, VersionBits
<1>3. CASE ReadStatus
  <2>a. PICK byte \in AxpPmBusRead(sts[pc.i]) :
          /\ got' = [got EXCEPT ![pc.i] = byte]
          /\ misread' = IF byte = sts[pc.i] THEN misread ELSE misread \cup {pc.i}
          /\ IF pc.i = KeyReg
               THEN unseen' = unseen \ byte /\ exposed' = (exposed \cup sts[KeyReg]) \ byte
               ELSE UNCHANGED <<unseen, exposed>>
    BY <1>3 DEF ReadStatus
  <2>b. byte \subseteq VersionBits /\ pc.i \in IntRegs /\ pc.i \in 0..4
    BY <1>3, <1>b, AByte DEF ReadStatus
  <2>1. Gathered'
    BY <1>3, <1>b, <1>d, <2>a, <2>b, TestedIn DEF ReadStatus, Triples
  <2>2. pc' \in [op : {"read", "clear"}, for : {"none", "pending", "probe", "key"}, i : 0..4] /\ pc'.i \in IntRegs
    <3>1. CASE pc.i + 1 \in IntRegs
      <4>1. pc' = [pc EXCEPT !.i = pc.i + 1] /\ pc.op = "read" /\ pc.i + 1 \in 0..4
        BY <1>3, <1>b, <3>1 DEF ReadStatus
      <4>2. pc' = [op |-> "read", for |-> pc.for, i |-> pc.i + 1]
        BY <4>1
      <4> QED BY <3>1, <4>1, <4>2
    <3>2. CASE pc.i + 1 \notin IntRegs
      <4>1. pc' = [pc EXCEPT !.op = "clear", !.i = 0] /\ 0 \in IntRegs /\ 0 \in 0..4
        BY <1>3, <1>b, <3>2 DEF ReadStatus
      <4>2. pc' = [op |-> "clear", for |-> pc.for, i |-> 0]
        BY <4>1
      <4> QED BY <4>1, <4>2
    <3> QED BY <3>1, <3>2
  <2>3. got' \in [0..4 -> SUBSET VersionBits]
    BY <2>a, <2>b
  <2>4. KeyNotLost'
    BY <1>3, <1>d, <2>a DEF ReadStatus
  <2>5. KeyHeld'
    <3>1. CASE pc.i = KeyReg
      BY <1>d, <2>a, <2>b, <3>1
    <3>2. CASE pc.i # KeyReg
      <4>1. UNCHANGED <<unseen, exposed>>
        BY <2>a, <3>2
      <4>2. ASSUME KeyReg \in IntRegs, NEW b \in VersionBits, InWindow(b)' PROVE InWindow(b)
        <5>1. CASE pc.i + 1 \in IntRegs
          <6>1. pc'.op = "read" /\ pc'.i = pc.i + 1
            BY <1>3, <5>1 DEF ReadStatus
          <6> QED BY <1>3, <1>b, <1>d, <2>b, <3>2, <4>2, <6>1 DEF InWindow, ReadStatus
        <5>2. CASE pc.i + 1 \notin IntRegs
          <6>1. pc'.op = "clear" /\ pc'.i = 0 /\ pc.op = "read"
            BY <1>3, <5>2 DEF ReadStatus
          <6>2. KeyReg < pc.i
            BY <1>b, <2>b, <3>2, <4>2, <5>2
          <6> QED BY <1>b, <6>1, <6>2, <2>b DEF InWindow
        <5> QED BY <5>1, <5>2
      <4> QED BY <1>d, <4>1, <4>2
    <3> QED BY <3>1, <3>2
  <2> QED BY <1>3, <1>b, <1>d, <2>a, <2>1, <2>2, <2>3, <2>4, <2>5 DEF ReadStatus
<1>4. CASE ClearStatus
  <2>1. KeyNotLost'
    <3>1. pc.i = KeyReg => unseen \subseteq exposed
      BY <1>4, <1>b DEF ClearStatus, InWindow
    <3> QED BY <1>4, <1>d, <3>1 DEF ClearStatus
  <2>2. KeyHeld'
    BY <1>4, <1>b, <1>d DEF ClearStatus, Leave, Idle, InWindow
  <2> QED BY <1>4, <1>b, <1>d, <2>1, <2>2 DEF ClearStatus, Leave, Idle, NoBytes, IntBytes
<1>5. CASE ProbePowerKey
  <2>1. PICK byte \in AxpPmBusRead(sts[KeyReg]) :
          LET pressed == byte \cap Chip.key.bits
          IN  /\ got' = [NoBytes EXCEPT ![KeyReg] = pressed]
              /\ pc' = IF pressed = {} THEN Idle ELSE [op |-> "key", for |-> "key", i |-> KeyReg]
              /\ unseen' = unseen \ pressed
              /\ exposed' = exposed \ pressed
    BY <1>5 DEF ProbePowerKey
  <2>2. KeyReg \in IntRegs /\ byte \cap Chip.key.bits \subseteq VersionBits
    BY <1>5, <1>a, <1>b DEF ProbePowerKey, TableOk
  <2>3. got' \in [0..4 -> SUBSET VersionBits] /\ got'[KeyReg] = byte \cap Chip.key.bits
    BY <2>1, <2>2, <1>b DEF NoBytes, IntBytes
  <2>4. KeyHeld' /\ KeyNotLost'
    BY <1>5, <1>d, <2>1, <2>3 DEF ProbePowerKey, InWindow, Idle
  <2> QED BY <1>5, <1>b, <1>d, <2>1, <2>2, <2>3, <2>4 DEF ProbePowerKey, Idle
<1>6. CASE ClearKey
  <2>1. KeyNotLost'
    BY <1>6, <1>d DEF ClearKey, InWindow
  <2>2. KeyHeld'
    BY <1>6, <1>d DEF ClearKey, Leave, Idle, InWindow
  <2> QED BY <1>6, <1>b, <1>d, <2>1, <2>2 DEF ClearKey, Leave, Idle, NoBytes, IntBytes
<1>7. CASE ProbeChip
  <2>1. KeyHeld'
    BY <1>7, <1>b, <1>d DEF ProbeChip, Idle, InWindow
  <2> QED BY <1>7, <1>b, <1>d, <2>1 DEF ProbeChip, Idle
<1>8. CASE SetFrequency
  <2>1. KeyHeld'
    BY <1>8, <1>d DEF SetFrequency, Leave, Idle, InWindow
  <2> QED BY <1>8, <1>b, <1>d, <2>1 DEF SetFrequency, Leave, Idle, NoBytes, IntBytes
<1>9. CASE BusError
  <2>1. Leave /\ UNCHANGED <<dev, version, inten, intMask, asked, unseen, exposed, events>>
    BY <1>9 DEF BusError
  <2>2. KeyHeld'
    BY <1>d, <2>1 DEF Leave, Idle, InWindow
  <2>3. sts' \in [IntRegs -> SUBSET VersionBits] /\ KeyNotLost'
    <3>1. CASE pc.op \in {"clear", "key"} /\ \E left \in FailedWrite(sts[pc.i], sts[pc.i] \ Ones) : sts' = [sts EXCEPT ![pc.i] = left]
      <4>1. PICK left \in {sts[pc.i], sts[pc.i] \ Ones} : sts' = [sts EXCEPT ![pc.i] = left]
        <5>1. PICK left \in FailedWrite(sts[pc.i], sts[pc.i] \ Ones) : sts' = [sts EXCEPT ![pc.i] = left]
          BY <3>1
        <5>2. left \in {sts[pc.i], sts[pc.i] \ Ones}
          BY <5>1, Leaves
        <5> QED BY <5>1, <5>2
      <4>2. pc.i \in IntRegs
        BY <3>1
      <4>3. pc.i = KeyReg => \A b \in unseen \cap Ones : b \in exposed
        BY <3>1, <1>b DEF Ones, InWindow
      <4> QED BY <1>d, <2>1, <4>1, <4>2, <4>3
    <3>2. CASE UNCHANGED sts
      BY <1>d, <2>1, <3>2
    <3> QED BY <1>9, <3>1, <3>2 DEF BusError
  <2> QED BY <1>b, <1>d, <2>1, <2>2, <2>3 DEF Leave, Idle, NoBytes, IntBytes
<1>10. ASSUME NEW m \in Masks, SetIntEnable(m) PROVE IntInv'
  <2>1. PICK n \in {0, 1, 5}, r \in ReadEnables :
          /\ WriteEnables(EnabledWith(r, m), n)
          /\ asked' = (asked \ Overwritten(r, n))
                        \cup (IF n = 5 THEN m \cap {t.src : t \in Range(Chip.enable)} ELSE {})
    BY <1>10 DEF SetIntEnable
  <2>2. r \in [IntRegs -> SUBSET VersionBits]
    BY EnablesRead
  <2>3. inten' \in [IntRegs -> SUBSET VersionBits]
    BY <2>1, <2>2, <1>b DEF WriteEnables, EnabledWith, Triples
  <2>4. EnableKept'
    <3> SUFFICES ASSUME NEW t \in Range(Chip.enable), t.src \in asked' PROVE t.bit \in inten'[t.reg]
      BY <1>d
    <3>1. t.reg \in IntRegs /\ t.reg \in 0..4
      BY <1>b
    <3>2. CASE t.reg < n /\ t.src \in m
      BY <2>1, <3>1, <3>2 DEF WriteEnables, EnabledWith
    <3>3. CASE t.reg < n /\ t.src \notin m
      <4>1. t.src \in asked /\ r[t.reg] = inten[t.reg]
        BY <2>1, <3>3 DEF Overwritten
      <4> QED BY <2>1, <3>1, <3>3, <4>1 DEF WriteEnables, EnabledWith
    <3>4. CASE ~(t.reg < n)
      <4>1. n # 5 /\ t.src \in asked
        BY <2>1, <3>1, <3>4
      <4> QED BY <2>1, <3>1, <3>4, <4>1 DEF WriteEnables
    <3> QED BY <3>2, <3>3, <3>4
  <2>5. KeyHeld'
    BY <1>d, <2>1 DEF WriteEnables, InWindow
  <2> QED BY <1>b, <1>d, <2>1, <2>3, <2>4, <2>5 DEF WriteEnables, Idle
<1>11. ASSUME NEW m \in Masks, SetIntDisable(m) PROVE IntInv'
  <2>1. PICK n \in {0, 1, 5}, r \in ReadEnables :
          /\ WriteEnables(DisabledWith(r, m), n)
          /\ asked' = asked \ (Below(m) \cup Overwritten(r, n))
    BY <1>11 DEF SetIntDisable
  <2>2. r \in [IntRegs -> SUBSET VersionBits]
    BY EnablesRead
  <2>3. inten' \in [IntRegs -> SUBSET VersionBits]
    BY <2>1, <2>2, <1>b DEF WriteEnables, DisabledWith
  <2>4. EnableKept'
    <3> SUFFICES ASSUME NEW t \in Range(Chip.enable), t.src \in asked' PROVE t.bit \in inten'[t.reg]
      BY <1>d
    <3>1. t.reg \in IntRegs /\ t.reg \in 0..4 /\ t \in Triples
      BY <1>b
    <3>2. t.src \in asked /\ t.src \notin Below(m) /\ t.bit \in inten[t.reg]
      BY <2>1
    <3>3. CASE t.reg < n
      <4>1. r[t.reg] = inten[t.reg]
        BY <2>1, <3>3 DEF Overwritten
      <4>2. Chip.disable = Chip.enable
        BY <1>a DEF TableOk
      <4>3. \A w \in Range(Chip.disable) : w.src \in m /\ w.reg = t.reg => ~(t.bit <= w.bit)
        BY <3>2, <4>2 DEF Below
      <4>4. \A w \in Range(Chip.disable) : w.src \in m /\ w.reg = t.reg => t.bit > w.bit
        BY <1>b, <3>1, <4>2, <4>3 DEF Triples, VersionBits
      <4> QED BY <2>1, <3>1, <3>2, <3>3, <4>1, <4>4 DEF WriteEnables, DisabledWith
    <3>4. CASE ~(t.reg < n)
      BY <2>1, <3>1, <3>2, <3>4 DEF WriteEnables
    <3> QED BY <3>3, <3>4
  <2>5. KeyHeld'
    BY <1>d, <2>1 DEF WriteEnables, InWindow
  <2> QED BY <1>b, <1>d, <2>1, <2>3, <2>4, <2>5 DEF WriteEnables, Idle
<1>12. CASE ProbeIntEnable
  <2>1. KeyHeld'
    BY <1>12, <1>d DEF ProbeIntEnable, InWindow
  <2> QED BY <1>12, <1>b, <1>d, <2>1 DEF ProbeIntEnable, Idle
<1>13. CASE UNCHANGED intVars
  BY <1>13, <1>d DEF intVars, InWindow
<1> QED
  BY <1>1, <1>2, <1>3, <1>4, <1>5, <1>6, <1>7, <1>8, <1>9, <1>10, <1>11, <1>12, <1>13 DEF IntNext

(* For every chip, every mask, whatever a failed read gives and any number *)
(* of events between any two bus accesses: a press of the key that no call *)
(* has read is lost only if it came between the read and the clearing      *)
(* write of a call or its register was misread, and never because          *)
(* ProbePowerKey clears another key; and a source that SetIntEnable        *)
(* enabled stays enabled until a call for it, or one above it, disables    *)
(* it, or a call misreads and rewrites its register.                       *)
THEOREM InterruptsSafe == IntSpec => []InterruptsKept
<1>1. IntInv => InterruptsKept
  BY DEF IntInv, InterruptsKept
<1> QED BY <1>1, IntInitially, IntStep, PTL DEF IntSpec

(* ProbeIntPending reports every source that was pending when it was       *)
(* called, that is tested first in its register and whose register it read *)
(* right, although it reads one after the other while the chip raises more.*)
THEOREM FirstAlwaysReported == IntSpec => FirstReported
<1>1. IntInv /\ [IntNext]_intVars =>
        [(ClearStatus /\ pc.for = "pending" /\ pc.i + 1 \notin IntRegs)
            => \A t \in TestedFirst(Chip.pending) :
                 t.src \in atStart /\ t.reg \notin misread => t.src \in intMask']_intVars
  <2> SUFFICES ASSUME IntInv, ClearStatus, pc.for = "pending", pc.i + 1 \notin IntRegs,
                      NEW t \in TestedFirst(Chip.pending), t.src \in atStart, t.reg \notin misread
               PROVE  t.src \in intMask'
    OBVIOUS
  <2>1. t.bit \in got[t.reg]
    BY DEF ClearStatus, IntInv, Gathered
  <2>2. intMask' = Reported(Chip.pending, got)
    BY DEF ClearStatus
  <2> QED BY <2>1, <2>2 DEF Reported
<1> QED BY <1>1, IntInitially, IntStep, PTL DEF IntSpec, FirstReported
==============================================================================
