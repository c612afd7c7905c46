---------------------------- MODULE AxpInterrupts ----------------------------
(***************************************************************************)
(* Drivers/AxpPower/Axp*/Axp*.c: the interrupt enable and status registers *)
(* of a power chip.  The chip raises a status bit at any time, also        *)
(* between two bus accesses of a call; writing 1 to a status bit clears it.*)
(*                                                                         *)
(* A test `if (IntValue[0] &= 1<<5)' assigns: it leaves at most that bit   *)
(* in IntValue[0].  So of the sources in one register only the one tested  *)
(* first is ever reported, although all of them are cleared.  And          *)
(* `IntEnable[0] &= ~1<<5' keeps the bits above bit 5 only.                *)
(* The AXP806 and the AXP808 have two pairs of registers and no key, but   *)
(* their ProbeIntPending also tests a fifth byte, which nothing has set;   *)
(* their probe ends with the switching frequency.                          *)
(*                                                                         *)
(* A read never fails, but may give another byte than the register's; a    *)
(* write may fail, before or after it reached the chip (RsbBus).           *)
(***************************************************************************)
EXTENDS Sequences, Functions, RsbBus

CONSTANTS Devices,     \* the chips
          Versions,    \* the bytes that a chip may give as its version
          Masks,       \* the masks callers pass: sets of sources
          MaxEvents    \* bound: events the chip raises

ASSUME DevicesAssumption == Devices \subseteq {"Axp81X", "Axp22x", "Axp809", "Axp806", "Axp808"}

VARIABLES dev,         \* the chip
          version,     \* its version register
          inten,       \* the enable registers
          sts,         \* the status registers
          dcfreq,      \* the switching frequency register
          pc,          \* the call under way and its next bus access
          got,         \* the bytes of IntValue
          intMask,     \* the mask *IntMask of the call under way or last made
          atStart,     \* history: what was pending when the call began
          asked,       \* history: sources that are to be enabled
          misread,     \* history: the status registers that the call under
                       \* way did not read right
          unseen,      \* history: key presses no call has read
          exposed,     \* history: those that came between a read of their
                       \* register and the write that clears it, or that
                       \* were pending when such a read went wrong
          events

intVars == <<dev, version, inten, sts, dcfreq, pc, got, intMask, atStart, asked, misread, unseen, exposed, events>>

-----------------------------------------------------------------------------
(* A source of interrupts: a bit of one of the enable registers and of the *)
(* status register with the same number.                                   *)
Source(src, reg, bit) == [src |-> src, reg |-> reg, bit |-> bit]

PowerSources ==
  <<Source("AC_REMOVE", 0, 5), Source("AC_INSERT", 0, 6), Source("VBUS_REMOVE", 0, 2),
    Source("VBUS_INSERT", 0, 3), Source("CHARGE_DONE", 1, 2)>>

KeySources(reg, long, short) ==
  <<Source("LONG_KEY_PRESS", reg, long), Source("SHORT_KEY_PRESS", reg, short)>>

(* For each chip: the registers, the sources in the order of the tests,    *)
(* the key, and as AxpNNNProbe the versions that its probe accepts.        *)
VersionBits == 0..7

Axp81XIntRegs == 0..4
Axp81XProbeIntPending == PowerSources \o KeySources(4, 3, 4)
Axp81XProbeIntEnable == PowerSources \o KeySources(4, 3, 4)
Axp81XSetIntEnable == PowerSources \o KeySources(4, 3, 4)
Axp81XSetIntDisable == PowerSources \o KeySources(4, 3, 4)
Axp81XProbePowerKey == [reg |-> 4, bits |-> {3, 4}]
Axp81XProbe == {v \in SUBSET VersionBits : v \cap {0, 1, 2, 3, 6, 7} = {0, 6}}
Axp81XInterrupts ==
  [intRegs |-> Axp81XIntRegs, pending |-> Axp81XProbeIntPending, enabled |-> Axp81XProbeIntEnable,
   enable |-> Axp81XSetIntEnable, disable |-> Axp81XSetIntDisable, key |-> Axp81XProbePowerKey, probe |-> Axp81XProbe,
   freq |-> FALSE]

Axp22xIntRegs == 0..4
Axp22xProbeIntPending == PowerSources \o KeySources(2, 0, 1)
Axp22xProbeIntEnable == PowerSources \o KeySources(2, 0, 1)
Axp22xSetIntEnable == PowerSources \o KeySources(2, 0, 1)
Axp22xSetIntDisable == PowerSources \o KeySources(2, 0, 1)
Axp22xProbePowerKey == [reg |-> 2, bits |-> {0, 1}]
Axp22xProbe == {v \in SUBSET VersionBits : v \cap {1, 2} # {}}
Axp22xInterrupts ==
  [intRegs |-> Axp22xIntRegs, pending |-> Axp22xProbeIntPending, enabled |-> Axp22xProbeIntEnable,
   enable |-> Axp22xSetIntEnable, disable |-> Axp22xSetIntDisable, key |-> Axp22xProbePowerKey, probe |-> Axp22xProbe,
   freq |-> FALSE]

Axp809IntRegs == 0..4
Axp809ProbeIntPending == PowerSources \o KeySources(4, 3, 4)
Axp809ProbeIntEnable == PowerSources \o KeySources(4, 3, 4)
Axp809SetIntEnable == PowerSources \o KeySources(4, 3, 4)
Axp809SetIntDisable == PowerSources \o KeySources(4, 3, 4)
Axp809ProbePowerKey == [reg |-> 4, bits |-> {3, 4}]
Axp809Probe == {v \in SUBSET VersionBits : v \cap {0, 1, 2, 3, 6, 7} = {1, 6}}
Axp809Interrupts ==
  [intRegs |-> Axp809IntRegs, pending |-> Axp809ProbeIntPending, enabled |-> Axp809ProbeIntEnable,
   enable |-> Axp809SetIntEnable, disable |-> Axp809SetIntDisable, key |-> Axp809ProbePowerKey, probe |-> Axp809Probe,
   freq |-> FALSE]

Axp806IntRegs == 0..1
Axp806ProbeIntPending == PowerSources \o KeySources(4, 3, 4)
Axp806ProbeIntEnable == PowerSources
Axp806SetIntEnable == PowerSources
Axp806SetIntDisable == PowerSources
Axp806ProbePowerKey == [reg |-> 4, bits |-> {}]
Axp806Probe == {v \in SUBSET VersionBits : v \cap {0, 1, 2, 3, 6, 7} = {6}}
Axp806Interrupts ==
  [intRegs |-> Axp806IntRegs, pending |-> Axp806ProbeIntPending, enabled |-> Axp806ProbeIntEnable,
   enable |-> Axp806SetIntEnable, disable |-> Axp806SetIntDisable, key |-> Axp806ProbePowerKey, probe |-> Axp806Probe,
   freq |-> TRUE]

Axp808IntRegs == 0..1
Axp808ProbeIntPending == PowerSources \o KeySources(4, 3, 4)
Axp808ProbeIntEnable == PowerSources
Axp808SetIntEnable == PowerSources
Axp808SetIntDisable == PowerSources
Axp808ProbePowerKey == [reg |-> 4, bits |-> {}]
Axp808Probe == {v \in SUBSET VersionBits : v \cap {0, 1, 2, 3, 6, 7} = {6}}
Axp808Interrupts ==
  [intRegs |-> Axp808IntRegs, pending |-> Axp808ProbeIntPending, enabled |-> Axp808ProbeIntEnable,
   enable |-> Axp808SetIntEnable, disable |-> Axp808SetIntDisable, key |-> Axp808ProbePowerKey, probe |-> Axp808Probe,
   freq |-> TRUE]

-----------------------------------------------------------------------------
Idle == [op |-> "idle", for |-> "none", i |-> 0]

Chip ==
  CASE dev = "Axp81X" -> Axp81XInterrupts [] dev = "Axp22x" -> Axp22xInterrupts
    [] dev = "Axp809" -> Axp809Interrupts [] dev = "Axp806" -> Axp806Interrupts
    [] dev = "Axp808" -> Axp808Interrupts

IntRegs == Chip.intRegs
IntBytes == 0..4
KeyReg == Chip.key.reg

(* The sources of a table whose bits are set in the bytes v.               *)
Set(tests, v) == {t.src : t \in {u \in Range(tests) : u.reg \in DOMAIN v /\ u.bit \in v[u.reg]}}

TestedFirst(tests) == {tests[k] : k \in {k \in DOMAIN tests : \A j \in 1..(k - 1) : tests[j].reg # tests[k].reg}}

(* Mutant: every source but the one tested first.                          *)
MutReportedRest(tests, v) ==
  {t.src : t \in {u \in Range(tests) \ TestedFirst(tests) : u.bit \in v[u.reg]}}

(* What the tests make of the bytes v.                                     *)
Reported(tests, v) == {t.src : t \in {u \in TestedFirst(tests) : u.bit \in v[u.reg]}}

Zero == [i \in IntRegs |-> {}]
NoBytes == [i \in IntBytes |-> {}]

IntInit ==
  /\ dev \in Devices /\ version \in Versions
  /\ inten = Zero /\ sts = Zero /\ dcfreq = {4} /\ got = NoBytes
  /\ pc = Idle
  /\ intMask = {} /\ atStart = {} /\ asked = {}
  /\ misread = {} /\ unseen = {} /\ exposed = {}
  /\ events = 0

(* The call under way has read the key's register and is going to clear    *)
(* this bit of it: all bits with 0xff, or the keys that it has read.       *)
InWindow(bit) ==
  \/ pc.op = "read" /\ pc.i > KeyReg
  \/ pc.op = "clear" /\ pc.i <= KeyReg
  \/ pc.op = "key" /\ bit \in got[KeyReg]

(* External: the chip raises a source.  A press of a key that is pending   *)
(* merges with the earlier one.                                            *)
Raise(t) ==
  /\ events < MaxEvents /\ t.reg \in IntRegs
  /\ events' = events + 1
  /\ sts' = [sts EXCEPT ![t.reg] = @ \cup {t.bit}]
  /\ IF t.reg = KeyReg
       THEN /\ unseen' = unseen \cup {t.bit}
            /\ exposed' = IF InWindow(t.bit) THEN exposed \cup {t.bit} ELSE exposed \ {t.bit}
       ELSE UNCHANGED <<unseen, exposed>>
  /\ UNCHANGED <<dev, version, inten, dcfreq, pc, got, intMask, atStart, asked, misread>>

-----------------------------------------------------------------------------
(* A call returns: its local variables are gone.                           *)
Leave == pc' = Idle /\ got' = NoBytes /\ atStart' = {} /\ misread' = {}

(* IntValue is not set: the bytes that are not read may be anything.       *)
ProbeIntPending ==
  /\ pc = Idle
  /\ pc' = [op |-> "read", for |-> "pending", i |-> 0]
  /\ \E junk \in {{}, {3}} : got' = [i \in IntBytes |-> IF i \in IntRegs THEN {} ELSE junk]
  /\ intMask' = {}
  /\ atStart' = Set(Chip.pending, sts)
  /\ UNCHANGED <<dev, version, inten, sts, dcfreq, asked, misread, unseen, exposed, events>>

(* The presses that are pending and not in the byte will be cleared unread.*)
ReadStatus ==
  /\ pc.op = "read"
  /\ \E byte \in AxpPmBusRead(sts[pc.i]) :
       /\ got' = [got EXCEPT ![pc.i] = byte]
       /\ misread' = IF byte = sts[pc.i] THEN misread ELSE misread \cup {pc.i}
       /\ IF pc.i = KeyReg
            THEN unseen' = unseen \ byte /\ exposed' = (exposed \cup sts[KeyReg]) \ byte
            ELSE UNCHANGED <<unseen, exposed>>
  /\ pc' = IF pc.i + 1 \in IntRegs THEN [pc EXCEPT !.i = @ + 1] ELSE [pc EXCEPT !.op = "clear", !.i = 0]
  /\ UNCHANGED <<dev, version, inten, sts, dcfreq, intMask, atStart, asked, events>>

(* Writes 0xff, and so also clears what was raised since the read.         *)
ClearStatus ==
  /\ pc.op = "clear"
  /\ sts' = [sts EXCEPT ![pc.i] = {}]
  /\ \/ /\ pc.i + 1 \in IntRegs
        /\ pc' = [pc EXCEPT !.i = @ + 1] /\ UNCHANGED <<got, atStart, misread, intMask>>
     \/ /\ pc.i + 1 \notin IntRegs /\ pc.for = "pending"
        /\ Leave /\ intMask' = Reported(Chip.pending, got)
     \/ /\ pc.i + 1 \notin IntRegs /\ pc.for = "probe"
        /\ IF Chip.freq THEN pc' = [pc EXCEPT !.op = "freq"] /\ UNCHANGED <<got, atStart, misread>> ELSE Leave
        /\ UNCHANGED intMask
  /\ UNCHANGED <<dev, version, inten, dcfreq, asked, unseen, exposed, events>>

(* The probe of a chip: when the version is the right one all sources are  *)
(* disabled, register by register, and cleared.                            *)
ProbeChip ==
  /\ pc = Idle
  /\ \E n \in {0, 1, 5}, byte \in AxpPmBusRead(version) :
       LET off == byte \in Chip.probe
       IN  /\ inten' = [i \in IntRegs |-> IF off /\ i < n THEN {} ELSE inten[i]]
           /\ asked' = IF off THEN {} ELSE asked
           /\ pc' = IF off /\ n = 5 THEN [op |-> "read", for |-> "probe", i |-> 0] ELSE Idle
  /\ intMask' = {}
  /\ UNCHANGED <<dev, version, sts, dcfreq, got, atStart, misread, unseen, exposed, events>>

SetFrequency ==
  /\ pc.op = "freq"
  /\ \E byte \in AxpPmBusRead(dcfreq) : dcfreq' = (byte \ {4, 5}) \cup {5}
  /\ Leave
  /\ UNCHANGED <<dev, version, inten, sts, intMask, asked, unseen, exposed, events>>

(* ProbePowerKey clears exactly the bits that it read.  The AXP806 and the *)
(* AXP808 have no key: the call does nothing.                              *)
ProbePowerKey ==
  /\ pc = Idle
  /\ Chip.key.bits # {}
  /\ \E byte \in AxpPmBusRead(sts[KeyReg]) :
       LET pressed == byte \cap Chip.key.bits
       IN  /\ got' = [NoBytes EXCEPT ![KeyReg] = pressed]
           /\ pc' = IF pressed = {} THEN Idle ELSE [op |-> "key", for |-> "key", i |-> KeyReg]
           /\ unseen' = unseen \ pressed
           /\ exposed' = exposed \ pressed
  /\ intMask' = {}
  /\ UNCHANGED <<dev, version, inten, sts, dcfreq, atStart, asked, misread, events>>

(* Mutant: both bits are cleared.                                          *)
MutClearBoth ==
  /\ pc.op = "key"
  /\ sts' = [sts EXCEPT ![KeyReg] = @ \ Chip.key.bits]
  /\ Leave
  /\ UNCHANGED <<dev, version, inten, dcfreq, intMask, asked, unseen, exposed, events>>

ClearKey ==
  /\ pc.op = "key"
  /\ sts' = [sts EXCEPT ![KeyReg] = @ \ got[KeyReg]]
  /\ Leave
  /\ UNCHANGED <<dev, version, inten, dcfreq, intMask, asked, unseen, exposed, events>>

(* What the write that is due clears in the register pc.i.                 *)
Ones == IF pc.op = "key" THEN got[KeyReg] ELSE VersionBits

(* A write fails: the call returns EFI_DEVICE_ERROR.                       *)
BusError ==
  /\ \/ /\ pc.op \in {"clear", "key"}
        /\ \E left \in FailedWrite(sts[pc.i], sts[pc.i] \ Ones) : sts' = [sts EXCEPT ![pc.i] = left]
        /\ UNCHANGED dcfreq
     \/ /\ pc.op = "freq"
        /\ \E byte \in AxpPmBusRead(dcfreq) : dcfreq' \in FailedWrite(dcfreq, (byte \ {4, 5}) \cup {5})
        /\ UNCHANGED sts
  /\ Leave
  /\ UNCHANGED <<dev, version, inten, intMask, asked, unseen, exposed, events>>

-----------------------------------------------------------------------------
(* What the reads of the enable registers may give: at most one is wrong.  *)
ReadEnables ==
  UNION {{[inten EXCEPT ![j] = byte] : byte \in AxpPmBusRead(inten[j])} : j \in IntRegs}

EnabledWith(r, m) ==
  [i \in IntRegs |-> r[i] \cup {t.bit : t \in {u \in Range(Chip.enable) : u.src \in m /\ u.reg = i}}]

(* `&= ~1<<b' keeps the bits above b.                                      *)
DisabledWith(r, m) ==
  [i \in IntRegs |-> {b \in r[i] : \A t \in Range(Chip.disable) : t.src \in m /\ t.reg = i => b > t.bit}]

(* All registers are read, as r, then written one after the other; the     *)
(* write of register n may fail, before or after it reached the chip.      *)
WriteEnables(new, n) ==
  /\ pc = Idle
  /\ inten' = [i \in IntRegs |-> IF i < n THEN new[i] ELSE inten[i]]
  /\ intMask' = {}
  /\ UNCHANGED <<dev, version, sts, dcfreq, pc, got, atStart, misread, unseen, exposed, events>>

(* The sources of a register that was not read right and then written.     *)
Overwritten(r, n) ==
  {t.src : t \in {u \in Range(Chip.enable) : u.reg < n /\ r[u.reg] # inten[u.reg]}}

SetIntEnable(m) ==
  \E n \in {0, 1, 5}, r \in ReadEnables :
    /\ WriteEnables(EnabledWith(r, m), n)
    /\ asked' = (asked \ Overwritten(r, n))
                  \cup (IF n = 5 THEN m \cap {t.src : t \in Range(Chip.enable)} ELSE {})

(* The sources that a call for m may disable: those below one of m.        *)
Below(m) ==
  LET all == Range(Chip.disable)
  IN  {t.src : t \in {u \in all : \E w \in all : w.src \in m /\ w.reg = u.reg /\ u.bit <= w.bit}}

SetIntDisable(m) ==
  \E n \in {0, 1, 5}, r \in ReadEnables :
    /\ WriteEnables(DisabledWith(r, m), n)
    /\ asked' = asked \ (Below(m) \cup Overwritten(r, n))

(* The caller's mask is not cleared first.                                 *)
ProbeIntEnable ==
  /\ pc = Idle
  /\ \E r \in ReadEnables :
       intMask' = intMask \cup Reported(Chip.enabled, [i \in IntBytes |-> IF i \in IntRegs THEN r[i] ELSE {}])
  /\ UNCHANGED <<dev, version, inten, sts, dcfreq, pc, got, atStart, asked, misread, unseen, exposed, events>>

IntNext ==
  \/ \E t \in Range(Chip.pending) : Raise(t)
  \/ ProbeIntPending \/ ReadStatus \/ ClearStatus
  \/ ProbePowerKey \/ ClearKey
  \/ ProbeChip \/ SetFrequency
  \/ BusError
  \/ \E m \in Masks : SetIntEnable(m) \/ SetIntDisable(m)
  \/ ProbeIntEnable

IntSpec == IntInit /\ [][IntNext]_intVars

-----------------------------------------------------------------------------
(* A source that is tested first in its register and was pending when      *)
(* ProbeIntPending was called is reported by it, if it succeeds and the    *)
(* register was read right: the call may lose events that happen while it  *)
(* runs, but none from before.                                             *)
FirstReported ==
  [][(ClearStatus /\ pc.for = "pending" /\ pc.i + 1 \notin IntRegs)
       => \A t \in TestedFirst(Chip.pending) :
            t.src \in atStart /\ t.reg \notin misread => t.src \in intMask']_intVars

(* A press of the power key that no call has read is still pending, unless *)
(* it is one of those that the code does lose: it came between a call's    *)
(* read of the register and its clearing write, or that read was wrong.    *)
(* The write with which ProbePowerKey clears never takes another key.      *)
KeyNotLost == KeyReg \in IntRegs => unseen \subseteq sts[KeyReg] \cup exposed

(* A source that a successful SetIntEnable named stays enabled over later  *)
(* calls, failed ones included, until SetIntDisable names it or a source   *)
(* above it in the same register, the chip is probed again, or a call that *)
(* did not read its register right writes it.                              *)
EnableKept ==
  \A t \in Range(Chip.enable) : t.src \in asked => t.bit \in inten[t.reg]

(* Clearing and enabling touch only the bits that a call is about, although *)
(* each is a read and a write with events of the chip between them.        *)
InterruptsKept == KeyNotLost /\ EnableKept
=============================================================================
