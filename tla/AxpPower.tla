------------------------------- MODULE AxpPower ------------------------------
(***************************************************************************)
(* Drivers/AxpPower: setting and probing the regulators of a power chip,   *)
(* and its charger and limits, over a bus whose every access may fail.     *)
(*                                                                         *)
(* A call is a sequence of register updates (AxpChip), each a read and a   *)
(* write (RsbBus).  It returns EFI_DEVICE_ERROR at the first write that    *)
(* fails, which may have reached the chip.  So a call leaves some first    *)
(* part of its updates behind, and if that is not all of them it has       *)
(* failed.  A read that fails is not noticed: the byte it gives is changed *)
(* and written back, over the other bits of the register.  At most one     *)
(* read of a call fails.                                                   *)
(*                                                                         *)
(* Calls come from one thread and nothing else writes these registers, so  *)
(* that a call is one action.  chip is the library linked into the image.  *)
(***************************************************************************)
EXTENDS Axp8xx, Axp22x, RsbBus

CONSTANTS Chips,       \* the libraries to check
          MaxCalls,    \* bound: calls, for each library
          Sequel,      \* bound: the regulators that later calls are for
          InitRegs     \* the register contents the boot loader may leave

ASSUME ChipsAssumption == Chips \subseteq {"Axp81X", "Axp22x", "Axp809", "Axp806", "Axp808"}
ASSUME CallsAssumption == MaxCalls \in [Chips -> Nat]
ASSUME InitRegsAssumption == InitRegs \subseteq SUBSET Byte

VARIABLES chip,        \* the library
          regs,        \* the chip's registers
          ret,         \* what the last call was and what it returned
          want,        \* history: what the last calls that succeeded asked
                       \* of each regulator
          wantCtl,     \* history: the same for the other settings
          calls

vars == <<chip, regs, ret, want, wantCtl, calls>>

Any == -1

Supply(rails, index, name, probe) ==
  [rails |-> rails, index |-> index, name |-> name, probe |-> probe]

Library ==
  [Axp81X |-> Supply(Axp81XRails, Axp81XSetSupplyStatus,
                     Axp81XSetSupplyStatusByName, Axp81XProbeSupplyStatusByName),
   Axp22x |-> Supply(Axp22xRails, Axp22xSetSupplyStatus, Axp22xSetSupplyStatusByName, {}),
   Axp809 |-> Supply(Axp809Rails, Axp809SetSupplyStatus,
                     Axp809SetSupplyStatusByName, Axp809ProbeSupplyStatusByName),
   Axp806 |-> Supply(Axp806Rails, Axp806SetSupplyStatus,
                     Axp806SetSupplyStatusByName, Axp806ProbeSupplyStatusByName),
   Axp808 |-> Supply(Axp808Rails, Axp808SetSupplyStatus,
                     Axp808SetSupplyStatusByName, Axp808ProbeSupplyStatusByName)]

Rails == Library[chip].rails

-----------------------------------------------------------------------------
(* The charger, the limits of the USB input and the power-off voltage.     *)
Settings == {"charger", "current", "vbusCurrent", "vbusVoltage", "voff",
             "gauge", "sysMode", "powerOff"}

HasSettings == chip \in {"Axp81X", "Axp22x", "Axp809"}

Setting(s, v) ==
  CASE chip = "Axp81X" -> Axp81XPowerProtocol(s, v)
    [] chip = "Axp22x" -> Axp22xPowerProtocol(s, v)
    [] chip = "Axp809" -> Axp809PowerProtocol(s, v)
    [] chip = "Axp806" -> Axp806PowerProtocol(s, v)
    [] chip = "Axp808" -> Axp808PowerProtocol(s, v)

ChargeSegs ==
  CASE chip = "Axp81X" -> Axp81XSteps [] chip = "Axp22x" -> Axp22xSteps [] chip = "Axp809" -> Axp809Steps
ProbeChargeCurrent ==
  CASE chip = "Axp81X" -> Axp81XProbeChargeCurrent(regs)
    [] chip = "Axp22x" -> Axp22xProbeChargeCurrent(regs)
    [] chip = "Axp809" -> Axp809ProbeChargeCurrent(regs)
(* The AXP22x has the field but no call that reads it.                     *)
ProbeVbusCurrentLimit ==
  CASE chip = "Axp81X" -> Axp81XProbeVbusCurrentLimit(regs)
    [] chip = "Axp22x" -> VbusCurrentOf(regs)
    [] chip = "Axp809" -> Axp809ProbeVbusCurrentLimit(regs)
ProbePreSysMode ==
  CASE chip = "Axp81X" -> Axp81XProbePreSysMode(regs)
    [] chip = "Axp22x" -> Axp22xProbePreSysMode(regs)
    [] chip = "Axp809" -> Axp809ProbePreSysMode(regs)

Status(s, r) ==
  CASE chip = "Axp81X" -> Axp81XProbeStatus(s, r)
    [] chip = "Axp22x" -> Axp22xProbeStatus(s, r)
    [] chip = "Axp809" -> Axp809ProbeStatus(s, r)
    [] chip = "Axp806" -> Axp806ProbeStatus(s, r)
    [] chip = "Axp808" -> Axp808ProbeStatus(s, r)

StatusRegisters == {\H00, \H01, \H50, \H51, \H78, \H79, \HB9}

(* The arguments: each side of every boundary.                             *)
SettingArgs(s) ==
  CASE s = "charger" -> {0, 1}
    [] s = "current" -> {0, 200, 300, 2550, 2801}
    [] s = "vbusCurrent" -> {0, 500, 501}
    [] s = "vbusVoltage" -> {0, 3999, 4100, 4701}
    [] s = "voff" -> {0, 2599, 2600, 3300, 3301}
    [] s = "powerOff" -> {1}
    [] s = "gauge" -> {0, 1}
    [] s = "sysMode" -> {\H0E, \H0F}

(* Bound: a call that others follow, and these, take the lowest or highest.*)
Ends(s) == {Min(SettingArgs(s)), Max(SettingArgs(s))}

-----------------------------------------------------------------------------
Registers ==
  {\H00, \H01, \H0F, \H30, \H31, \H32, \H33, \H50, \H51, \H78, \H79, \H82, \HB8, \HB9, \H8F}
    \cup UNION {{Rails[n].ctl, Rails[n].vol, Rails[n].probe.vol} : n \in DOMAIN Rails}

(* The registers after the first n updates of a program, each from what    *)
(* its read returned, as in r.  No program updates a register twice.       *)
Apply(r, prog, n) ==
  [x \in DOMAIN r |->
     IF \E i \in 1..n : prog[i].reg = x
       THEN LET i == CHOOSE i \in 1..n : prog[i].reg = x
            IN  (r[x] \ prog[i].clr) \cup prog[i].set
       ELSE r[x]]

(* What a program finds and leaves: its first k updates are made, and the  *)
(* read of the i-th may give a byte that is not the register's; i = 0 if   *)
(* every read is right.  Nothing is known any more of the bits of that     *)
(* register that the update does not write itself.                         *)
Update(k, i, prog) ==
  regs' \in {Apply(r, prog, k) :
               r \in IF i = 0 THEN {regs}
                     ELSE {[regs EXCEPT ![prog[i].reg] = b] : b \in AxpPmBusRead(regs[prog[i].reg])}}

Garbles(prog, i, reg, bits) == i # 0 /\ prog[i].reg = reg /\ ~(bits \subseteq prog[i].clr)

(* The bits of a regulator's voltage, as its functions read and write them.*)
VolField(n) ==
  Low(IF Rails[n].probe.vol = Rails[n].vol THEN Max({Rails[n].width, Rails[n].probe.width})
      ELSE Rails[n].width)

Known(prog, i, w) ==
  [m \in DOMAIN Rails |->
     [vol |-> IF Garbles(prog, i, Rails[m].vol, VolField(m)) THEN Any ELSE w[m].vol,
      on |-> IF Garbles(prog, i, Rails[m].ctl, Rails[m].mask) THEN Any ELSE w[m].on]]

KnownCtl(prog, i, w) ==
  [s \in Settings |->
     IF w[s] # Any /\ \E u \in Range(Setting(s, w[s])) : Garbles(prog, i, u.reg, u.clr \cup u.set)
       THEN Any ELSE w[s]]

(* Regulators that are switched by common bits: DC5LDO and DCDC1 of the    *)
(* AXP81X, and what a pin is used for.                                     *)
SharesSwitch(m, n) == Rails[m].ctl = Rails[n].ctl /\ Rails[m].mask \cap Rails[n].mask # {}

(* What set_<n>(v, onoff) leaves to be expected of the regulators.         *)
Expect(n, v, onoff, ok) ==
  [m \in DOMAIN Rails |->
     LET touches == onoff \notin Rails[n].ignores /\ SharesSwitch(m, n)
         newOn == IF ~touches THEN want[m].on
                  ELSE IF m = n /\ ok THEN (IF onoff = 0 THEN 0 ELSE 1)
                  ELSE Any
         newVol == IF m # n \/ v <= 0 THEN want[m].vol
                   ELSE IF ok THEN v ELSE Any
     IN  [vol |-> newVol, on |-> newOn]]

Init ==
  /\ chip \in Chips
  /\ \E r \in InitRegs : regs = [x \in Registers |-> r]
  /\ ret = [call |-> "none", status |-> "success"]
  /\ want = [n \in DOMAIN Rails |-> [vol |-> Any, on |-> Any]]
  /\ wantCtl = [s \in Settings |-> Any]
  /\ calls = 0

Counted(last) ==
  /\ calls < MaxCalls[chip]
  /\ calls' = IF last THEN MaxCalls[chip] ELSE calls + 1
  /\ UNCHANGED chip

(* Bound: a call that writes no register disturbs none, and is made alone. *)
Alone == calls = 0 /\ Counted(TRUE)

SetRail(n, v, onoff) ==
  LET prog == Program(Rails[n], v, onoff)
  IN  \E k \in 0..Len(prog), ok \in BOOLEAN : \E i \in 0..k :
        /\ ok => k = Len(prog)
        /\ prog = <<>> => ok
        /\ Update(k, i, prog)
        /\ ret' = [call |-> "set", rail |-> n, vol |-> v, onoff |-> onoff,
                   status |-> IF ok THEN "success" ELSE "device_error"]
        /\ \E w \in {Expect(n, v, onoff, ok)} : want' = IF i = 0 THEN w ELSE Known(prog, i, w)
        /\ wantCtl' = KnownCtl(prog, i, wantCtl)

Unsupported ==
  /\ ret' = [call |-> "set", status |-> "unsupported"]
  /\ UNCHANGED <<regs, want, wantCtl>>

(* Bound: the first call takes a voltage on each side of every boundary;   *)
(* one that others follow, and these, take none or the highest, and turn   *)
(* the regulator off or on.                                                *)
Highest(n) == Max({Rails[n].segs[j].hi : j \in DOMAIN Rails[n].segs} \cup {0})

Volts(n) ==
  LET segs == Rails[n].segs
  IN  {0, Highest(n)}
        \cup (IF calls = 0
                THEN UNION {{segs[j].lo - 1, segs[j].lo, segs[j].lo + 30,
                             segs[j].hi, segs[j].hi + 1} : j \in DOMAIN segs}
                ELSE {})

OnOff == {0, 1} \cup (IF calls = 0 THEN {-1, 2} ELSE {})

SetKnown(n) ==
  \E v \in Volts(n), onoff \in OnOff :
    Counted(v \notin {0, Highest(n)} \/ onoff \notin {0, 1}) /\ SetRail(n, v, onoff)

SetSupplyStatus(n) ==
  IF n \in Library[chip].index THEN SetKnown(n) ELSE Alone /\ Unsupported

(* Bound: a later call by name is made only if there is none by index.     *)
SetSupplyStatusByName(n) ==
  /\ n \in Library[chip].index => calls = 0
  /\ IF n \in Library[chip].name THEN SetKnown(n) ELSE Alone /\ Unsupported

(* What a probe may read of the registers xs.                              *)
ReadWith(xs) ==
  UNION {{[regs EXCEPT ![x] = b] : b \in AxpPmBusRead(regs[x])} : x \in xs}

(* Axp81XProbeSupplyStatusByName returns the voltage as its status and     *)
(* leaves *Vol at 0; the others store it.                                  *)
ProbeSupplyStatusByName(n) ==
  /\ Alone
  /\ \E r \in ReadWith({Rails[n].ctl, Rails[n].probe.vol}) :
       LET known == n \in Library[chip].probe
           mv == IF known THEN Probe(Rails[n], r) ELSE 0
       IN  ret' = [call |-> "probe", rail |-> n,
                   vol |-> IF chip = "Axp81X" \/ ~known THEN 0 ELSE mv,
                   status |-> IF ~known /\ chip # "Axp81X" THEN "device_error"
                              ELSE IF chip = "Axp81X" /\ mv # 0 THEN "voltage"
                              ELSE "success"]
  /\ UNCHANGED <<regs, want, wantCtl>>

(* The AXP806 and AXP808 have nothing to set, and the AXP22x no gauge.     *)
CallSetting(s) ==
  /\ s = "gauge" => chip \in {"Axp81X", "Axp809"}
  /\ \E v \in (IF calls = 0 THEN SettingArgs(s) ELSE Ends(s)) :
       LET prog == Setting(s, v)
       IN  /\ Counted(v \notin Ends(s))
           /\ \E k \in 0..Len(prog), ok \in BOOLEAN : \E i \in 0..k :
                /\ ok => k = Len(prog)
                /\ prog = <<>> => ok
                /\ Update(k, i, prog)
                /\ ret' = [call |-> s, vol |-> v,
                           status |-> IF ok THEN "success" ELSE "device_error"]
                /\ want' = Known(prog, i, want)
                /\ wantCtl' = KnownCtl(prog, i, [wantCtl EXCEPT ![s] = IF ok THEN v ELSE Any])

ProbeStatus(s) ==
  /\ Alone
  /\ \E r \in ReadWith(StatusRegisters) :
       ret' = [call |-> s, vol |-> Status(s, r).v,
               status |-> IF Status(s, r).ok THEN "success" ELSE "device_error"]
  /\ UNCHANGED <<regs, want, wantCtl>>

Next ==
  \/ \E s \in {"cause", "bus", "ratio", "voltage", "battery"} : ProbeStatus(s)
  \/ \E n \in (IF calls = 0 THEN DOMAIN Rails ELSE Sequel) :
       SetSupplyStatus(n) \/ SetSupplyStatusByName(n) \/ ProbeSupplyStatusByName(n)
  \/ \E s \in Settings : CallSetting(s)

Spec == Init /\ [][Next]_vars

-----------------------------------------------------------------------------
(* The regulators whose set_ and probe_ functions disagree: probe_dcdc6 of *)
(* the AXP81X asks for another regulator's bit; set_dcdc4 of the AXP806    *)
(* and AXP808 counts from 47 and probe_dcdc4 from 46; set_cldo1..3 leave   *)
(* bit 4 of the field as it was; probe_swout reads DCDC5.                  *)
Disagree ==
  CASE chip = "Axp81X" -> {"dcdc6"}
    [] chip \in {"Axp806", "Axp808"} -> {"dcdc4", "cldo1", "cldo2", "cldo3", "swout"}
    [] OTHER -> {}

(* u is a voltage of the table next to v: none lies between.               *)
NextTo(segs, u, v) ==
  /\ u \in Supported(segs)
  /\ \A s \in Supported(segs) : ~(u < s /\ s <= v) /\ ~(v <= s /\ s < u)

(* A voltage that was set with success is the one the probe reports, or    *)
(* the next one the regulator can supply, whatever was set afterwards for  *)
(* other regulators and whichever writes failed (set_/probe_ functions).   *)
ReadsBack ==
  \A n \in Library[chip].probe \ Disagree :
    (want[n].vol # Any /\ (Rails[n].probe.gate # {} => want[n].on = 1))
      => NextTo(Rails[n].segs, Probe(Rails[n], regs), want[n].vol)

(* A regulator stays on, or off, as the last successful call left it,      *)
(* until a call for it or for one that shares its bits: the calls share    *)
(* the control registers but not their bits.                               *)
SwitchKept ==
  \A n \in DOMAIN Rails :
    want[n].on # Any =>
      regs[Rails[n].ctl] \cap Rails[n].mask = (IF want[n].on = 0 THEN Rails[n].off ELSE Rails[n].on)

(* Charger, charge current, limits and VBUS switch share registers: each   *)
(* reads back what was last set for it, and so does the mode to start in.  *)
SettingsKept ==
  HasSettings =>
    /\ wantCtl["charger"] # Any => ((7 \in regs[CHARGE1]) <=> wantCtl["charger"] # 0)
    /\ wantCtl["current"] # Any => NextTo(ChargeSegs, ProbeChargeCurrent, wantCtl["current"])
                                     \/ wantCtl["current"] < ChargeSegs[1].lo
    /\ wantCtl["vbusCurrent"] # Any =>
         ProbeVbusCurrentLimit = (CASE wantCtl["vbusCurrent"] = 0 -> 0
                                    [] wantCtl["vbusCurrent"] = 500 -> 500
                                    [] OTHER -> 900)
    /\ wantCtl["sysMode"] # Any => ProbePreSysMode = wantCtl["sysMode"]
    /\ wantCtl["vbusVoltage"] # Any =>
         Value(regs[VBUS_SET] \cap 3..5)
           = 8 * (IF wantCtl["vbusVoltage"] = 0 THEN 0
                  ELSE (Clamp(wantCtl["vbusVoltage"], 4000, 4700) - 4000) \div 100)

(* The calls share the registers of the chip by bits and read before they  *)
(* write: what one call asked for survives the others, failed ones too.    *)
(* What a read that fails unnoticed destroys is confined to its register,  *)
(* and there to the bits the call does not write: what was asked of those  *)
(* is forgotten (Known, KnownCtl), because the code does lose it.          *)
RequestsKept == SwitchKept /\ SettingsKept

(* The functions that clear four bits of a field of five: bit 4 is what it *)
(* was, and the voltage may be 1600 mV above the one that was asked for.   *)
HalfCleared == IF chip \in {"Axp806", "Axp808"} THEN {"cldo1", "cldo2", "cldo3"} ELSE {}

(* set_dcdc4 of the AXP806 and AXP808 makes 64 of 3300 mV, which the field *)
(* of six bits does not hold: it becomes 0, that is 600 mV.                *)
Overflows(n, v) == chip \in {"Axp806", "Axp808"} /\ n = "dcdc4" /\ v >= 3300

(* A call that sets a voltage and turns a regulator on never leaves it on  *)
(* with another voltage in its field, not even if the bus fails between    *)
(* the two updates or a read gives a wrong byte: the voltage is written    *)
(* first, and whole, but for bit 4 of the three regulators of HalfCleared  *)
(* and for 3300 mV of the one that Overflows.                              *)
VoltageBeforeOn ==
  [][\A n \in DOMAIN Rails :
       (/\ ret'.call = "set" /\ ret'.status # "unsupported" /\ ret'.rail = n
        /\ ret'.vol > 0 /\ Rails[n].segs # <<>> /\ ~Overflows(n, ret'.vol)
        /\ regs[Rails[n].ctl] \cap Rails[n].mask # Rails[n].on
        /\ regs'[Rails[n].ctl] \cap Rails[n].mask = Rails[n].on)
         => LET asked == Bits(Encode(Rails[n].segs, ret'.vol))
            IN  regs'[Rails[n].vol] \cap VolField(n)
                  \in {asked} \cup (IF n \in HalfCleared THEN {asked \cup {4}} ELSE {})]_vars
=============================================================================
