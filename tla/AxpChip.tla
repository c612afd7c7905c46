------------------------------ MODULE AxpChip -------------------------------
(***************************************************************************)
(* Drivers/AxpPower: the shape that the set_ and probe_ functions of the   *)
(* five AxpNNNSupply.c files share.  A register is the set of its bits     *)
(* that are 1, so that a mask is a set, `&= ~m' is set difference and      *)
(* `|= v' is union: an OR over bits that were not cleared keeps them, as   *)
(* it does in the chip.                                                    *)
(*                                                                         *)
(* A set_ function writes the voltage field (if set_vol > 0) and then the  *)
(* enable bits (unless onoff says to leave them), each by a read, a change *)
(* and a write of one register.                                            *)
(***************************************************************************)
EXTENDS Integers, Sequences, FiniteSetsExt

Byte == 0..7

Bits(n) == {i \in Byte : (n \div 2^i) % 2 = 1}

Value(r) == MapThenSumSet(LAMBDA i : 2^i, r)

Low(w) == 0..(w - 1)

(* One read-modify-write: clear the bits clr, then set the bits set.       *)
RMW(reg, clr, set) == [reg |-> reg, clr |-> clr, set |-> set]

(* A stretch of a voltage table: code stands for lo, and each step more    *)
(* for one code more, up to hi.                                            *)
Seg(lo, hi, step, code) == [lo |-> lo, hi |-> hi, step |-> step, code |-> code]

Clamp(v, lo, hi) == IF v < lo THEN lo ELSE IF v > hi THEN hi ELSE v

(* The stretch is the first one that reaches the voltage, or the last one; *)
(* the voltage is clamped to it and rounded down.                          *)
Encode(segs, v) ==
  LET i == IF \E j \in DOMAIN segs : v <= segs[j].hi
             THEN Min({j \in DOMAIN segs : v <= segs[j].hi})
             ELSE Len(segs)
      s == segs[i]
  IN  s.code + (Clamp(v, s.lo, s.hi) - s.lo) \div s.step

(* The stretch is the last one whose code is not above the field.          *)
Decode(segs, n) ==
  LET s == segs[Max({j \in DOMAIN segs : segs[j].code <= n})]
  IN  s.lo + s.step * (n - s.code)

(* A probe_ function: it returns 0 if none of the bits gate is set in the  *)
(* control register, for an empty gate it does not look.                   *)
ProbeOf(vol, width, segs, gate) ==
  [vol |-> vol, width |-> width, segs |-> segs, gate |-> gate]

NoProbe == ProbeOf(0, 0, <<>>, {})

(* A regulator with a voltage: onoff < 0 leaves its enable bit alone.      *)
Rail(vol, width, segs, ctl, bit) ==
  [vol |-> vol, width |-> width, segs |-> segs, ctl |-> ctl, mask |-> {bit},
   on |-> {bit}, off |-> {}, ignores |-> {-1}, pre |-> <<>>,
   probe |-> ProbeOf(vol, width, segs, {})]

(* Its probe_ function looks at the enable bit first.                      *)
Gated(rail) == [rail EXCEPT !.probe.gate = rail.on]

Unprobed(rail) == [rail EXCEPT !.probe = NoProbe]

(* A pin that can be a regulator: the low three bits of its control        *)
(* register select what it does.                                           *)
GpioLdo(vol, ctl, on, off) ==
  [Rail(vol, 5, <<Seg(700, 3300, 100, 0)>>, ctl, 0)
     EXCEPT !.mask = Low(3), !.on = on, !.off = off]

(* A switch has no voltage, and any onoff but 0 turns it on.               *)
Switch(ctl, bit) ==
  [Rail(0, 0, <<>>, ctl, bit) EXCEPT !.ignores = {}, !.probe = NoProbe]

(* A pin driven low or high: a level other than 0 and 1 is ignored.        *)
Level(ctl, mask, bit) ==
  [Rail(0, 0, <<>>, ctl, bit)
     EXCEPT !.mask = mask, !.ignores = {-1, 2}, !.probe = NoProbe]

(* Mutant: the control register is written whole, not read first.          *)
MutProgramWhole(rail, v, onoff) ==
     rail.pre
  \o (IF v > 0 /\ rail.segs # <<>>
        THEN <<RMW(rail.vol, Low(rail.width), Bits(Encode(rail.segs, v)))>>
        ELSE <<>>)
  \o (IF onoff \in rail.ignores
        THEN <<>>
        ELSE <<RMW(rail.ctl, Byte, IF onoff = 0 THEN rail.off ELSE rail.on)>>)

(* Mutant: the regulator is switched before its voltage is set.            *)
MutProgramSwapped(rail, v, onoff) ==
     rail.pre
  \o (IF onoff \in rail.ignores
        THEN <<>>
        ELSE <<RMW(rail.ctl, rail.mask, IF onoff = 0 THEN rail.off ELSE rail.on)>>)
  \o (IF v > 0 /\ rail.segs # <<>>
        THEN <<RMW(rail.vol, Low(rail.width), Bits(Encode(rail.segs, v)))>>
        ELSE <<>>)

(* The register updates of set_<rail>(v, onoff), in the order of the code. *)
Program(rail, v, onoff) ==
     rail.pre
  \o (IF v > 0 /\ rail.segs # <<>>
        THEN <<RMW(rail.vol, Low(rail.width), Bits(Encode(rail.segs, v)))>>
        ELSE <<>>)
  \o (IF onoff \in rail.ignores
        THEN <<>>
        ELSE <<RMW(rail.ctl, rail.mask, IF onoff = 0 THEN rail.off ELSE rail.on)>>)

(* What probe_<rail> returns from the registers r.                         *)
Probe(rail, r) ==
  LET p == rail.probe
  IN  IF p.gate # {} /\ r[rail.ctl] \cap p.gate = {}
        THEN 0
        ELSE Decode(p.segs, Value(r[p.vol] \cap Low(p.width)))

(* The voltages that the codes of a table stand for.                       *)
Supported(segs) == {Decode(segs, n) : n \in 0..Encode(segs, segs[Len(segs)].hi)}

-----------------------------------------------------------------------------
(* Drivers/AxpPower: what the five AxpNNN.c files share, the register      *)
(* updates behind the charger, the limits of the USB input and the power   *)
(* off voltage.                                                            *)

POWER_STATUS == \H00
MODE_CHGSTATUS == \H01
DATA_BUFFER11 == \H0F
VBUS_SET == \H30      \* IPS_SET in Axp22x.c
VOFF_SET == \H31
OFF_CTL == \H32
CHARGE1 == \H33
ADC_EN == \H82
FUEL_GAUGE_CTL == \HB8
PERCEN_CAL == \HB9    \* COULOMB_CAL in Axp22x.c

Charger(adc, on) == <<RMW(ADC_EN, {}, adc), RMW(CHARGE1, {7}, IF on # 0 THEN {7} ELSE {})>>

(* A charge current is coded like a voltage.                               *)
ChargeCurrent(segs, v) == <<RMW(CHARGE1, Low(4), Bits(Encode(segs, v)))>>
ChargeCurrentOf(segs, r) == Decode(segs, Value(r[CHARGE1] \cap Low(4)))

VbusCurrent(v) ==
  <<RMW(VBUS_SET, {0, 1}, IF v = 0 THEN {0, 1} ELSE IF v <= 500 THEN {0} ELSE {})>>
VbusCurrentOf(r) ==
  LET field == r[VBUS_SET] \cap {0, 1}
  IN  IF field = {} THEN 900 ELSE IF field = {0} THEN 500 ELSE 0

(* Voltage 0 also switches the limit off; no call switches it on again.    *)
VbusVoltage(v) ==
  <<RMW(VBUS_SET, IF v = 0 THEN 3..6 ELSE 3..5,
        IF v = 0 THEN {} ELSE {i + 3 : i \in Bits((Clamp(v, 4000, 4700) - 4000) \div 100)})>>

OffVoltage(v, stage) ==
  LET u == IF v # 0 THEN v ELSE IF stage = 0 THEN 3300 ELSE 2900
  IN  <<RMW(VOFF_SET, Low(3), Bits((Clamp(u, 2600, 3300) - 2600) \div 100))>>

PowerOff == <<RMW(OFF_CTL, {}, {7})>>
Gauge(on) == <<RMW(FUEL_GAUGE_CTL, {7}, IF on # 0 THEN {7} ELSE {})>>

(* Only a write, of the whole register.                                    *)
NextMode(mode) == <<RMW(DATA_BUFFER11, Byte, Bits(mode))>>

(* What a status call returns of the registers r.                          *)
StatusIs(ok, v) == [ok |-> ok, v |-> v]

PowerOnCause(r) == StatusIs(TRUE, r[POWER_STATUS] \cap {0})
PowerBus(r) == StatusIs(TRUE, {k \in {"VBUS", "AC"} : (IF k = "VBUS" THEN 4 ELSE 6) \in r[POWER_STATUS]})
BatteryRatio(r) == StatusIs(TRUE, Value(r[PERCEN_CAL] \cap Low(7)))
(* `(h << 4) | l': the low byte may overlap the high one.                  *)
BatteryVoltage(r, h8, l4) ==
  StatusIs(TRUE, ((Value(r[h8]) * 16 + Value(r[l4] \cap Low(4))
              + Value({b \in r[l4] : b > 3 /\ b - 4 \notin r[h8]})) * 11) \div 10)
=============================================================================
