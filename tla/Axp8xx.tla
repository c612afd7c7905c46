------------------------------- MODULE Axp8xx -------------------------------
(***************************************************************************)
(* The AXP81X, AXP806 and AXP808.                                          *)
(* Drivers/AxpPower/Axp81X/Axp81XSupply.c, the chip of this board: its     *)
(* regulators and their dispatchers.  Every probe_ function but those of   *)
(* the pins looks at the enable bit first; probe_dcdc6 looks at bits 0 and *)
(* 2 of the control register, which belong to DCDC1 and DCDC3.  DC5LDO and *)
(* DCDC1 are switched by the same bit.                                     *)
(***************************************************************************)
EXTENDS AxpChip

axp81X_dc1sw == Switch(\H12, 7)
axp81X_dc5ldo == Switch(\H10, 0)
axp81X_dcdc1 == Gated(Rail(\H20, 5, <<Seg(1600, 3400, 100, 0)>>, \H10, 0))
(* Mutant: the second stretch of the table starts one code too high.       *)
MutDcdc2 ==
  [Gated(Rail(\H21, 7, <<Seg(500, 1200, 10, 0), Seg(1200, 1300, 20, 70)>>, \H10, 1))
     EXCEPT !.segs[2].code = 71]
axp81X_dcdc2 ==
  Gated(Rail(\H21, 7, <<Seg(500, 1200, 10, 0), Seg(1200, 1300, 20, 70)>>, \H10, 1))
axp81X_dcdc3 ==
  Gated(Rail(\H22, 7, <<Seg(500, 1200, 10, 0), Seg(1200, 1300, 20, 70)>>, \H10, 2))
axp81X_dcdc4 ==
  Gated(Rail(\H23, 7, <<Seg(500, 1200, 10, 0), Seg(1200, 1300, 20, 70)>>, \H10, 3))
axp81X_dcdc5 ==
  Gated(Rail(\H24, 7, <<Seg(800, 1120, 10, 0), Seg(1120, 1840, 20, 32)>>, \H10, 4))
axp81X_dcdc6 ==
  [Rail(\H25, 7, <<Seg(600, 1100, 10, 0), Seg(1100, 1520, 20, 50)>>, \H10, 5)
     EXCEPT !.probe.gate = {0, 2}]
axp81X_aldo1 == Gated(Rail(\H28, 5, <<Seg(700, 3300, 100, 0)>>, \H13, 5))
axp81X_aldo2 == Gated(Rail(\H29, 5, <<Seg(700, 3300, 100, 0)>>, \H13, 6))
axp81X_aldo3 == Gated(Rail(\H2A, 5, <<Seg(700, 3300, 100, 0)>>, \H13, 7))
axp81X_dldo1 == Gated(Rail(\H15, 5, <<Seg(700, 3300, 100, 0)>>, \H12, 3))
axp81X_dldo2 ==
  Gated(Rail(\H16, 5, <<Seg(700, 3400, 100, 0), Seg(3400, 4200, 200, 27)>>, \H12, 4))
axp81X_dldo3 == Gated(Rail(\H17, 5, <<Seg(700, 3300, 100, 0)>>, \H12, 5))
axp81X_dldo4 == Gated(Rail(\H18, 5, <<Seg(700, 3300, 100, 0)>>, \H12, 6))
axp81X_eldo1 == Gated(Rail(\H19, 5, <<Seg(700, 1900, 50, 0)>>, \H12, 0))
axp81X_eldo2 == Gated(Rail(\H1A, 5, <<Seg(700, 1900, 50, 0)>>, \H12, 1))
axp81X_eldo3 == Gated(Rail(\H1B, 5, <<Seg(700, 1900, 50, 0)>>, \H12, 2))
axp81X_fldo1 == Gated(Rail(\H1C, 4, <<Seg(700, 1450, 50, 0)>>, \H13, 2))
axp81X_fldo2 == Gated(Rail(\H1D, 4, <<Seg(700, 1450, 50, 0)>>, \H13, 3))
axp81X_gpio0ldo == GpioLdo(\H91, \H90, Bits(3), Bits(4))
axp81X_gpio1ldo == GpioLdo(\H93, \H92, Bits(3), Bits(4))
axp81X_gpio0 == Level(\H90, Low(3), 0)
axp81X_gpio1 == Level(\H92, Low(3), 0)
axp81X_vbusen == Level(\H30, {2}, 2)

axp81X_set_dcdc_output == {"dcdc1", "dcdc2", "dcdc3", "dcdc4", "dcdc5", "dcdc6"}
axp81X_set_aldo_output == {"aldo1", "aldo2", "aldo3"}
axp81X_set_dldo_output == {"dldo1", "dldo2", "dldo3", "dldo4"}
axp81X_set_eldo_output == {"eldo1", "eldo2", "eldo3"}
axp81X_set_fldo_output == {"fldo1", "fldo2"}
axp81X_set_gpioldo_output == {"gpio0ldo", "gpio1ldo"}
axp81X_set_gpio_output == {"gpio0", "gpio1"}
axp81X_set_misc_output == {"dc5ldo", "dc1sw", "vbusen"}

(* What the two dispatchers know: a number with a type, or a name.         *)
Axp81XSetSupplyStatus ==
  axp81X_set_dcdc_output \cup axp81X_set_aldo_output \cup axp81X_set_eldo_output
    \cup axp81X_set_dldo_output \cup axp81X_set_gpioldo_output
    \cup axp81X_set_misc_output \cup axp81X_set_gpio_output

Axp81XSetSupplyStatusByName ==
  axp81X_set_dcdc_output \cup axp81X_set_aldo_output \cup axp81X_set_eldo_output
    \cup axp81X_set_fldo_output \cup axp81X_set_dldo_output
    \cup axp81X_set_gpioldo_output \cup axp81X_set_gpio_output
    \cup {"dc5ldo", "dc1sw"}

Axp81XRails ==
  [dc1sw |-> axp81X_dc1sw, dc5ldo |-> axp81X_dc5ldo, dcdc1 |-> axp81X_dcdc1,
   dcdc2 |-> axp81X_dcdc2, dcdc3 |-> axp81X_dcdc3, dcdc4 |-> axp81X_dcdc4,
   dcdc5 |-> axp81X_dcdc5, dcdc6 |-> axp81X_dcdc6, aldo1 |-> axp81X_aldo1,
   aldo2 |-> axp81X_aldo2, aldo3 |-> axp81X_aldo3, dldo1 |-> axp81X_dldo1,
   dldo2 |-> axp81X_dldo2, dldo3 |-> axp81X_dldo3, dldo4 |-> axp81X_dldo4,
   eldo1 |-> axp81X_eldo1, eldo2 |-> axp81X_eldo2, eldo3 |-> axp81X_eldo3,
   fldo1 |-> axp81X_fldo1, fldo2 |-> axp81X_fldo2, gpio0ldo |-> axp81X_gpio0ldo,
   gpio1ldo |-> axp81X_gpio1ldo, gpio0 |-> axp81X_gpio0, gpio1 |-> axp81X_gpio1,
   vbusen |-> axp81X_vbusen]

(* The regulators whose voltage a name reads back.                         *)
Axp81XProbeSupplyStatusByName == {n \in Axp81XSetSupplyStatusByName : Axp81XRails[n].probe # NoProbe}

-----------------------------------------------------------------------------
(* Drivers/AxpPower/Axp81X/Axp81X.c: charger, limits and interrupts of the *)
(* AXP81X, the chip of the phone.                                          *)

Axp81XSteps == <<Seg(200, 2800, 200, 0)>>

Axp81XSetChargerOnOff(on) == Charger({6, 7}, on)
Axp81XSetChargeCurrent(v) == ChargeCurrent(Axp81XSteps, v)
Axp81XProbeChargeCurrent(r) == ChargeCurrentOf(Axp81XSteps, r)
Axp81XSetVbusCurrentLimit(v) == VbusCurrent(v)
Axp81XProbeVbusCurrentLimit(r) == VbusCurrentOf(r)
Axp81XSetVbusVoltagelimit(v) == VbusVoltage(v)
Axp81XSetPowerOnoffVoltage(v, stage) == OffVoltage(v, stage)
Axp81XSetPowerOff == PowerOff
Axp81XSetCoulombmeterOnOff(on) == Gauge(on)
Axp81XSetNextSysMode(mode) == NextMode(mode)
Axp81XProbePreSysMode(r) == Value(r[DATA_BUFFER11])

(* Status.  Whether a battery is there is known once bit 4 is set.         *)
Axp81XProbeThisPowerOnCause(r) == PowerOnCause(r)
Axp81XProbePowerBusExistance(r) == PowerBus(r)
Axp81XProbeBatteryRatio(r) == BatteryRatio(r)
Axp81XProbeBatteryVoltage(r) == BatteryVoltage(r, \H50, \H51)
Axp81XProbeBatteryExistance(r) ==
  StatusIs(4 \in r[MODE_CHGSTATUS], {5} \cap r[MODE_CHGSTATUS])

(* The protocol's calls, by name.                                          *)
Axp81XProbeStatus(s, r) ==
  CASE s = "cause" -> Axp81XProbeThisPowerOnCause(r)
    [] s = "bus" -> Axp81XProbePowerBusExistance(r)
    [] s = "ratio" -> Axp81XProbeBatteryRatio(r)
    [] s = "voltage" -> Axp81XProbeBatteryVoltage(r)
    [] s = "battery" -> Axp81XProbeBatteryExistance(r)

Axp81XPowerProtocol(s, v) ==
  CASE s = "charger" -> Axp81XSetChargerOnOff(v)
    [] s = "current" -> Axp81XSetChargeCurrent(v)
    [] s = "vbusCurrent" -> Axp81XSetVbusCurrentLimit(v)
    [] s = "vbusVoltage" -> Axp81XSetVbusVoltagelimit(v)
    [] s = "voff" -> Axp81XSetPowerOnoffVoltage(v, 0)
    [] s = "powerOff" -> Axp81XSetPowerOff
    [] s = "sysMode" -> Axp81XSetNextSysMode(v)
    [] s = "gauge" -> Axp81XSetCoulombmeterOnOff(v)

-----------------------------------------------------------------------------
(* Drivers/AxpPower/Axp806/Axp806Supply.c: the regulators of the AXP806.   *)
(* set_dcdc4 and probe_dcdc4 disagree about the code of 1600 mV (47, 46),  *)
(* and set_cldo1..3 clear four bits of a field that is read with five.     *)

axp806_dcdc1 ==
  Rail(\H12, 7, <<Seg(600, 1110, 10, 0), Seg(1120, 1520, 20, 51)>>, \H10, 0)
axp806_dcdc2 == Rail(\H13, 5, <<Seg(1000, 2550, 50, 0)>>, \H10, 1)
axp806_dcdc3 ==
  Rail(\H14, 7, <<Seg(600, 1110, 10, 0), Seg(1120, 1520, 20, 51)>>, \H10, 2)
axp806_dcdc4 ==
  [Rail(\H15, 6, <<Seg(600, 1500, 20, 0), Seg(1600, 3300, 100, 47)>>, \H10, 3)
     EXCEPT !.probe.segs = <<Seg(600, 1500, 20, 0), Seg(1600, 3300, 100, 46)>>]
axp806_dcdc5 == [Rail(\H16, 6, <<Seg(1100, 3400, 100, 0)>>, \H10, 4)
     EXCEPT !.probe.width = 5]
axp806_aldo1 == Rail(\H17, 5, <<Seg(700, 3300, 100, 0)>>, \H10, 5)
axp806_aldo2 == Rail(\H18, 5, <<Seg(700, 3300, 100, 0)>>, \H10, 6)
axp806_aldo3 == Rail(\H19, 5, <<Seg(700, 3300, 100, 0)>>, \H10, 7)
axp806_bldo1 == Rail(\H20, 4, <<Seg(700, 1900, 100, 0)>>, \H11, 0)
axp806_bldo2 == Rail(\H21, 4, <<Seg(700, 1900, 100, 0)>>, \H11, 1)
axp806_bldo3 == Rail(\H22, 4, <<Seg(700, 1900, 100, 0)>>, \H11, 2)
axp806_bldo4 == Rail(\H23, 4, <<Seg(700, 1900, 100, 0)>>, \H11, 3)
axp806_cldo1 == [Rail(\H24, 4, <<Seg(700, 3300, 100, 0)>>, \H11, 4)
     EXCEPT !.probe.width = 5]
axp806_cldo2 ==
  [Rail(\H25, 4, <<Seg(700, 1900, 100, 0)>>, \H11, 5)
     EXCEPT !.probe.width = 5, !.probe.segs = <<Seg(700, 3400, 100, 0), Seg(3600, 4200, 200, 28)>>]
axp806_cldo3 == [Rail(\H26, 4, <<Seg(700, 1900, 100, 0)>>, \H11, 6)
     EXCEPT !.probe.width = 5]

axp806_set_dcdc_output == {"dcdc1", "dcdc2", "dcdc3", "dcdc4", "dcdc5"}
axp806_set_aldo_output == {"aldo1", "aldo2", "aldo3"}
axp806_set_bldo_output == {"bldo1", "bldo2", "bldo3", "bldo4"}
axp806_set_cldo_output == {"cldo1", "cldo2", "cldo3"}

(* What the two dispatchers know: a number with a type, or a name.         *)
Axp806SetSupplyStatus ==
  axp806_set_dcdc_output \cup axp806_set_aldo_output \cup axp806_set_bldo_output
    \cup axp806_set_cldo_output

Axp806SetSupplyStatusByName ==
  axp806_set_dcdc_output \cup axp806_set_aldo_output \cup axp806_set_bldo_output
    \cup axp806_set_cldo_output

Axp806Rails ==
  [dcdc1 |-> axp806_dcdc1, dcdc2 |-> axp806_dcdc2, dcdc3 |-> axp806_dcdc3,
   dcdc4 |-> axp806_dcdc4, dcdc5 |-> axp806_dcdc5, aldo1 |-> axp806_aldo1,
   aldo2 |-> axp806_aldo2, aldo3 |-> axp806_aldo3, bldo1 |-> axp806_bldo1,
   bldo2 |-> axp806_bldo2, bldo3 |-> axp806_bldo3, bldo4 |-> axp806_bldo4,
   cldo1 |-> axp806_cldo1, cldo2 |-> axp806_cldo2, cldo3 |-> axp806_cldo3]

(* The regulators whose voltage a name reads back.                         *)
Axp806ProbeSupplyStatusByName == {n \in Axp806SetSupplyStatusByName : Axp806Rails[n].probe # NoProbe}

-----------------------------------------------------------------------------
(* Drivers/AxpPower/Axp806/Axp806.c: the chip has no charger, no limits and*)
(* no power key; the calls for them return success and do nothing.         *)

Axp806PowerProtocol(s, v) == <<>>

(* The status calls succeed and store nothing.                             *)
Axp806ProbeStatus(s, r) == StatusIs(TRUE, {})

-----------------------------------------------------------------------------
(* Drivers/AxpPower/Axp808/Axp808Supply.c: the regulators of the AXP808, a *)
(* copy of the AXP806 with a switched output, whose probe reads the        *)
(* voltage of DCDC5.                                                       *)

Axp808_dcdc1 ==
  Rail(\H12, 7, <<Seg(600, 1110, 10, 0), Seg(1120, 1520, 20, 51)>>, \H10, 0)
Axp808_dcdc2 == Rail(\H13, 5, <<Seg(1000, 2550, 50, 0)>>, \H10, 1)
Axp808_dcdc3 ==
  Rail(\H14, 7, <<Seg(600, 1110, 10, 0), Seg(1120, 1520, 20, 51)>>, \H10, 2)
Axp808_dcdc4 ==
  [Rail(\H15, 6, <<Seg(600, 1500, 20, 0), Seg(1600, 3300, 100, 47)>>, \H10, 3)
     EXCEPT !.probe.segs = <<Seg(600, 1500, 20, 0), Seg(1600, 3300, 100, 46)>>]
Axp808_dcdc5 == [Rail(\H16, 6, <<Seg(1100, 3400, 100, 0)>>, \H10, 4)
     EXCEPT !.probe.width = 5]
Axp808_aldo1 == Rail(\H17, 5, <<Seg(700, 3300, 100, 0)>>, \H10, 5)
Axp808_aldo2 == Rail(\H18, 5, <<Seg(700, 3300, 100, 0)>>, \H10, 6)
Axp808_aldo3 == Rail(\H19, 5, <<Seg(700, 3300, 100, 0)>>, \H10, 7)
Axp808_bldo1 == Rail(\H20, 4, <<Seg(700, 1900, 100, 0)>>, \H11, 0)
Axp808_bldo2 == Rail(\H21, 4, <<Seg(700, 1900, 100, 0)>>, \H11, 1)
Axp808_bldo3 == Rail(\H22, 4, <<Seg(700, 1900, 100, 0)>>, \H11, 2)
Axp808_bldo4 == Rail(\H23, 4, <<Seg(700, 1900, 100, 0)>>, \H11, 3)
Axp808_cldo1 == [Rail(\H24, 4, <<Seg(700, 3300, 100, 0)>>, \H11, 4)
     EXCEPT !.probe.width = 5]
Axp808_cldo2 ==
  [Rail(\H25, 4, <<Seg(700, 1900, 100, 0)>>, \H11, 5)
     EXCEPT !.probe.width = 5, !.probe.segs = <<Seg(700, 3400, 100, 0), Seg(3600, 4200, 200, 28)>>]
Axp808_cldo3 == [Rail(\H26, 4, <<Seg(700, 1900, 100, 0)>>, \H11, 6)
     EXCEPT !.probe.width = 5]
Axp808_swout ==
  [Switch(\H11, 7) EXCEPT !.probe = ProbeOf(\H16, 5, <<Seg(1100, 3400, 100, 0)>>, {})]

Axp808_set_dcdc_output == {"dcdc1", "dcdc2", "dcdc3", "dcdc4", "dcdc5"}
Axp808_set_aldo_output == {"aldo1", "aldo2", "aldo3"}
Axp808_set_bldo_output == {"bldo1", "bldo2", "bldo3", "bldo4"}
Axp808_set_cldo_output == {"cldo1", "cldo2", "cldo3"}

(* What the two dispatchers know: a number with a type, or a name.         *)
Axp808SetSupplyStatus ==
  Axp808_set_dcdc_output \cup Axp808_set_aldo_output \cup Axp808_set_bldo_output
    \cup Axp808_set_cldo_output

Axp808SetSupplyStatusByName ==
  Axp808_set_dcdc_output \cup Axp808_set_aldo_output \cup Axp808_set_bldo_output
    \cup Axp808_set_cldo_output \cup {"swout"}

Axp808Rails ==
  [dcdc1 |-> Axp808_dcdc1, dcdc2 |-> Axp808_dcdc2, dcdc3 |-> Axp808_dcdc3,
   dcdc4 |-> Axp808_dcdc4, dcdc5 |-> Axp808_dcdc5, aldo1 |-> Axp808_aldo1,
   aldo2 |-> Axp808_aldo2, aldo3 |-> Axp808_aldo3, bldo1 |-> Axp808_bldo1,
   bldo2 |-> Axp808_bldo2, bldo3 |-> Axp808_bldo3, bldo4 |-> Axp808_bldo4,
   cldo1 |-> Axp808_cldo1, cldo2 |-> Axp808_cldo2, cldo3 |-> Axp808_cldo3,
   swout |-> Axp808_swout]

(* The regulators whose voltage a name reads back.                         *)
Axp808ProbeSupplyStatusByName == {n \in Axp808SetSupplyStatusByName : Axp808Rails[n].probe # NoProbe}

-----------------------------------------------------------------------------
(* Drivers/AxpPower/Axp808/Axp808.c: the chip has no charger, no limits and*)
(* no power key; the calls for them return success and do nothing.         *)

Axp808PowerProtocol(s, v) == <<>>

(* The status calls succeed and store nothing.                             *)
Axp808ProbeStatus(s, r) == StatusIs(TRUE, {})

=============================================================================
