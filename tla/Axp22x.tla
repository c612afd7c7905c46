------------------------------- MODULE Axp22x -------------------------------
(***************************************************************************)
(* Drivers/AxpPower/Axp22x and Axp809: two chips of one family.            *)
(*                                                                         *)
(* Axp22xSupply.c: the regulators of the AXP22x.  It has no probe_         *)
(* function.                                                               *)
(***************************************************************************)
EXTENDS AxpChip

axp22_dc1sw == Switch(\H12, 7)
axp22_dc5ldo == Switch(\H10, 0)
axp22_dcdc1 == Unprobed(Rail(\H21, 8, <<Seg(1600, 3400, 100, 0)>>, \H10, 1))
axp22_dcdc2 == Unprobed(Rail(\H22, 6, <<Seg(600, 1540, 20, 0)>>, \H10, 2))
axp22_dcdc3 == Unprobed(Rail(\H23, 8, <<Seg(600, 1860, 20, 0)>>, \H10, 3))
axp22_dcdc4 == Unprobed(Rail(\H24, 8, <<Seg(600, 1540, 20, 0)>>, \H10, 4))
axp22_dcdc5 == Unprobed(Rail(\H25, 8, <<Seg(1000, 2550, 50, 0)>>, \H10, 5))
axp22_aldo1 == Unprobed(Rail(\H28, 5, <<Seg(700, 3300, 100, 0)>>, \H10, 6))
axp22_aldo2 == Unprobed(Rail(\H29, 5, <<Seg(700, 3300, 100, 0)>>, \H10, 7))
axp22_aldo3 == Unprobed(Rail(\H2A, 5, <<Seg(700, 3300, 100, 0)>>, \H13, 7))
axp22_dldo1 == Unprobed(Rail(\H15, 5, <<Seg(700, 3300, 100, 0)>>, \H12, 3))
axp22_dldo2 == Unprobed(Rail(\H16, 5, <<Seg(700, 3300, 100, 0)>>, \H12, 4))
axp22_dldo3 == Unprobed(Rail(\H17, 5, <<Seg(700, 3300, 100, 0)>>, \H12, 5))
axp22_dldo4 == Unprobed(Rail(\H18, 5, <<Seg(700, 3300, 100, 0)>>, \H12, 6))
axp22_eldo1 == Unprobed(Rail(\H19, 5, <<Seg(700, 3300, 100, 0)>>, \H12, 0))
axp22_eldo2 == Unprobed(Rail(\H1A, 5, <<Seg(700, 3300, 100, 0)>>, \H12, 1))
axp22_eldo3 == Unprobed(Rail(\H1B, 5, <<Seg(700, 3300, 100, 0)>>, \H12, 2))
axp22_gpio0ldo == Unprobed(GpioLdo(\H91, \H90, Bits(2), Bits(3)))
axp22_gpio1ldo == Unprobed(GpioLdo(\H93, \H92, Bits(2), Bits(3)))

axp22_set_dcdc_output == {"dcdc1", "dcdc2", "dcdc3", "dcdc4", "dcdc5"}
axp22_set_aldo_output == {"aldo1", "aldo2", "aldo3"}
axp22_set_dldo_output == {"dldo1", "dldo2", "dldo3", "dldo4"}
axp22_set_eldo_output == {"eldo1", "eldo2", "eldo3"}
axp22_set_gpioldo_output == {"gpio0ldo", "gpio1ldo"}
axp22_set_misc_output == {"dc5ldo", "dc1sw"}

(* What the two dispatchers know: a number with a type, or a name.         *)
Axp22xSetSupplyStatus ==
  axp22_set_dcdc_output \cup axp22_set_aldo_output \cup axp22_set_eldo_output
    \cup axp22_set_dldo_output \cup axp22_set_gpioldo_output
    \cup axp22_set_misc_output

Axp22xSetSupplyStatusByName ==
  axp22_set_dcdc_output \cup axp22_set_aldo_output \cup axp22_set_eldo_output
    \cup axp22_set_dldo_output \cup axp22_set_gpioldo_output

Axp22xRails ==
  [dc1sw |-> axp22_dc1sw, dc5ldo |-> axp22_dc5ldo, dcdc1 |-> axp22_dcdc1,
   dcdc2 |-> axp22_dcdc2, dcdc3 |-> axp22_dcdc3, dcdc4 |-> axp22_dcdc4,
   dcdc5 |-> axp22_dcdc5, aldo1 |-> axp22_aldo1, aldo2 |-> axp22_aldo2,
   aldo3 |-> axp22_aldo3, dldo1 |-> axp22_dldo1, dldo2 |-> axp22_dldo2,
   dldo3 |-> axp22_dldo3, dldo4 |-> axp22_dldo4, eldo1 |-> axp22_eldo1,
   eldo2 |-> axp22_eldo2, eldo3 |-> axp22_eldo3, gpio0ldo |-> axp22_gpio0ldo,
   gpio1ldo |-> axp22_gpio1ldo]

-----------------------------------------------------------------------------
(* Drivers/AxpPower/Axp22x/Axp22x.c: charger, limits and interrupts.  It   *)
(* has no coulomb meter call, and the power key is in the third register.  *)

Axp22xSteps == <<Seg(300, 2550, 150, 0)>>

Axp22xSetChargerOnOff(on) == Charger(1..7, on)
Axp22xSetChargeCurrent(v) == ChargeCurrent(Axp22xSteps, v)
Axp22xProbeChargeCurrent(r) == ChargeCurrentOf(Axp22xSteps, r)
Axp22xSetVbusCurrentLimit(v) == VbusCurrent(v)
Axp22xSetVbusVoltagelimit(v) == VbusVoltage(v)
Axp22xSetPowerOnoffVoltage(v, stage) == OffVoltage(v, stage)
Axp22xSetPowerOff == PowerOff
Axp22xSetNextSysMode(mode) == NextMode(mode)
Axp22xProbePreSysMode(r) == Value(r[DATA_BUFFER11])

(* Status.  Whether a battery is there is known once bit 4 is set.         *)
Axp22xProbeThisPowerOnCause(r) == PowerOnCause(r)
Axp22xProbePowerBusExistance(r) == PowerBus(r)
Axp22xProbeBatteryRatio(r) == BatteryRatio(r)
Axp22xProbeBatteryVoltage(r) == BatteryVoltage(r, \H78, \H79)
Axp22xProbeBatteryExistance(r) ==
  StatusIs(4 \in r[MODE_CHGSTATUS], {4} \cap r[MODE_CHGSTATUS])

(* The protocol's calls, by name.                                          *)
Axp22xProbeStatus(s, r) ==
  CASE s = "cause" -> Axp22xProbeThisPowerOnCause(r)
    [] s = "bus" -> Axp22xProbePowerBusExistance(r)
    [] s = "ratio" -> Axp22xProbeBatteryRatio(r)
    [] s = "voltage" -> Axp22xProbeBatteryVoltage(r)
    [] s = "battery" -> Axp22xProbeBatteryExistance(r)

Axp22xPowerProtocol(s, v) ==
  CASE s = "charger" -> Axp22xSetChargerOnOff(v)
    [] s = "current" -> Axp22xSetChargeCurrent(v)
    [] s = "vbusCurrent" -> Axp22xSetVbusCurrentLimit(v)
    [] s = "vbusVoltage" -> Axp22xSetVbusVoltagelimit(v)
    [] s = "voff" -> Axp22xSetPowerOnoffVoltage(v, 0)
    [] s = "powerOff" -> Axp22xSetPowerOff
    [] s = "sysMode" -> Axp22xSetNextSysMode(v)

-----------------------------------------------------------------------------
(* Axp809Supply.c: the regulators of the AXP809.                           *)
(* The names "gpio1" and "gpio2" set the pins 0 and 1, but the probe takes *)
(* the names "gpio0" and "gpio1", and probe_gpio1ldo reads the voltage of  *)
(* pin 0: by its own name pin 0 reads back, and pin 1 has no probe.        *)

axp809_dc1sw == Switch(\H12, 7)
axp809_dc5ldo == Switch(\H10, 0)
axp809_dcdc1 == Rail(\H21, 5, <<Seg(1600, 3400, 100, 0)>>, \H10, 1)
axp809_dcdc2 == Rail(\H22, 6, <<Seg(600, 1540, 20, 0)>>, \H10, 2)
axp809_dcdc3 == Rail(\H23, 8, <<Seg(600, 1860, 20, 0)>>, \H10, 3)
axp809_dcdc4 ==
  Rail(\H24, 6, <<Seg(600, 1540, 20, 0), Seg(1800, 2600, 100, 48)>>, \H10, 4)
axp809_dcdc5 == [Rail(\H25, 6, <<Seg(1000, 2550, 50, 0)>>, \H10, 5)
     EXCEPT !.probe.width = 5]
axp809_aldo1 == Rail(\H28, 5, <<Seg(700, 3300, 100, 0)>>, \H10, 6)
axp809_aldo2 == Rail(\H29, 5, <<Seg(700, 3300, 100, 0)>>, \H10, 7)
axp809_aldo3 == Rail(\H2A, 5, <<Seg(700, 3300, 100, 0)>>, \H12, 5)
axp809_dldo1 ==
  Rail(\H15, 5, <<Seg(700, 3499, 100, 0), Seg(3400, 4200, 200, 27)>>, \H12, 3)
axp809_dldo2 == Rail(\H16, 5, <<Seg(700, 3300, 100, 0)>>, \H12, 4)
axp809_eldo1 == Rail(\H19, 5, <<Seg(700, 3300, 100, 0)>>, \H12, 0)
axp809_eldo2 == Rail(\H1A, 5, <<Seg(700, 3300, 100, 0)>>, \H12, 1)
axp809_eldo3 == Rail(\H1B, 5, <<Seg(700, 3300, 100, 0)>>, \H12, 2)
axp809_gpio0ldo == GpioLdo(\H91, \H90, Bits(3), Bits(4))
axp809_gpio1ldo == Unprobed(GpioLdo(\H93, \H92, Bits(3), Bits(4)))
axp809_gpio4ldo == [Switch(\H30, 2) EXCEPT !.pre = <<RMW(\H8F, {4}, {})>>]

axp809_set_dcdc_output == {"dcdc1", "dcdc2", "dcdc3", "dcdc4", "dcdc5"}
axp809_set_aldo_output == {"aldo1", "aldo2", "aldo3"}
axp809_set_dldo_output == {"dldo1", "dldo2"}
axp809_set_eldo_output == {"eldo1", "eldo2", "eldo3"}
axp809_set_gpioldo_output == {"gpio0ldo", "gpio1ldo", "gpio4ldo"}
axp809_set_misc_output == {"dc5ldo", "dc1sw"}

(* What the two dispatchers know: a number with a type, or a name.         *)
Axp809SetSupplyStatus ==
  axp809_set_dcdc_output \cup axp809_set_aldo_output \cup axp809_set_eldo_output
    \cup axp809_set_dldo_output \cup axp809_set_gpioldo_output
    \cup axp809_set_misc_output

Axp809SetSupplyStatusByName ==
  axp809_set_dcdc_output \cup axp809_set_aldo_output \cup axp809_set_eldo_output
    \cup axp809_set_dldo_output \cup axp809_set_gpioldo_output
    \cup {"dc5ldo", "dc1sw"}

Axp809Rails ==
  [dc1sw |-> axp809_dc1sw, dc5ldo |-> axp809_dc5ldo, dcdc1 |-> axp809_dcdc1,
   dcdc2 |-> axp809_dcdc2, dcdc3 |-> axp809_dcdc3, dcdc4 |-> axp809_dcdc4,
   dcdc5 |-> axp809_dcdc5, aldo1 |-> axp809_aldo1, aldo2 |-> axp809_aldo2,
   aldo3 |-> axp809_aldo3, dldo1 |-> axp809_dldo1, dldo2 |-> axp809_dldo2,
   eldo1 |-> axp809_eldo1, eldo2 |-> axp809_eldo2, eldo3 |-> axp809_eldo3,
   gpio0ldo |-> axp809_gpio0ldo, gpio1ldo |-> axp809_gpio1ldo, gpio4ldo |-> axp809_gpio4ldo]

(* The regulators whose voltage a name reads back.                         *)
Axp809ProbeSupplyStatusByName == {n \in Axp809SetSupplyStatusByName : Axp809Rails[n].probe # NoProbe}

-----------------------------------------------------------------------------
(* Drivers/AxpPower/Axp809/Axp809.c: charger, limits and interrupts.       *)

Axp809Steps == <<Seg(300, 2550, 150, 0)>>

Axp809SetChargerOnOff(on) == Charger({6, 7}, on)
Axp809SetChargeCurrent(v) == ChargeCurrent(Axp809Steps, v)
Axp809ProbeChargeCurrent(r) == ChargeCurrentOf(Axp809Steps, r)
Axp809SetVbusCurrentLimit(v) == VbusCurrent(v)
Axp809ProbeVbusCurrentLimit(r) == VbusCurrentOf(r)
Axp809SetVbusVoltagelimit(v) == VbusVoltage(v)
Axp809SetPowerOnoffVoltage(v, stage) == OffVoltage(v, stage)
Axp809SetPowerOff == PowerOff
Axp809SetCoulombmeterOnOff(on) == Gauge(on)
Axp809SetNextSysMode(mode) == NextMode(mode)
Axp809ProbePreSysMode(r) == Value(r[DATA_BUFFER11])

(* Status.  Whether a battery is there is known once bit 4 is set.         *)
Axp809ProbeThisPowerOnCause(r) == PowerOnCause(r)
Axp809ProbePowerBusExistance(r) == PowerBus(r)
Axp809ProbeBatteryRatio(r) == BatteryRatio(r)
Axp809ProbeBatteryVoltage(r) == BatteryVoltage(r, \H50, \H51)
Axp809ProbeBatteryExistance(r) ==
  StatusIs(4 \in r[MODE_CHGSTATUS], {5} \cap r[MODE_CHGSTATUS])

(* The protocol's calls, by name.                                          *)
Axp809ProbeStatus(s, r) ==
  CASE s = "cause" -> Axp809ProbeThisPowerOnCause(r)
    [] s = "bus" -> Axp809ProbePowerBusExistance(r)
    [] s = "ratio" -> Axp809ProbeBatteryRatio(r)
    [] s = "voltage" -> Axp809ProbeBatteryVoltage(r)
    [] s = "battery" -> Axp809ProbeBatteryExistance(r)

Axp809PowerProtocol(s, v) ==
  CASE s = "charger" -> Axp809SetChargerOnOff(v)
    [] s = "current" -> Axp809SetChargeCurrent(v)
    [] s = "vbusCurrent" -> Axp809SetVbusCurrentLimit(v)
    [] s = "vbusVoltage" -> Axp809SetVbusVoltagelimit(v)
    [] s = "voff" -> Axp809SetPowerOnoffVoltage(v, 0)
    [] s = "powerOff" -> Axp809SetPowerOff
    [] s = "sysMode" -> Axp809SetNextSysMode(v)
    [] s = "gauge" -> Axp809SetCoulombmeterOnOff(v)

=============================================================================
