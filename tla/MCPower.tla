------------------------------- MODULE MCPower -------------------------------
(***************************************************************************)
(* The regulators and settings of the power chips, and their interrupt     *)
(* registers, over the same bus.  They share no variable, and no call      *)
(* reads both the enable and the status registers: a behaviour is about    *)
(* one part while the others stand still, so that the parts' states add up *)
(* and do not multiply.                                                    *)
(***************************************************************************)
EXTENDS AxpPower, AxpInterrupts

VARIABLE part

MCCalls == [c \in Chips |-> IF c = "Axp81X" THEN 2 ELSE 1]
MCRegs == {{}, Byte}
MCVersions == {{0, 6}, {1, 6}, {6}}
MCMasks == {{"VBUS_INSERT", "SHORT_KEY_PRESS"}, {"AC_REMOVE", "VBUS_INSERT", "CHARGE_DONE"}}

(* A failed read gives an error code: -1, or one whose low byte is 0.      *)
MCGarbage == {{}, Byte}

(* Where the part that stands still begins.                                *)
SupplyRests == chip = "Axp81X" /\ regs[CHARGE1] = {}
InterruptsRest == dev = "Axp81X" /\ version = {6}

MCInit ==
  /\ Init /\ IntInit
  /\ \/ part = "supply" /\ InterruptsRest
     \/ part \in {"enables", "pending"} /\ (version \in Chip.probe \/ dev = "Axp81X") /\ SupplyRests

(* Bound: the status registers that one call does not read right, and the  *)
(* enable registers that were so written (no source is bit 7).             *)
MaxMisread == 1
Misread == misread \cup {j \in IntRegs : 7 \in inten[j]}

MCNext ==
  \/ part = "supply" /\ Next /\ UNCHANGED <<part, intVars>>
  \/ /\ part = "enables" /\ IntNext /\ pc'.for # "pending" /\ Cardinality(Misread') <= MaxMisread
     /\ UNCHANGED <<part, vars, sts>>
  \/ /\ part = "pending" /\ IntNext /\ Cardinality(Misread') <= MaxMisread
     /\ UNCHANGED <<part, vars, inten>>

MCSpec == MCInit /\ [][MCNext]_<<part, vars, intVars>>
=============================================================================
