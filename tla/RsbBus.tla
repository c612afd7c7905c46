------------------------------- MODULE RsbBus --------------------------------
(***************************************************************************)
(* Drivers/Rsb and Drivers/SmBusDxe (the same code twice): what an access  *)
(* to a register of the power chip does, from AxpPmBusRead and             *)
(* AxpPmBusWrite through SmbusExecute, which accepts the block operations  *)
(* the drivers use, down to SunxiRsbRead and SunxiRsbWrite.  gSecureAccess *)
(* is 1 and never assigned: every access is made by the secure firmware    *)
(* (external), and the controller's own code is never reached.             *)
(*                                                                         *)
(* SunxiRsbReadSecureOS casts the firmware's answer to UINT8 before it     *)
(* tests whether it is negative: a read never fails, and one that the      *)
(* firmware could not make returns the low byte of an error code, with     *)
(* success.  A write that is reported as failed may have reached the chip. *)
(*                                                                         *)
(* Axp22xPmBusRead and Axp22xPmBusWrite leave the address of the chip out  *)
(* of their buffer, so that SmbusExecute takes the byte behind the register*)
(* for the register.  The AXP22x is modelled as if they filled the buffer  *)
(* as the other four chips' functions do.                                  *)
(***************************************************************************)
EXTENDS Integers

CONSTANT Garbage   \* the bytes that a read the firmware failed may give

(* A byte is the set of its bits that are 1.                               *)
ASSUME GarbageAssumption == Garbage \subseteq SUBSET (0..7)

(* What the read of a register that holds the byte b may return.           *)
SunxiRsbRead(b) == {b} \cup Garbage
AxpPmBusRead(b) == SunxiRsbRead(b)

(* What a write of new leaves in a register that holds old, and the status.*)
SunxiRsbWrite(old, new) ==
  {<<new, "success">>} \cup ({old, new} \X {"device_error"})
AxpPmBusWrite(old, new) == SunxiRsbWrite(old, new)

FailedWrite(old, new) == {w[1] : w \in {u \in AxpPmBusWrite(old, new) : u[2] # "success"}}
=============================================================================
