--------------------------- MODULE MCUsbController ----------------------------
(***************************************************************************)
(* The register functions, endpoint 0, and the start and stop of the       *)
(* driver: a behaviour is about one of them while the others stand still.  *)
(***************************************************************************)
EXTENDS UsbController, UsbControl, UsbLifecycle

VARIABLE part

MCInit ==
  /\ UsbInit /\ Ep0Init /\ Init
  /\ \/ part = "calls" /\ highSpeed
     \/ part = "ep0" /\ group = "dev"
     \/ part = "life" /\ highSpeed /\ group = "dev"

MCNext ==
  \/ part = "calls" /\ UsbNext /\ UNCHANGED <<part, ep0Vars, vars>>
  \/ part = "ep0" /\ Ep0Next /\ UNCHANGED <<part, usbVars, vars>>
  \/ part = "life" /\ Next /\ UNCHANGED <<part, usbVars, ep0Vars>>

MCSpec == MCInit /\ [][MCNext]_<<part, usbVars, ep0Vars, vars>> /\ (part = "ep0" => Ep0Fairness)
=============================================================================
