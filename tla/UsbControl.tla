------------------------------ MODULE UsbControl ------------------------------
(***************************************************************************)
(* Endpoint 0 in usb_base_sun50iw1p1.c: ep0_recv_op in the interrupt       *)
(* handler sunxi_usb_irq, the replies of the foreground (SunxiEp0SendData) *)
(* and the bus reset, with a host that sends SETUP packets, reads replies, *)
(* resets the bus, or is unplugged.                                        *)
(*                                                                         *)
(* The accesses to CSR0 are those of UsbcDev, on the register of           *)
(* UsbRegs.  Of the other endpoints nothing is kept here (UsbBulk).        *)
(* __usb_writecomplete polls TX_PKT_READY without a limit, also within the *)
(* interrupt handler.                                                      *)
(***************************************************************************)
EXTENDS UsbRegs, UsbcDev

CONSTANTS MaxPacketsSent,  \* bound: packets the host sends
          MaxResets,       \* bound: bus resets
          MaxReplies       \* bound: replies of the foreground

VARIABLES csr0, faddr,
          ep0fifo,       \* the packet in the FIFO, or NoPacket
          pending0,      \* bit 0 of INTTx
          resetPending,  \* the RESET bit of INTUSB
          highSpeed,     \* HIGH_SPEED_FLAG of the power register
          ep0_stage, standard_reg,
          fifo_size,
          ep0isr, ep0fg, \* where the handler and the foreground are
          setups,        \* SETUP packets posted to the event queue
          plugged,
          packetsSent, resets, replies,
          assigned,      \* history: the address the host has given
          synced,        \* history: SYNCH_FRAME requests to the interface handled
          mistaken,      \* history: SETUP packets read as data
          late           \* history: a packet came before its interrupt was cleared once more

ep0Vars == <<csr0, faddr, ep0fifo, pending0, resetPending, highSpeed, ep0_stage, standard_reg,
             fifo_size, ep0isr, ep0fg, setups, plugged, packetsSent, resets, replies, assigned,
             synced, mistaken, late>>

(* The requests ep0_recv_op tells apart: name, direction, recipient, and   *)
(* the part of wValue, wIndex and wLength that decides.  CLEAR_FEATURE     *)
(* stands for the ones that are known and have no effect: SET_FEATURE,     *)
(* SET_DESCRIPTOR, GET_CONFIGURATION and GET_INTERFACE too.                *)
USB_DT == [DEVICE |-> 1, CONFIG |-> 2, STRING |-> 3, INTERFACE |-> 4, DEVICE_QUALIFIER |-> 6]
Request(name, dir, recip, v) == [std |-> TRUE, name |-> name, dir |-> dir, recip |-> recip, v |-> v]
Zeroed == Request("GET_STATUS", "OUT", "DEVICE", 0)      \* after memset
Requests ==
  {Request("GET_STATUS", "IN", "DEVICE", n) : n \in {0, 2}}
  \cup {Request(n, "OUT", "DEVICE", 0) : n \in {"CLEAR_FEATURE", "UNKNOWN"}}
  \cup {Request("SET_ADDRESS", "OUT", "DEVICE", 133), Request("SET_ADDRESS", "OUT", "INTERFACE", 6)}
  \cup {Request("GET_DESCRIPTOR", "IN", "DEVICE", USB_DT[d]) : d \in DOMAIN USB_DT}
  \cup {Request("SET_CONFIGURATION", "OUT", "DEVICE", n) : n \in {0, 1}}
  \cup {Request("SET_INTERFACE", "OUT", "INTERFACE", n) : n \in {0, 1}}
  \cup {Request("SYNCH_FRAME", "IN", r, 0) : r \in {"INTERFACE", "DEVICE"}}
  \cup {[std |-> FALSE, name |-> "CLASS", dir |-> "OUT", recip |-> "INTERFACE", v |-> 0]}

NoPacket == [setup |-> FALSE, len |-> 0, req |-> Zeroed]
Packets == [setup : {TRUE}, len : {8}, req : Requests] \cup {[setup |-> FALSE, len |-> 7, req |-> Zeroed]}

Rx == CSR0_D.RX_PKT_READY
Tx == CSR0_D.TX_PKT_READY

(* CSR0 after the accesses of a function to it, of which there are at most *)
(* two.                                                                    *)
Csr0Access(c, o) == LandCsr(DeviceCsr.EP0, c, (c \ o.clr) \cup o.set)
Csr0After(c, prog) ==
  CASE Len(prog) = 0 -> c
    [] Len(prog) = 1 -> Csr0Access(c, prog[1])
    [] Len(prog) = 2 -> Csr0Access(Csr0Access(c, prog[1]), prog[2])

Ep0Init ==
  /\ csr0 = {} /\ faddr = 0 /\ ep0fifo = NoPacket /\ pending0 = FALSE /\ resetPending = FALSE
  /\ highSpeed \in BOOLEAN
  /\ ep0_stage = 0 /\ standard_reg = Zeroed /\ fifo_size = 512
  /\ ep0isr = "idle" /\ ep0fg = "idle" /\ setups = 0 /\ plugged = TRUE
  /\ packetsSent = 0 /\ resets = 0 /\ replies = 0
  /\ assigned = 0 /\ synced = 0 /\ mistaken = 0 /\ late = FALSE

codeVars == <<faddr, ep0_stage, standard_reg, fifo_size, ep0isr, ep0fg, setups, synced, mistaken>>

(* What a request that passes its direction and recipient tests leads to:  *)
(* a reply, an event for the application, an address, a stall, or nothing. *)
get_descriptor(v) ==
  CASE v \in {USB_DT.DEVICE, USB_DT.CONFIG} -> "send"
    [] v \in {USB_DT.STRING, USB_DT.DEVICE_QUALIFIER} -> "event"
    [] OTHER -> "none"
get_status == "send"
set_address(r) == r.v % 128
set_configuration == "none"       \* resets the bulk endpoints for wValue 1
set_interface == "none"           \* likewise, for wIndex and wValue 0
Outcome(r) ==
  CASE ~r.std -> "event"
    [] r.name = "GET_STATUS" /\ r.dir = "IN" -> get_status
    [] r.name = "SET_ADDRESS" /\ r.dir = "OUT" /\ r.recip = "DEVICE" -> "address"
    [] r.name = "GET_DESCRIPTOR" /\ r.dir = "IN" /\ r.recip = "DEVICE" -> get_descriptor(r.v)
    [] r.name = "SET_CONFIGURATION" /\ r.dir = "OUT" /\ r.recip = "DEVICE" -> set_configuration
    [] r.name = "SET_INTERFACE" /\ r.dir = "OUT" /\ r.recip = "INTERFACE" -> set_interface
    [] r.name = "SYNCH_FRAME" /\ r.dir = "IN" /\ r.recip = "INTERFACE" -> "toggle"
    [] r.name = "UNKNOWN" -> "stall"
    [] OTHER -> "none"

(* The code will clear the pending bit of EP0 without looking again: after *)
(* a packet is read, and while a reply is sent.                            *)
AboutToClear ==
  \/ ep0isr \in {"readcomplete", "wait", "sent"} \/ ep0fg # "idle"
  \/ ep0isr = "dispatch" /\ Outcome(standard_reg) = "send"

(* The host sends a packet: an unread reply is dropped and SETUP_END tells *)
(* that a transfer was cut short.  The controller takes it when the last   *)
(* packet has been serviced; after a reset the host waits for 10 ms, in    *)
(* which the handler has served it.                                        *)
HostSends(p) ==
  /\ plugged /\ packetsSent < MaxPacketsSent /\ ~resetPending
  /\ Rx \notin csr0
  /\ csr0' = (csr0 \ {Tx, CSR0_D.SEND_STALL}) \cup {Rx}
             \cup (IF Tx \in csr0 THEN {CSR0_D.SETUP_END} ELSE {})
  /\ ep0fifo' = p
  /\ pending0' = TRUE
  /\ packetsSent' = packetsSent + 1
  /\ late' = AboutToClear
  /\ UNCHANGED <<codeVars, resetPending, highSpeed, plugged, resets, replies, assigned>>

HostReads ==
  /\ plugged /\ Tx \in csr0
  /\ csr0' = csr0 \ {Tx}
  /\ pending0' = TRUE
  /\ UNCHANGED <<codeVars, ep0fifo, resetPending, highSpeed, plugged, packetsSent, resets, replies,
                 assigned, late>>

HostResets ==
  /\ plugged /\ resets < MaxResets
  /\ csr0' = {} /\ ep0fifo' = NoPacket /\ resetPending' = TRUE
  /\ highSpeed' \in BOOLEAN
  /\ resets' = resets + 1
  /\ assigned' = 0 /\ late' = FALSE
  /\ UNCHANGED <<codeVars, pending0, plugged, packetsSent, replies>>

Unplug ==
  /\ plugged /\ plugged' = FALSE
  /\ UNCHANGED <<csr0, codeVars, ep0fifo, pending0, resetPending, highSpeed, packetsSent, resets,
                 replies, assigned, late>>

hostKept == <<ep0fifo, highSpeed, plugged, packetsSent, resets, late>>

-----------------------------------------------------------------------------

(* The bus reset: USBC_Dev_SetAddress_default writes 0.                    *)
IrqReset ==
  /\ ep0isr = "idle" /\ resetPending
  /\ resetPending' = FALSE /\ pending0' = FALSE
  /\ faddr' = 0
  /\ UNCHANGED <<hostKept, csr0, ep0_stage, standard_reg, fifo_size, ep0isr, ep0fg, setups,
                 replies, assigned, synced, mistaken>>

(* The interrupt of endpoint 0 is cleared before ep0_recv_op looks.        *)
IrqEp0 ==
  /\ ep0isr = "idle" /\ ~resetPending /\ pending0
  /\ pending0' = FALSE /\ ep0isr' = "recv"
  /\ UNCHANGED <<hostKept, csr0, faddr, resetPending, ep0_stage, standard_reg, fifo_size, ep0fg,
                 setups, replies, assigned, synced, mistaken>>

(* __usb_read_ep0_data: a first packet that is not of eight bytes is an    *)
(* error, and stays where it is; in the other stage it is data.            *)
read_ep0_data(data_type) == data_type # 0 \/ ep0fifo.len = 8

(* ep0_recv_op up to the read of the packet.                               *)
Ep0Recv ==
  /\ ep0isr = "recv"
  /\ LET ended == IF USBC_Dev_Ctrl_IsSetupEnd(csr0)
                  THEN Csr0After(csr0, USBC_Dev_Ctrl_ClearSetupEnd) ELSE csr0
         reg == IF ep0_stage = 0 THEN Zeroed ELSE standard_reg
     IN
     \/ /\ USBC_Dev_IsReadDataReady("EP0", ended, {}) /\ read_ep0_data(ep0_stage)
        /\ csr0' = Csr0After(ended, USBC_Dev_ReadDataStatus("EP0", TRUE))
        /\ standard_reg' = IF ep0_stage = 0 THEN ep0fifo.req ELSE reg
        /\ mistaken' = mistaken + (IF ep0_stage # 0 /\ ep0fifo.setup THEN 1 ELSE 0)
        /\ assigned' = IF ep0_stage = 0 /\ ep0fifo.req.name = "SET_ADDRESS"
                          /\ ep0fifo.req.recip = "DEVICE"
                       THEN ep0fifo.req.v % 128 ELSE assigned
        /\ ep0isr' = "readcomplete"
        /\ UNCHANGED <<ep0fifo, late>>
     \/ /\ ~(USBC_Dev_IsReadDataReady("EP0", ended, {}) /\ read_ep0_data(ep0_stage))
        /\ csr0' = ended /\ standard_reg' = reg /\ ep0isr' = "idle"
        /\ UNCHANGED <<assigned, mistaken, ep0fifo, late>>
  /\ UNCHANGED <<faddr, pending0, resetPending, highSpeed, ep0_stage, fifo_size, ep0fg, setups,
                 plugged, packetsSent, resets, replies, synced>>

(* The rest of __usb_readcomplete and of __usb_writecomplete.              *)
Complete(c) == Csr0After(c, USBC_Dev_Ctrl_ClearSetupEnd)

readcomplete ==
  /\ ep0isr = "readcomplete"
  /\ csr0' = Complete(csr0)
  /\ pending0' = FALSE
  /\ ep0isr' = "dispatch"
  /\ UNCHANGED <<hostKept, faddr, resetPending, ep0_stage, standard_reg, fifo_size, ep0fg, setups,
                 replies, assigned, synced, mistaken>>

(* Mutant: the stage is not left after the data packet.                    *)
MutNextStage(o) == CASE o = "toggle" -> 1 [] o = "stall" -> 0 [] OTHER -> ep0_stage
NextStage(o) == CASE o = "toggle" -> 1 - ep0_stage [] o = "stall" -> 0 [] OTHER -> ep0_stage

(* Mutant: the interrupt is cleared once more at the end.                  *)
MutEp0RecvOp ==
  /\ ep0isr = "dispatch"
  /\ LET o == Outcome(standard_reg)
     IN  /\ csr0' = CASE o = "send" -> Csr0After(csr0, USBC_Dev_WriteDataStatus("EP0", TRUE))
                      [] o = "stall" -> Csr0After(csr0, USBC_Dev_EpSendStall("EP0"))
                      [] OTHER -> csr0
         /\ faddr' = IF o = "address" THEN set_address(standard_reg) ELSE faddr
         /\ fifo_size' = IF o # "address" THEN fifo_size ELSE IF highSpeed THEN 512 ELSE 64
         /\ setups' = IF o = "event" THEN setups + 1 ELSE setups
         /\ synced' = IF o = "toggle" /\ ep0_stage = 0 THEN synced + 1 ELSE synced
         /\ ep0_stage' = NextStage(o)
         /\ ep0isr' = IF o = "send" THEN "wait" ELSE "idle"
  /\ pending0' = FALSE
  /\ UNCHANGED <<hostKept, resetPending, standard_reg, ep0fg, replies, assigned, mistaken>>

(* The switch of ep0_recv_op.                                              *)
ep0_recv_op ==
  /\ ep0isr = "dispatch"
  /\ LET o == Outcome(standard_reg)
     IN  /\ csr0' = CASE o = "send" -> Csr0After(csr0, USBC_Dev_WriteDataStatus("EP0", TRUE))
                      [] o = "stall" -> Csr0After(csr0, USBC_Dev_EpSendStall("EP0"))
                      [] OTHER -> csr0
         /\ faddr' = IF o = "address" THEN set_address(standard_reg) ELSE faddr
         /\ fifo_size' = IF o # "address" THEN fifo_size ELSE IF highSpeed THEN 512 ELSE 64
         /\ setups' = IF o = "event" THEN setups + 1 ELSE setups
         /\ synced' = IF o = "toggle" /\ ep0_stage = 0 THEN synced + 1 ELSE synced
         /\ ep0_stage' = NextStage(o)
         /\ ep0isr' = IF o = "send" THEN "wait" ELSE "idle"
  /\ UNCHANGED <<hostKept, pending0, resetPending, standard_reg, ep0fg, replies, assigned, mistaken>>

(* Mutant: it polls for the start of the transmission.                     *)
MutWritecomplete ==
  /\ \/ ep0isr = "wait" /\ USBC_Dev_IsWriteDataReady("EP0", csr0)
        /\ ep0isr' = "sent" /\ UNCHANGED <<csr0, pending0>>
     \/ ep0isr = "sent" /\ csr0' = Complete(csr0) /\ pending0' = FALSE /\ ep0isr' = "idle"
  /\ UNCHANGED <<hostKept, faddr, resetPending, ep0_stage, standard_reg, fifo_size, ep0fg, setups,
                 replies, assigned, synced, mistaken>>

(* __usb_writecomplete within the handler: the polling ends, then the rest.*)
writecomplete ==
  /\ \/ ep0isr = "wait" /\ ~USBC_Dev_IsWriteDataReady("EP0", csr0)
        /\ ep0isr' = "sent" /\ UNCHANGED <<csr0, pending0>>
     \/ ep0isr = "sent" /\ csr0' = Complete(csr0) /\ pending0' = FALSE /\ ep0isr' = "idle"
  /\ UNCHANGED <<hostKept, faddr, resetPending, ep0_stage, standard_reg, fifo_size, ep0fg, setups,
                 replies, assigned, synced, mistaken>>

(* The application answers a request it was told of; the handler may       *)
(* interrupt it anywhere.                                                  *)
sunxi_udc_send_setup ==
  /\ ep0isr = "idle"
  /\ \/ /\ ep0fg = "idle" /\ setups > 0 /\ replies < MaxReplies
        /\ csr0' = Csr0After(csr0, USBC_Dev_WriteDataStatus("EP0", TRUE))
        /\ ep0fg' = "wait" /\ replies' = replies + 1 /\ setups' = setups - 1
        /\ late' = (late \/ Rx \in csr0)
        /\ UNCHANGED pending0
     \/ /\ ep0fg = "wait" /\ ~USBC_Dev_IsWriteDataReady("EP0", csr0)
        /\ ep0fg' = "sent"
        /\ UNCHANGED <<csr0, pending0, replies, setups, late>>
     \/ /\ ep0fg = "sent"
        /\ csr0' = Complete(csr0) /\ pending0' = FALSE /\ ep0fg' = "idle"
        /\ UNCHANGED <<replies, setups, late>>
  /\ UNCHANGED <<ep0fifo, highSpeed, plugged, packetsSent, resets, faddr, resetPending, ep0_stage,
                 standard_reg, fifo_size, ep0isr, assigned, synced, mistaken>>

(* SetEndpointStallState passes the index of the endpoint as its type: 1   *)
(* is endpoint 0, and 0 no type at all.  (2 and 3 are TXCSR and RXCSR of   *)
(* the active endpoint.)                                                   *)
SunxiSetEndpointStallState(EndpointIndex, State) ==
  /\ ep0isr = "idle" /\ ep0fg = "idle"
  /\ LET type == <<"IDLE", "EP0">>[EndpointIndex + 1]
     IN  csr0' = Csr0After(csr0, IF State THEN USBC_Dev_EpSendStall(type)
                                 ELSE USBC_Dev_EpClearStall(type))
  /\ UNCHANGED <<hostKept, pending0, resetPending, replies, codeVars, assigned>>

Handler == IrqReset \/ IrqEp0 \/ Ep0Recv \/ readcomplete \/ ep0_recv_op \/ writecomplete
Ep0Next ==
  \/ \E p \in Packets : HostSends(p)
  \/ HostReads \/ HostResets \/ Unplug
  \/ Handler \/ sunxi_udc_send_setup
  \/ \E i \in 0..1, s \in BOOLEAN : SunxiSetEndpointStallState(i, s)

Ep0Spec == Ep0Init /\ [][Ep0Next]_ep0Vars

(* The processor runs the handler and the foreground; a host that is       *)
(* plugged in reads a reply that is ready.                                 *)
Ep0Fairness == WF_ep0Vars(Handler) /\ WF_ep0Vars(sunxi_udc_send_setup) /\ WF_ep0Vars(HostReads)

-----------------------------------------------------------------------------
(* ep0_stage survives a bus reset, so that the first SETUP packet after it *)
(* can be read as data; but at most one for each SYNCH_FRAME request: the  *)
(* handler never stays in the data stage.                                  *)
StageLeft == mistaken <= synced

(* A packet that waits in the FIFO of endpoint 0 while the handler is idle *)
(* has its interrupt pending, unless it came while the code was sending a  *)
(* reply or completing a read (both clear that interrupt at their end), or *)
(* the handler has looked and left it for its length.                      *)
SetupServed ==
  Rx \in csr0 /\ ep0isr = "idle" /\ ~late /\ (ep0_stage # 0 \/ ep0fifo.len = 8) =>
    pending0 \/ resetPending

(* The device answers to the address the host gave it last, 0 after a bus  *)
(* reset, even when the reset comes while the handler is about to set the  *)
(* address.                                                                *)
AddressCurrent == ep0isr = "idle" /\ ~resetPending => faddr = assigned

(* Stage and address follow the host through resets at any moment.         *)
Ep0Follows == StageLeft /\ AddressCurrent

(* The handler does not poll for ever as long as the host is plugged in:   *)
(* its wait in __usb_writecomplete has no limit of its own.                *)
HandlerReturns == [](ep0isr = "wait" => <>(ep0isr = "idle" \/ ~plugged))
=============================================================================
