---------------------------- MODULE UsbController -----------------------------
(***************************************************************************)
(* Sequences of calls of the register functions (UsbcDev, UsbcHost)        *)
(* on the controller of UsbRegs, with the controller's own events          *)
(* between two calls and inside one: between the read and the write of any *)
(* of its accesses.                                                        *)
(*                                                                         *)
(* Callers save the active endpoint, select the one they mean and restore  *)
(* the saved one (__usb_bulk_ep_reset, ep0_recv_op, ...): so does Call.    *)
(*                                                                         *)
(* A behaviour is about one group of functions: the device side, the host  *)
(* side, or the shared ones.                                               *)
(***************************************************************************)
EXTENDS UsbRegs, UsbcDev, UsbcHost

CONSTANTS Groups,       \* subset of {"dev", "host", "otg"}
          MaxUsbCalls,  \* bound: calls in a behaviour
          MaxRaised     \* bound: events of the controller

(* The endpoints of the data path exist, and EPIND has four bits.          *)
ASSUME EpsAssumption == {0, 1, 2} \subseteq Eps /\ Eps \subseteq 0..15

VARIABLES group,
          usb,          \* the registers
          told,         \* history: the maximal packet each endpoint was given
          received,     \* history: targets with a packet no call has dropped
          unseen,       \* history: changes no query has reported
          pend,         \* history: interrupts no call has cleared
          asked,        \* history: commands in force
          users,        \* history: targets that use DMA
          shared,       \* history: it was used by two, or ended by another than its user
          calls, raised

usbVars == <<group, usb, told, received, unseen, pend, asked, users, shared, calls, raised>>

DataEps == Eps \ {0}
Targets == {<<"EP0", 0>>} \cup ({"TX", "RX"} \X DataEps)
Sizes == {64, 512}     \* the full-speed and the high-speed maximal packet
NoTarget == <<"IDLE", 0>>
CallOf(f, a, prog) == [f |-> f, a |-> a, prog |-> prog]

(* The FIFOs of the two bulk endpoints: `fifo_size' bytes twice, from      *)
(* bulk_in_addr = 100 and bulk_out_addr = 100 + 2 * BULK_FIFOSIZE.         *)
BULK_FIFOSIZE == 512
bulk_in_addr == 100
bulk_out_addr == bulk_in_addr + BULK_FIFOSIZE * 2
DoubleFifo == TRUE       \* each holds two packets
usb_bulk_ep_reset(bulk_ep_max, fifo_size) ==
     USBC_SelectActiveEp(1) \o USBC_Dev_ConfigEp("BULK", "TX", DoubleFifo, bulk_ep_max % 2^11)
  \o USBC_ConfigFifo("TX", DoubleFifo, fifo_size, bulk_out_addr) \o USBC_INT_EnableEp("TX", 1)
  \o USBC_SelectActiveEp(2) \o USBC_Dev_ConfigEp("BULK", "RX", DoubleFifo, bulk_ep_max % 2^11)
  \o USBC_ConfigFifo("RX", DoubleFifo, fifo_size, bulk_in_addr) \o USBC_INT_EnableEp("RX", 2)

(* The calls of each side about a target of type t.                        *)
DevCalls(t) ==
       {CallOf("ConfigEp", n, USBC_Dev_ConfigEp(ty, t, d, n)) :
          ty \in {"ISO", "INT", "BULK"}, d \in BOOLEAN, n \in Sizes}
  \cup {CallOf("ConfigEp_Default", 0, USBC_Dev_ConfigEp_Default(t)),
        CallOf("FlushFifo", 0, USBC_Dev_FlushFifo(t)),
        CallOf("ConfigEpDma", 0, USBC_Dev_ConfigEpDma(t)),
        CallOf("ClearEpDma", 0, USBC_Dev_ClearEpDma(t)),
        CallOf("EpSendStall", 0, USBC_Dev_EpSendStall(t)),
        CallOf("EpClearStall", 0, USBC_Dev_EpClearStall(t))}
  \cup {CallOf("WriteDataStatus", 0, USBC_Dev_WriteDataStatus(t, c)) : c \in BOOLEAN}
  \cup {CallOf("ReadDataStatus", 0, USBC_Dev_ReadDataStatus(t, c)) : c \in BOOLEAN}

(* The calls about no endpoint, made with target NoTarget.                 *)
DevGeneral ==
       {CallOf("TransferMode", 0, USBC_Dev_ConfigTransferMode(ty, s)) :
          ty \in {"CTRL", "ISO", "INT", "BULK"}, s \in {"HS", "FS", "LS"}}
  \cup {CallOf("ConectSwitch", 0, USBC_Dev_ConectSwitch(on)) : on \in BOOLEAN}
  \cup {CallOf("bulk_ep_reset", n, usb_bulk_ep_reset(BULK_FIFOSIZE, n)) : n \in Sizes}
  \cup {CallOf("SetAddress", 0, USBC_Dev_SetAddress(5)),
        CallOf("SetAddress", 0, USBC_Dev_SetAddress_default),
        CallOf("IsoUpdateEnable", 0, USBC_Dev_IsoUpdateEnable),
        CallOf("ClearSetupEnd", 0, USBC_Dev_Ctrl_ClearSetupEnd)}

(* Hubs with a transaction translator for each port, and with one for all. *)
ManyTT == TRUE
OneTT == FALSE
HostCalls(t, ep) ==
       {CallOf("ConfigEp", n, USBC_Host_ConfigEp(t, ep, m, ty, DoubleFifo, n, 8)) :
          m \in {"HS", "LS"}, ty \in {"BULK", "INT"}, n \in Sizes}
  \cup {CallOf("ConfigEp_Default", 0, USBC_Host_ConfigEp_Default(t)),
        CallOf("FlushFifo", 0, USBC_Host_FlushFifo(t)),
        CallOf("ConfigEpDma", 0, USBC_Host_ConfigEpDma(t)),
        CallOf("ClearEpDma", 0, USBC_Host_ClearEpDma(t)),
        CallOf("ClearEpNakTimeOut", 0, USBC_Host_ClearEpNakTimeOut(t)),
        CallOf("ClearEpError", 0, USBC_Host_ClearEpError(t)),
        CallOf("ClearEpStall", 0, USBC_Host_ClearEpStall(t)),
        CallOf("ClearEpCSR", 0, USBC_Host_ClearEpCSR(t)),
        CallOf("StartInToken", 0, USBC_Host_StartInToken(t)),
        CallOf("StopInToken", 0, USBC_Host_StopInToken(t)),
        CallOf("Address", 0, USBC_Host_SetFunctionAddress(t, ep, 3, ManyTT, 1, 2)),
        CallOf("Address", 0, USBC_Host_SetFunctionAddress_Deafult(t, ep)),
        CallOf("Address", 0, USBC_Host_SetHubAddress(t, ep, OneTT, 1)
                             \o USBC_Host_SetHPortAddress(t, ep, 2)),
        CallOf("Address", 0, USBC_Host_SetHubAddress_Deafult(t, ep)
                             \o USBC_Host_SetHPortAddress_Deafult(t, ep)),
        CallOf("RqPktCount", 0, USBC_Host_ConfigRqPktCount(ep, 1)),
        CallOf("RqPktCount", 0, USBC_Host_ClearRqPktCount(ep))}
  \cup {CallOf("WriteDataStatus", 0, USBC_Host_WriteDataStatus(t, c)) : c \in BOOLEAN}
  \cup {CallOf("ReadDataStatus", 0, USBC_Host_ReadDataStatus(t, c)) : c \in BOOLEAN}

HostControl ==      \* these act on endpoint 0
  {CallOf("Ping", 0, USBC_Host_EnablePing), CallOf("NoPing", 0, USBC_Host_DisablePing),
   CallOf("SendSetupPkt", 0, USBC_Host_SendSetupPkt),
   CallOf("StatusAfterIn", 0, USBC_Host_SendCtrlStatus(TRUE)),
   CallOf("StartInToken", 0, USBC_Host_SendCtrlStatus(FALSE))}

HostGeneral ==
       {CallOf("TransferMode", 0, USBC_Host_ConfigTransferMode(s)) : s \in {"HS", "FS", "LS"}}
  \cup {CallOf("Port", 0, USBC_Host_ResetPort), CallOf("Port", 0, USBC_Host_ClearResetPortFlag),
        CallOf("Port", 0, USBC_Host_RusumePort), CallOf("Port", 0, USBC_Host_ClearRusumePortFlag),
        CallOf("Port", 0, USBC_Host_SuspendPort), CallOf("Session", 0, USBC_Host_StartSession),
        CallOf("Session", 0, USBC_Host_EndSession)}

OtgCalls(t, ep) ==
  {CallOf("ClearEpPending", 0, USBC_INT_ClearEpPending(t, ep)),
   CallOf("ClearEpPendingAll", 0, USBC_INT_ClearEpPendingAll(t)),
   CallOf("EnableEp", 0, USBC_INT_EnableEp(t, ep)), CallOf("DisableEp", 0, USBC_INT_DisableEp(t, ep)),
   CallOf("DisableEpAll", 0, USBC_INT_DisableEpAll(t)),
   CallOf("ConfigFifo", 0, USBC_ConfigFifo(t, FALSE, 512, 1024)),
   CallOf("ConfigFifo", 0, USBC_ConfigFifo_Default(t)),
   CallOf("SelectBus", 0, USBC_SelectBus("DMA", t, ep)), CallOf("SelectBus", 0, USBC_SelectBus("PIO", t, ep))}

OtgGeneral ==
       {CallOf("ClearMisc", 0, USBC_INT_ClearMiscPending({2})), CallOf("ClearMisc", 0, USBC_INT_ClearMiscPendingAll),
        CallOf("Misc", 0, USBC_INT_EnableUsbMiscUint({0, 2})), CallOf("Misc", 0, USBC_INT_DisableUsbMiscUint({0})),
        CallOf("Misc", 0, USBC_INT_DisableUsbMiscAll), CallOf("Test", 0, USBC_EnterMode_TestPacket),
        CallOf("Test", 0, USBC_EnterMode_Test_K), CallOf("Test", 0, USBC_EnterMode_Test_J),
        CallOf("Test", 0, USBC_EnterMode_Test_SE0_NAK), CallOf("Test", 0, USBC_EnterMode_Idle)}
  \cup {CallOf("Line", 0, p) :
          p \in {USBC_EnableIdPullUp, USBC_DisableIdPullUp, USBC_EnableDpDmPullUp, USBC_DisableDpDmPullUp,
                 USBC_EnableHosc, USBC_DisableHosc, USBC_EnableWakeIrq, USBC_DisableWakeIrq,
                 USBC_EnableVbusChange, USBC_DisableVbusChange, USBC_EnableIdChange, USBC_DisableIdChange,
                 USBC_EnableDpDmChange, USBC_DisableDpDmChange}}
  \cup {CallOf("Line", 0, USBC_ForceId(m)) : m \in {"HOST", "DEVICE", "NONE"}}
  \cup {CallOf("Line", 0, USBC_ForceVbusValid(m)) : m \in {"LOW", "HIGH", "NONE"}}
  \cup {CallOf("IsChange", ISCR.VBUS_CHANGE_DETECT, USBC_IsVbusChange),
        CallOf("IsChange", ISCR.ID_CHANGE_DETECT, USBC_IsIdChange),
        CallOf("IsChange", ISCR.DPDM_CHANGE_DETECT, USBC_IsDpDmChange)}

CallsFor(g, x) ==
  CASE g = "dev" -> IF x = NoTarget THEN DevGeneral ELSE DevCalls(x[1])
    [] g = "host" -> IF x = NoTarget THEN HostGeneral
                     ELSE HostCalls(x[1], x[2]) \cup (IF x[2] = 0 THEN HostControl ELSE {})
    [] OTHER -> IF x = NoTarget THEN OtgGeneral ELSE OtgCalls(x[1], x[2])

Bracket(x, prog) ==
  IF x = NoTarget THEN prog \o USBC_SelectActiveEp(0)
  ELSE USBC_SelectActiveEp(x[2]) \o prog \o USBC_SelectActiveEp(0)

(* All calls, computed once.                                               *)
Menu ==
  [g \in Groups |-> UNION {{[x |-> x, f |-> c.f, a |-> c.a, prog |-> Bracket(x, c.prog)] :
                              c \in CallsFor(g, x)} : x \in Targets \cup {NoTarget}}]

-----------------------------------------------------------------------------
CsrOf(x) == IF x[1] = "RX" THEN "RXCSR" ELSE "TXCSR"
ReadyBit == 0        \* RX_PKT_READY in CSR0 and in RXCSR, on both sides
RequestBit == 5      \* REQ_PACKET in CSR0 and in RXCSR of the host side
Readers == {x \in Targets : x[1] # "TX"}

(* What the controller does by itself.                                     *)
NoEvent == [kind |-> "none", x |-> NoTarget]
Events(g) ==
  CASE g = "dev" -> [kind : {"packet"}, x : Readers] \cup [kind : {"sent"}, x : Targets \ Readers]
    [] g = "host" -> [kind : {"packet"}, x : Readers]
    [] OTHER -> [kind : {"change"}, x : {"ISCR"} \X Changes]
                \cup [kind : {"pending"}, x : {"INTTx"} \X Eps \cup {"INTRx"} \X DataEps]

Raise(R, e) ==
  CASE e.kind = "packet" ->
         [R EXCEPT !.e[CsrOf(e.x)][e.x[2]] =
            (IF group = "host" THEN @ \ {RequestBit} ELSE @) \cup {ReadyBit}]
    [] e.kind = "sent" -> [R EXCEPT !.e["TXCSR"][e.x[2]] = @ \ {TXCSR_D.TX_READY}]
    [] e.kind = "none" -> R
    [] OTHER -> [R EXCEPT !.c[e.x[1]] = @ \cup {e.x[2]}]

(* It answers a request only, and holds one packet at a time.              *)
Possible(R, e) ==
  e.kind = "packet" =>
    /\ ReadyBit \notin R.e[CsrOf(e.x)][e.x[2]]
    /\ group = "host" => RequestBit \in R.e[CsrOf(e.x)][e.x[2]]

(* The registers before the k-th access of prog.                           *)
Before(prog, k) == Perform(group = "host", usb, SubSeq(prog, 1, k - 1))

(* Event e comes between the read and the write of the k-th access.        *)
Disturbed(prog, k, e) ==
  LET r == Before(prog, k)
      o == prog[k]
  IN  Perform(group = "host", Put(group = "host", Raise(r, e), o, Get(r, o)),
              SubSeq(prog, k + 1, Len(prog)))

(* The k-th access writes the CSR that the event sets a bit of.            *)
Collides(prog, k, e) ==
  /\ e.kind = "packet"
  /\ prog[k].reg = CsrOf(e.x) /\ Selected(Before(prog, k), prog[k]) = e.x[2]

UsbInit ==
  /\ group \in Groups
  /\ usb = Blank
  /\ told = [x \in Targets |-> 0]
  /\ received = {} /\ unseen = {} /\ pend = {} /\ asked = {} /\ users = {}
  /\ shared = FALSE /\ calls = 0 /\ raised = 0

(* The functions that drop a received packet, by what they are for.        *)
Droppers == {"ConfigEp", "ConfigEp_Default", "FlushFifo", "ReadDataStatus", "ClearEpCSR"}
(* The ones that write a whole CSR and end what was asked of it.           *)
Enders == {"ConfigEp", "ConfigEp_Default", "FlushFifo", "ClearEpCSR"}

(* The history variables after call c, disturbed by e in its k-th access.  *)
Noted(c, k, e) ==
  LET own == IF c.f = "bulk_ep_reset" THEN {<<"TX", 1>>, <<"RX", 2>>} ELSE {c.x}
  IN
  /\ told' = [x \in Targets |->
                IF x \notin own \/ x[2] = 0 THEN told[x]
                ELSE IF c.f = "bulk_ep_reset" THEN BULK_FIFOSIZE
                ELSE IF c.f = "ConfigEp_Default" THEN 0
                ELSE IF c.f # "ConfigEp" THEN told[x]
                ELSE IF group = "host" /\ told[x] # 0 THEN -1 ELSE c.a]
  /\ received' = (received \cup (IF e.kind = "packet" /\ (k = 0 \/ ~Collides(c.prog, k, e))
                                 THEN {e.x} ELSE {}))
                 \ (IF c.f \in Droppers \cup {"bulk_ep_reset"} THEN own ELSE {})
  /\ unseen' = (unseen \cup (IF e.kind = "change" THEN {e.x[2]} ELSE {}))
               \ (IF c.f = "IsChange" THEN {c.a} ELSE {})
  /\ pend' = (pend \cup (IF e.kind = "pending" THEN {e.x} ELSE {}))
             \ (LET reg == IF c.x[1] = "RX" THEN "INTRx" ELSE "INTTx"
                IN  CASE c.f = "ClearEpPending" -> {<<reg, c.x[2]>>}
                      [] c.f = "ClearEpPendingAll" -> {reg} \X Eps
                      [] OTHER -> {})
  /\ asked' = (CASE c.f \in {"EpSendStall", "StartInToken"} -> asked \cup own
                 [] c.f \in Enders \cup {"EpClearStall", "StopInToken", "bulk_ep_reset"} -> asked \ own
                 [] OTHER -> asked)
              \ (IF group = "host" /\ e.kind = "packet" /\ (k = 0 \/ ~Collides(c.prog, k, e))
                 THEN {e.x} ELSE {})
  /\ users' = CASE c.f = "ConfigEpDma" -> users \cup (own \ {<<"EP0", 0>>})
                [] c.f = "ClearEpDma" -> users \ own
                [] OTHER -> users
  /\ shared' = (\/ shared \/ Cardinality(users') > 1
                \/ c.f = "ClearEpDma" /\ users \ own # {})

(* A function of the group is called, and nothing happens meanwhile.       *)
Call(c) ==
  /\ calls < MaxUsbCalls
  /\ usb' = Perform(group = "host", usb, c.prog)
  /\ Noted(c, 0, NoEvent)
  /\ calls' = calls + 1
  /\ UNCHANGED <<group, raised>>

(* It is called, and the controller raises e within its k-th access.       *)
CallRaced(c, k, e) ==
  /\ calls < MaxUsbCalls /\ raised < MaxRaised
  /\ Possible(Before(c.prog, k), e)
  /\ usb' = Disturbed(c.prog, k, e)
  /\ Noted(c, k, e)
  /\ calls' = calls + 1 /\ raised' = raised + 1
  /\ UNCHANGED group

(* The controller raises e between two calls.                              *)
Event(e) ==
  /\ raised < MaxRaised
  /\ Possible(usb, e)
  /\ usb' = Raise(usb, e)
  /\ Noted([f |-> "none", x |-> NoTarget, a |-> 0, prog |-> <<>>], 0, e)
  /\ raised' = raised + 1
  /\ UNCHANGED <<group, calls>>

UsbNext ==
  \/ \E c \in Menu[group] :
       \/ Call(c)
       \/ \E k \in 1..Len(c.prog), e \in Events(group) : CallRaced(c, k, e)
  \/ \E e \in Events(group) : Event(e)

UsbSpec == UsbInit /\ [][UsbNext]_usbVars

-----------------------------------------------------------------------------
(* A packet in a FIFO stays announced until a function that is meant to    *)
(* take or drop a packet of that very endpoint is called: configuring,     *)
(* stalling or flushing another endpoint, or the other direction, does not *)
(* lose it.  (A packet that arrives between the read and the write of an   *)
(* update of its own CSR is not counted: the write puts a 0 there.)        *)
PacketKept == \A x \in received : ReadyBit \in usb.e[CsrOf(x)][x[2]]

(* The maximal packet in the registers of an endpoint is the one it was    *)
(* given last, whatever it was given before.  On the host side, where the  *)
(* functions OR it in, only after ConfigEp_Default.                        *)
MaxpExact ==
  \A x \in Targets \ {<<"EP0", 0>>} :
    told[x] # -1 =>
      Value(usb.e[IF x[1] = "TX" THEN "TXMAXP" ELSE "RXMAXP"][x[2]] \cap 0..10) = told[x]

(* The controller moves data by DMA exactly while an endpoint uses it: the *)
(* one bit for all endpoints is right as long as one at a time uses DMA and*)
(* its user ends the use.                                                  *)
BusSelected ==
  group = "dev" /\ ~shared => (VEND0.BUS_SEL \in usb.c["VEND0"] <=> users # {})

(* A stall (device side) or a request for a packet (host side) stays in    *)
(* force at its endpoint until a function for that endpoint ends it or the *)
(* packet has come.                                                        *)
CommandSeen ==
  \A x \in Targets :
    /\ group = "dev" /\ x[1] = "TX" =>
         (TXCSR_D.SEND_STALL \in usb.e["TXCSR"][x[2]] <=> x \in asked)
    /\ group = "dev" /\ x[1] = "RX" =>
         (RXCSR_D.SEND_STALL \in usb.e["RXCSR"][x[2]] <=> x \in asked)
    /\ group = "host" /\ x \in asked /\ x[1] # "TX" /\ raised = 0 =>
         USBC_Host_IsReqPktSet(x[1], usb.e["TXCSR"][x[2]], usb.e["RXCSR"][x[2]])
    /\ group = "host" /\ x[1] = "RX" /\ x \notin asked /\ raised = 0 =>
         ~USBC_Host_IsReqPktSet("RX", {}, usb.e["RXCSR"][x[2]])

(* A change of VBUS, of the ID pin or of the data lines stays recorded     *)
(* until the query for that very change is made, although every access to  *)
(* the register rewrites all of it.                                        *)
ChangeKept == unseen \subseteq usb.c["ISCR"]

(* The interrupt of an endpoint stays pending until it is cleared by name. *)
PendingKept == \A p \in pend : p[2] \in usb.c[p[1]]

(* The two bulk FIFOs overlap neither each other nor the 64 bytes of       *)
(* endpoint 0, and lie in the controller's 8 KB: the addresses are kept in *)
(* units of eight bytes, the sizes as powers of two times eight.           *)
FifoArea(ad, sz) ==
  LET size == 2^(Value(sz \cap 0..3) + 3) * (IF 4 \in sz THEN 2 ELSE 1)
  IN  [from |-> Value(ad) * 8, to |-> Value(ad) * 8 + size]
FifoDisjoint ==
  group = "dev" /\ usb.e["RXFIFOAD"][2] # {} =>
    LET tx == FifoArea(usb.e["TXFIFOAD"][1], usb.e["TXFIFOSZ"][1])
        rx == FifoArea(usb.e["RXFIFOAD"][2], usb.e["RXFIFOSZ"][2])
    IN  /\ rx.from >= 64 /\ tx.from >= rx.to /\ tx.to <= 8192
        /\ rx.to - rx.from >= 2 * told[<<"RX", 2>>]

(* What was configured or is under way at one endpoint survives the calls  *)
(* for the other endpoints, although all share selection, DMA and pending  *)
(* registers and every update is a read and a write.                       *)
EndpointKept ==
  /\ PacketKept /\ PendingKept /\ CommandSeen
  /\ MaxpExact /\ BusSelected /\ FifoDisjoint
=============================================================================
