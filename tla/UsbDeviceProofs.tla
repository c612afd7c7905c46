--------------------------- MODULE UsbDeviceProofs ----------------------------
(***************************************************************************)
(* Proofs about the two parts of usb_base: the control endpoint            *)
(* (UsbControl), for any number of packets, bus resets and replies of the  *)
(* application, and the life cycle of the controller (UsbLifecycle), for a *)
(* channel table of any size above two, any number of buffers and a client *)
(* that stops before it starts again.                                      *)
(***************************************************************************)
EXTENDS UsbControl, UsbLifecycle, TLAPS

(* The bits of CSR0 that can be read as 1: no command bit.                 *)
Readable == {0, 1, 2, 4, 5}

IsrSteps == {"idle", "recv", "readcomplete", "dispatch", "wait", "sent"}
FgSteps == {"idle", "wait", "sent"}

BitType == csr0 \in SUBSET Readable
PacketType == ep0fifo \in Packets \cup {NoPacket} /\ standard_reg \in Requests \cup {Zeroed}
StepType == ep0isr \in IsrSteps /\ ep0fg \in FgSteps
FlagType == pending0 \in BOOLEAN /\ resetPending \in BOOLEAN /\ late \in BOOLEAN
CountType == ep0_stage \in {0, 1} /\ mistaken \in Nat /\ synced \in Nat
Ep0Type == BitType /\ PacketType /\ StepType /\ FlagType /\ CountType

(* A reset empties endpoint 0, and the host waits until it is served.      *)
ResetEmpties == resetPending => 0 \notin csr0

(* A packet whose interrupt the code is about to clear is a late one.      *)
LateSeen == AboutToClear /\ 0 \in csr0 => late

(* Any other packet is still announced, is being looked at, or was left    *)
(* for its length.                                                         *)
Announced ==
  0 \in csr0 /\ ~late =>
    pending0 \/ ep0isr = "recv" \/ (ep0isr = "idle" /\ ep0_stage = 0 /\ ep0fifo.len # 8)

(* The data stage belongs to a SYNCH_FRAME request; each one allows one    *)
(* packet to be taken for data.                                            *)
StageOwned ==
  /\ mistaken <= synced
  /\ ep0_stage = 1 =>
       /\ Outcome(standard_reg) = "toggle"
       /\ ep0isr \notin {"wait", "sent"}
       /\ ep0isr \in {"idle", "recv"} => mistaken + 1 <= synced

(* The address is the one the host gave, or the one the handler is about   *)
(* to write; while a reset is unserved the host has given none.            *)
AddressKnown ==
  IF resetPending THEN assigned = 0
  ELSE IF ep0isr \in {"readcomplete", "dispatch"} /\ Outcome(standard_reg) = "address"
  THEN assigned = standard_reg.v % 128
  ELSE faddr = assigned

Ep0Inv == Ep0Type /\ ResetEmpties /\ LateSeen /\ Announced /\ StageOwned /\ AddressKnown
-----------------------------------------------------------------------------
(* What an access makes of CSR0: RX_PKT_READY is only ever cleared by      *)
(* SERVICED_RX_PKT_READY or a flush.                                       *)
LEMMA AccessFacts ==
  ASSUME NEW c \in SUBSET Readable, NEW clr, NEW set \in SUBSET (0..8), 8 \notin set,
         NEW o, o.clr = clr, o.set = set
  PROVE  /\ Csr0Access(c, o) \in SUBSET Readable
         /\ 6 \notin set => (0 \in Csr0Access(c, o) <=> 0 \in c)
         /\ 6 \in set => 0 \notin Csr0Access(c, o)
<1> DEFINE v == (c \ clr) \cup set
<1>1. v \subseteq 0..8 /\ 8 \notin v /\ (6 \in v <=> 6 \in set)
  <2>1. c \subseteq 0..8 /\ 8 \notin c /\ 6 \notin c BY DEF Readable
  <2> QED BY <2>1
<1>2. Csr0Access(c, o) =
        (((c \cap {0, 4}) \cup (c \cap {2} \cap v) \cup ((c \cup v) \cap {1}))
          \ ((IF 8 \in v THEN {2} \cup {1} \cup {0, 4} ELSE {})
             \cup ((IF 6 \in v THEN {0} ELSE {}) \cup (IF 7 \in v THEN {4} ELSE {}))))
        \cup (v \ ({0, 4} \cup {2} \cup {1} \cup {8, 7, 3, 6}))
  BY DEF Csr0Access, LandCsr, DeviceCsr, CSR0_D, Serviced
<1> HIDE DEF v
<1>3. Csr0Access(c, o) \in SUBSET Readable
  <2>1. ASSUME NEW x \in Csr0Access(c, o) PROVE x \in Readable
    <3>1. x \in c \/ x \in {1} \/ (x \in v /\ x \notin {0, 4, 2, 1, 8, 7, 3, 6}) BY <1>2, <2>1
    <3>2. x \in 0..8 /\ x \notin {0, 4, 2, 1, 8, 7, 3, 6} => x = 5 OBVIOUS
    <3> QED BY <1>1, <3>1, <3>2 DEF Readable
  <2> QED BY <2>1
<1>4. 6 \notin v /\ 8 \notin v => (0 \in Csr0Access(c, o) <=> 0 \in c) BY <1>2
<1>5. 6 \in v => 0 \notin Csr0Access(c, o) BY <1>2
<1> QED BY <1>1, <1>3, <1>4, <1>5

(* The programs that leave a packet in the FIFO.                           *)
Keeping ==
  {<<>>, USBC_Dev_Ctrl_ClearSetupEnd, USBC_Dev_WriteDataStatus("EP0", TRUE)}
  \cup {USBC_Dev_EpSendStall(t) : t \in {"IDLE", "EP0"}}
  \cup {USBC_Dev_EpClearStall(t) : t \in {"IDLE", "EP0"}}

(* They leave RX_PKT_READY as it is.                                       *)
LEMMA KeepingFacts ==
  ASSUME NEW c \in SUBSET Readable, NEW prog \in Keeping
  PROVE  Csr0After(c, prog) \in SUBSET Readable /\ (0 \in Csr0After(c, prog) <=> 0 \in c)
<1> DEFINE One(clr, set) == <<[reg |-> CSR0, ep |-> Here, clr |-> clr, set |-> set]>>
<1>1. \/ prog = <<>> \/ prog = One({}, {7}) \/ prog = One(All, {1, 3}) \/ prog = One({}, {5})
      \/ prog = <<[reg |-> CSR0, ep |-> Here, clr |-> {5}, set |-> {}],
                  [reg |-> CSR0, ep |-> Here, clr |-> {2}, set |-> {}]>>
  BY DEF Keeping, USBC_Dev_Ctrl_ClearSetupEnd, USBC_Dev_WriteDataStatus,
     USBC_Dev_WriteDataComplete, USBC_Dev_EpSendStall, USBC_Dev_EpClearStall, Switch,
     USBC_Dev_ep0_ClearSetupEnd, USBC_Dev_ep0_WriteDataComplete, USBC_Dev_ep0_SendStall,
     USBC_Dev_ep0_ClearStall, set_bit, clear_bit, Write, Update, CSR0_D
<1>2. CASE prog = <<>>
  BY <1>2 DEF Csr0After
<1>3. ASSUME NEW clr, NEW set \in SUBSET (0..8), 6 \notin set, 8 \notin set,
             prog = One(clr, set)
      PROVE  Csr0After(c, prog) \in SUBSET Readable /\ (0 \in Csr0After(c, prog) <=> 0 \in c)
  <2>1. Csr0After(c, prog) = Csr0Access(c, prog[1]) BY <1>3 DEF Csr0After
  <2>2. prog[1].clr = clr /\ prog[1].set = set BY <1>3
  <2> QED BY <1>3, <2>1, <2>2, AccessFacts
<1>4. CASE prog = <<[reg |-> CSR0, ep |-> Here, clr |-> {5}, set |-> {}],
                  [reg |-> CSR0, ep |-> Here, clr |-> {2}, set |-> {}]>>
  <2>1. Csr0After(c, prog) = Csr0Access(Csr0Access(c, prog[1]), prog[2])
    BY <1>4 DEF Csr0After
  <2>2. /\ prog[1].clr = {5} /\ prog[1].set = {}
        /\ prog[2].clr = {2} /\ prog[2].set = {}
    BY <1>4
  <2>3. Csr0Access(c, prog[1]) \in SUBSET Readable /\ (0 \in Csr0Access(c, prog[1]) <=> 0 \in c)
    BY <2>2, AccessFacts
  <2> QED BY <2>1, <2>2, <2>3, AccessFacts
<1>5. prog = One({}, {7}) \/ prog = One(All, {1, 3}) \/ prog = One({}, {5}) =>
        Csr0After(c, prog) \in SUBSET Readable /\ (0 \in Csr0After(c, prog) <=> 0 \in c)
  <2>1. {7} \in SUBSET (0..8) /\ {1, 3} \in SUBSET (0..8) /\ {5} \in SUBSET (0..8)
        /\ 6 \notin {7} /\ 6 \notin {1, 3} /\ 6 \notin {5}
        /\ 8 \notin {7} /\ 8 \notin {1, 3} /\ 8 \notin {5}
    OBVIOUS
  <2> HIDE DEF One
  <2> QED BY <1>3, <2>1
<1> QED BY <1>1, <1>2, <1>4, <1>5

(* Reading a packet to its end takes it out of the FIFO.                   *)
LEMMA ReadFacts ==
  ASSUME NEW c \in SUBSET Readable
  PROVE  /\ Csr0After(c, USBC_Dev_ReadDataStatus("EP0", TRUE)) \in SUBSET Readable
         /\ 0 \notin Csr0After(c, USBC_Dev_ReadDataStatus("EP0", TRUE))
<1> DEFINE prog == USBC_Dev_ReadDataStatus("EP0", TRUE)
<1>1. prog = <<[reg |-> CSR0, ep |-> Here, clr |-> All, set |-> {6, 3}]>>
  BY DEF USBC_Dev_ReadDataStatus, USBC_Dev_ReadDataComplete, Switch,
     USBC_Dev_ep0_ReadDataComplete, Write, Update, CSR0_D
<1> HIDE DEF prog
<1>2. Csr0After(c, prog) = Csr0Access(c, prog[1]) BY <1>1 DEF Csr0After
<1>3. PICK clr, set : prog[1].clr = clr /\ prog[1].set = set /\ set = {6, 3} BY <1>1
<1>4. set \in SUBSET (0..8) /\ 8 \notin set /\ 6 \in set BY <1>3
<1>5. Csr0After(c, prog) \in SUBSET Readable /\ 0 \notin Csr0After(c, prog)
  <2>1. ASSUME NEW o, o.clr = clr, o.set = set
        PROVE  Csr0Access(c, o) \in SUBSET Readable /\ 0 \notin Csr0Access(c, o)
    BY <1>4, <2>1, AccessFacts
  <2> QED BY <1>2, <1>3, <2>1
<1> QED BY <1>5 DEF prog

(* What ep0_recv_op makes of the requests.                                 *)
LEMMA RequestFacts ==
  /\ \A r \in Requests \cup {Zeroed} :
       /\ Outcome(r) = "address" <=> r.name = "SET_ADDRESS" /\ r.recip = "DEVICE"
       /\ Outcome(r) \in {"event", "send", "address", "none", "toggle", "stall"}
  /\ Outcome(Zeroed) # "address"
<1>1. ASSUME NEW r \in Requests \cup {Zeroed}
      PROVE  /\ Outcome(r) = "address" <=> r.name = "SET_ADDRESS" /\ r.recip = "DEVICE"
             /\ Outcome(r) \in {"event", "send", "address", "none", "toggle", "stall"}
  <2>1. r.name = "SET_ADDRESS" => r.std = TRUE /\ r.dir = "OUT"
    <3>2. CASE r \in {Request("GET_STATUS", "IN", "DEVICE", n) : n \in {0, 2}}
      BY <3>2 DEF Request
    <3>3. CASE r \in {Request(n, "OUT", "DEVICE", 0) : n \in {"CLEAR_FEATURE", "UNKNOWN"}}
      BY <3>3 DEF Request
    <3>4. CASE r \in {Request("SET_ADDRESS", "OUT", "DEVICE", 133),
                      Request("SET_ADDRESS", "OUT", "INTERFACE", 6)}
      BY <3>4 DEF Request
    <3>5. CASE r \in {Request("GET_DESCRIPTOR", "IN", "DEVICE", USB_DT[d]) : d \in DOMAIN USB_DT}
      BY <3>5 DEF Request
    <3>6. CASE r \in {Request("SET_CONFIGURATION", "OUT", "DEVICE", n) : n \in {0, 1}}
      BY <3>6 DEF Request
    <3>7. CASE r \in {Request("SET_INTERFACE", "OUT", "INTERFACE", n) : n \in {0, 1}}
      BY <3>7 DEF Request
    <3>8. CASE r \in {Request("SYNCH_FRAME", "IN", t, 0) : t \in {"INTERFACE", "DEVICE"}}
      BY <3>8 DEF Request
    <3>9. CASE r = Zeroed BY <3>9 DEF Zeroed, Request
    <3>10. CASE r \in {[std |-> FALSE, name |-> "CLASS", dir |-> "OUT", recip |-> "INTERFACE", v |-> 0]}
      BY <3>10
    <3> QED BY <3>2, <3>3, <3>4, <3>5, <3>6, <3>7, <3>8, <3>9, <3>10 DEF Requests
  <2>2. Outcome(r) \in {"event", "send", "address", "none", "toggle", "stall"}
    BY DEF Outcome, get_descriptor, get_status, set_configuration, set_interface
  <2>3. Outcome(r) = "address" <=> r.name = "SET_ADDRESS" /\ r.recip = "DEVICE"
    BY <2>1 DEF Outcome, get_descriptor, get_status, set_configuration, set_interface
  <2> QED BY <2>2, <2>3
<1>2. Outcome(Zeroed) # "address" BY <1>1 DEF Zeroed, Request
<1> QED BY <1>1, <1>2
(* The initial state satisfies the invariant.                              *)
LEMMA InvInit == Ep0Init => Ep0Inv
<1> SUFFICES ASSUME Ep0Init PROVE Ep0Inv OBVIOUS
<1>1. Ep0Type
  BY DEF Ep0Init, Ep0Type, BitType, PacketType, StepType, FlagType, CountType, Readable,
     IsrSteps, FgSteps
<1>2. ResetEmpties /\ LateSeen /\ Announced BY DEF Ep0Init, ResetEmpties, LateSeen, Announced
<1>3. StageOwned /\ AddressKnown BY DEF Ep0Init, StageOwned, AddressKnown
<1> QED BY <1>1, <1>2, <1>3 DEF Ep0Inv

(* The host's packet is announced, or late.                               *)
LEMMA HostSendsInv == Ep0Inv /\ (\E p \in Packets : HostSends(p)) => Ep0Inv'
<1> SUFFICES ASSUME Ep0Inv, (\E p \in Packets : HostSends(p)) PROVE Ep0Inv'
  OBVIOUS
<1>0. Ep0Type /\ ResetEmpties /\ LateSeen /\ Announced /\ StageOwned /\ AddressKnown
  BY DEF Ep0Inv
<1>1. Rx = 0 /\ Tx = 1 BY DEF Rx, Tx, CSR0_D
<1>2. PICK p \in Packets : HostSends(p) OBVIOUS
<1>3. late' <=> AboutToClear BY DEF HostSends
<1>4. late' \in BOOLEAN BY DEF HostSends, AboutToClear
<1>5. csr0' \in SUBSET Readable /\ 0 \in csr0' /\ ~resetPending /\ pending0' = TRUE
  BY <1>0, <1>1 DEF HostSends, Ep0Type, BitType, Readable, CSR0_D
<1>6. Ep0Type'
  <2>1. BitType'
    BY <1>5 DEF BitType
  <2>2. PacketType'
    BY <1>0 DEF HostSends, codeVars, Ep0Type, PacketType
  <2>3. StepType'
    BY <1>0 DEF HostSends, codeVars, Ep0Type, StepType
  <2>4. FlagType'
    BY <1>0, <1>4 DEF HostSends, Ep0Type, FlagType
  <2>5. CountType'
    BY <1>0 DEF HostSends, codeVars, Ep0Type, CountType
  <2> QED BY <2>1, <2>2, <2>3, <2>4, <2>5 DEF Ep0Type
<1>7. ResetEmpties'
  BY DEF HostSends, ResetEmpties
<1>8. LateSeen'
  BY DEF HostSends, codeVars, LateSeen, AboutToClear
<1>9. Announced'
  BY <1>5 DEF Announced
<1>10. StageOwned'
  BY <1>0 DEF HostSends, codeVars, StageOwned
<1>11. AddressKnown'
  BY <1>0 DEF HostSends, codeVars, AddressKnown
<1> QED BY <1>6, <1>7, <1>8, <1>9, <1>10, <1>11 DEF Ep0Inv

(* The host reads a reply.                                                 *)
LEMMA HostReadsInv == Ep0Inv /\ HostReads => Ep0Inv'
<1> SUFFICES ASSUME Ep0Inv, HostReads PROVE Ep0Inv'
  OBVIOUS
<1>0. Ep0Type /\ ResetEmpties /\ LateSeen /\ Announced /\ StageOwned /\ AddressKnown
  BY DEF Ep0Inv
<1>1. Rx = 0 /\ Tx = 1 BY DEF Rx, Tx, CSR0_D
<1>2. Ep0Type'
  <2>1. BitType' BY <1>0 DEF HostReads, Ep0Type, BitType
  <2>2. PacketType' BY <1>0 DEF HostReads, codeVars, Ep0Type, PacketType
  <2>3. StepType' BY <1>0 DEF HostReads, codeVars, Ep0Type, StepType
  <2>4. FlagType' BY <1>0 DEF HostReads, Ep0Type, FlagType
  <2>5. CountType' BY <1>0 DEF HostReads, codeVars, Ep0Type, CountType
  <2> QED BY <2>1, <2>2, <2>3, <2>4, <2>5 DEF Ep0Type
<1>3. ResetEmpties'
  BY <1>0 DEF HostReads, ResetEmpties
<1>4. LateSeen'
  BY <1>0 DEF HostReads, codeVars, LateSeen, AboutToClear
<1>5. Announced'
  BY DEF HostReads, Announced
<1>6. StageOwned'
  BY <1>0 DEF HostReads, codeVars, StageOwned
<1>7. AddressKnown'
  BY <1>0 DEF HostReads, codeVars, AddressKnown
<1> QED BY <1>2, <1>3, <1>4, <1>5, <1>6, <1>7 DEF Ep0Inv

(* A bus reset empties the endpoint.                                       *)
LEMMA HostResetsInv == Ep0Inv /\ HostResets => Ep0Inv'
<1> SUFFICES ASSUME Ep0Inv, HostResets PROVE Ep0Inv'
  OBVIOUS
<1>0. Ep0Type /\ ResetEmpties /\ LateSeen /\ Announced /\ StageOwned /\ AddressKnown
  BY DEF Ep0Inv
<1>1. Rx = 0 /\ Tx = 1 BY DEF Rx, Tx, CSR0_D
<1>2. Ep0Type'
  <2>1. BitType' BY DEF HostResets, BitType
  <2>2. PacketType' BY <1>0 DEF HostResets, codeVars, Ep0Type, PacketType
  <2>3. StepType' BY <1>0 DEF HostResets, codeVars, Ep0Type, StepType
  <2>4. FlagType' BY <1>0 DEF HostResets, Ep0Type, FlagType
  <2>5. CountType' BY <1>0 DEF HostResets, codeVars, Ep0Type, CountType
  <2> QED BY <2>1, <2>2, <2>3, <2>4, <2>5 DEF Ep0Type
<1>3. ResetEmpties'
  BY DEF HostResets, ResetEmpties
<1>4. LateSeen'
  BY DEF HostResets, LateSeen
<1>5. Announced'
  BY DEF HostResets, Announced
<1>6. StageOwned'
  BY <1>0 DEF HostResets, codeVars, StageOwned
<1>7. AddressKnown'
  BY DEF HostResets, AddressKnown
<1> QED BY <1>2, <1>3, <1>4, <1>5, <1>6, <1>7 DEF Ep0Inv

(* Nothing but the cable changes.                                          *)
LEMMA UnplugInv == Ep0Inv /\ Unplug => Ep0Inv'
<1> SUFFICES ASSUME Ep0Inv, Unplug PROVE Ep0Inv'
  OBVIOUS
<1>0. Ep0Type /\ ResetEmpties /\ LateSeen /\ Announced /\ StageOwned /\ AddressKnown
  BY DEF Ep0Inv
<1>1. Ep0Type'
  <2>1. BitType' BY <1>0 DEF Unplug, Ep0Type, BitType
  <2>2. PacketType' BY <1>0 DEF Unplug, codeVars, Ep0Type, PacketType
  <2>3. StepType' BY <1>0 DEF Unplug, codeVars, Ep0Type, StepType
  <2>4. FlagType' BY <1>0 DEF Unplug, Ep0Type, FlagType
  <2>5. CountType' BY <1>0 DEF Unplug, codeVars, Ep0Type, CountType
  <2> QED BY <2>1, <2>2, <2>3, <2>4, <2>5 DEF Ep0Type
<1>2. ResetEmpties'
  BY <1>0 DEF Unplug, ResetEmpties
<1>3. LateSeen'
  BY <1>0 DEF Unplug, codeVars, LateSeen, AboutToClear
<1>4. Announced'
  BY <1>0 DEF Unplug, codeVars, Announced
<1>5. StageOwned'
  BY <1>0 DEF Unplug, codeVars, StageOwned
<1>6. AddressKnown'
  BY <1>0 DEF Unplug, codeVars, AddressKnown
<1> QED BY <1>1, <1>2, <1>3, <1>4, <1>5, <1>6 DEF Ep0Inv

(* The handler serves the reset: no packet is there whose interrupt it     *)
(* could lose.                                                             *)
LEMMA IrqResetInv == Ep0Inv /\ IrqReset => Ep0Inv'
<1> SUFFICES ASSUME Ep0Inv, IrqReset PROVE Ep0Inv'
  OBVIOUS
<1>0. Ep0Type /\ ResetEmpties /\ LateSeen /\ Announced /\ StageOwned /\ AddressKnown
  BY DEF Ep0Inv
<1>1. Ep0Type'
  <2>1. BitType' BY <1>0 DEF IrqReset, Ep0Type, BitType
  <2>2. PacketType' BY <1>0 DEF IrqReset, hostKept, Ep0Type, PacketType
  <2>3. StepType' BY <1>0 DEF IrqReset, Ep0Type, StepType
  <2>4. FlagType' BY <1>0 DEF IrqReset, hostKept, Ep0Type, FlagType
  <2>5. CountType' BY <1>0 DEF IrqReset, Ep0Type, CountType
  <2> QED BY <2>1, <2>2, <2>3, <2>4, <2>5 DEF Ep0Type
<1>2. ResetEmpties'
  BY DEF IrqReset, ResetEmpties
<1>3. LateSeen'
  BY <1>0 DEF IrqReset, hostKept, LateSeen, AboutToClear
<1>4. Announced'
  BY <1>0 DEF IrqReset, Announced, ResetEmpties
<1>5. StageOwned'
  BY <1>0 DEF IrqReset, StageOwned
<1>6. AddressKnown'
  BY <1>0 DEF IrqReset, AddressKnown
<1> QED BY <1>1, <1>2, <1>3, <1>4, <1>5, <1>6 DEF Ep0Inv

(* The handler takes the interrupt and will look at the packet.            *)
LEMMA IrqEp0Inv == Ep0Inv /\ IrqEp0 => Ep0Inv'
<1> SUFFICES ASSUME Ep0Inv, IrqEp0 PROVE Ep0Inv'
  OBVIOUS
<1>0. Ep0Type /\ ResetEmpties /\ LateSeen /\ Announced /\ StageOwned /\ AddressKnown
  BY DEF Ep0Inv
<1>1. Ep0Type'
  <2>1. BitType' BY <1>0 DEF IrqEp0, Ep0Type, BitType
  <2>2. PacketType' BY <1>0 DEF IrqEp0, hostKept, Ep0Type, PacketType
  <2>3. StepType' BY <1>0 DEF IrqEp0, Ep0Type, StepType, IsrSteps
  <2>4. FlagType' BY <1>0 DEF IrqEp0, hostKept, Ep0Type, FlagType
  <2>5. CountType' BY <1>0 DEF IrqEp0, Ep0Type, CountType
  <2> QED BY <2>1, <2>2, <2>3, <2>4, <2>5 DEF Ep0Type
<1>2. ResetEmpties'
  BY DEF IrqEp0, ResetEmpties
<1>3. LateSeen'
  BY <1>0 DEF IrqEp0, hostKept, LateSeen, AboutToClear
<1>4. Announced'
  BY DEF IrqEp0, Announced
<1>5. StageOwned'
  BY <1>0 DEF IrqEp0, StageOwned
<1>6. AddressKnown'
  BY <1>0 DEF IrqEp0, AddressKnown
<1> QED BY <1>1, <1>2, <1>3, <1>4, <1>5, <1>6 DEF Ep0Inv

(* The end of a read: what it clears was counted as late.                  *)
LEMMA ReadcompleteInv == Ep0Inv /\ readcomplete => Ep0Inv'
<1> SUFFICES ASSUME Ep0Inv, readcomplete PROVE Ep0Inv'
  OBVIOUS
<1>0. Ep0Type /\ ResetEmpties /\ LateSeen /\ Announced /\ StageOwned /\ AddressKnown
  BY DEF Ep0Inv
<1>1. Complete(csr0) \in SUBSET Readable /\ (0 \in Complete(csr0) <=> 0 \in csr0)
  BY <1>0, KeepingFacts DEF Ep0Type, BitType, Keeping, Complete
<1>2. Ep0Type'
  <2>1. BitType' BY <1>1 DEF readcomplete, BitType
  <2>2. PacketType' BY <1>0 DEF readcomplete, hostKept, Ep0Type, PacketType
  <2>3. StepType'
    BY <1>0 DEF readcomplete, Ep0Type, StepType, IsrSteps
  <2>4. FlagType' BY <1>0 DEF readcomplete, hostKept, Ep0Type, FlagType
  <2>5. CountType' BY <1>0 DEF readcomplete, Ep0Type, CountType
  <2> QED BY <2>1, <2>2, <2>3, <2>4, <2>5 DEF Ep0Type
<1>3. ResetEmpties'
  BY <1>0, <1>1 DEF readcomplete, ResetEmpties
<1>4. LateSeen'
  BY <1>0, <1>1 DEF readcomplete, hostKept, LateSeen, AboutToClear
<1>5. Announced'
  BY <1>0, <1>1 DEF readcomplete, hostKept, Announced, LateSeen, AboutToClear
<1>6. StageOwned'
  BY <1>0 DEF readcomplete, StageOwned
<1>7. AddressKnown'
  BY <1>0 DEF readcomplete, AddressKnown
<1> QED BY <1>2, <1>3, <1>4, <1>5, <1>6, <1>7 DEF Ep0Inv

(* The request is carried out: the one stage toggled, the one address set.  *)
LEMMA DispatchInv == Ep0Inv /\ ep0_recv_op => Ep0Inv'
<1> SUFFICES ASSUME Ep0Inv, ep0_recv_op PROVE Ep0Inv'
  OBVIOUS
<1>0. Ep0Type /\ ResetEmpties /\ LateSeen /\ Announced /\ StageOwned /\ AddressKnown
  BY DEF Ep0Inv
<1>1. Outcome(standard_reg) \in {"event", "send", "address", "none", "toggle", "stall"}
  BY <1>0, RequestFacts DEF Ep0Type, PacketType
<1>2. csr0' \in SUBSET Readable /\ (0 \in csr0' <=> 0 \in csr0)
  <2>1. ASSUME NEW prog \in {USBC_Dev_WriteDataStatus("EP0", TRUE), USBC_Dev_EpSendStall("EP0")}
        PROVE  /\ Csr0After(csr0, prog) \in SUBSET Readable
               /\ 0 \in Csr0After(csr0, prog) <=> 0 \in csr0
    <3>1. prog \in Keeping BY DEF Keeping
    <3> QED BY <1>0, <3>1, KeepingFacts DEF Ep0Type, BitType
  <2> QED BY <1>0, <2>1 DEF ep0_recv_op, Ep0Type, BitType
<1>3. ep0_stage' = NextStage(Outcome(standard_reg))
      /\ faddr' = (IF Outcome(standard_reg) = "address" THEN standard_reg.v % 128 ELSE faddr)
      /\ ep0isr' = (IF Outcome(standard_reg) = "send" THEN "wait" ELSE "idle")
      /\ synced' = (IF Outcome(standard_reg) = "toggle" /\ ep0_stage = 0 THEN synced + 1 ELSE synced)
  BY DEF ep0_recv_op, set_address
<1>4. Ep0Type'
  <2>1. BitType'
    BY <1>2 DEF BitType
  <2>2. PacketType' BY <1>0 DEF ep0_recv_op, hostKept, Ep0Type, PacketType
  <2>3. StepType'
    BY <1>0 DEF ep0_recv_op, Ep0Type, StepType, IsrSteps
  <2>4. FlagType' BY <1>0 DEF ep0_recv_op, hostKept, Ep0Type, FlagType
  <2>5. CountType'
    BY <1>0 DEF ep0_recv_op, Ep0Type, CountType, NextStage
  <2> QED BY <2>1, <2>2, <2>3, <2>4, <2>5 DEF Ep0Type
<1>5. ResetEmpties'
  BY <1>0, <1>2 DEF ep0_recv_op, ResetEmpties
<1>6. LateSeen'
  BY <1>0, <1>2 DEF ep0_recv_op, hostKept, LateSeen, AboutToClear
<1>7. Announced'
  BY <1>0, <1>2 DEF ep0_recv_op, hostKept, Announced
<1>8. StageOwned'
  BY <1>0 DEF ep0_recv_op, Ep0Type, CountType, StageOwned, NextStage
<1>9. AddressKnown'
  BY <1>0, <1>3 DEF ep0_recv_op, AddressKnown
<1> QED BY <1>4, <1>5, <1>6, <1>7, <1>8, <1>9 DEF Ep0Inv

(* The reply is sent within the handler.                                   *)
LEMMA WritecompleteInv == Ep0Inv /\ writecomplete => Ep0Inv'
<1> SUFFICES ASSUME Ep0Inv, writecomplete PROVE Ep0Inv'
  OBVIOUS
<1>0. Ep0Type /\ ResetEmpties /\ LateSeen /\ Announced /\ StageOwned /\ AddressKnown
  BY DEF Ep0Inv
<1>1. Complete(csr0) \in SUBSET Readable /\ (0 \in Complete(csr0) <=> 0 \in csr0)
  BY <1>0, KeepingFacts DEF Ep0Type, BitType, Keeping, Complete
<1>2. Ep0Type'
  <2>1. BitType' BY <1>0, <1>1 DEF writecomplete, Ep0Type, BitType
  <2>2. PacketType' BY <1>0 DEF writecomplete, hostKept, Ep0Type, PacketType
  <2>3. StepType'
    BY <1>0 DEF writecomplete, Ep0Type, StepType, IsrSteps
  <2>4. FlagType' BY <1>0 DEF writecomplete, hostKept, Ep0Type, FlagType
  <2>5. CountType' BY <1>0 DEF writecomplete, Ep0Type, CountType
  <2> QED BY <2>1, <2>2, <2>3, <2>4, <2>5 DEF Ep0Type
<1>3. ResetEmpties'
  BY <1>0, <1>1 DEF writecomplete, ResetEmpties
<1>4. LateSeen'
  BY <1>0, <1>1 DEF writecomplete, hostKept, LateSeen, AboutToClear
<1>5. Announced'
  BY <1>0, <1>1 DEF writecomplete, hostKept, Announced, LateSeen, AboutToClear
<1>6. StageOwned'
  BY <1>0 DEF writecomplete, StageOwned
<1>7. AddressKnown'
  BY <1>0 DEF writecomplete, AddressKnown
<1> QED BY <1>2, <1>3, <1>4, <1>5, <1>6, <1>7 DEF Ep0Inv

(* The reply is sent by the foreground.                                    *)
LEMMA SendSetupInv == Ep0Inv /\ sunxi_udc_send_setup => Ep0Inv'
<1> SUFFICES ASSUME Ep0Inv, sunxi_udc_send_setup PROVE Ep0Inv'
  OBVIOUS
<1>0. Ep0Type /\ ResetEmpties /\ LateSeen /\ Announced /\ StageOwned /\ AddressKnown
  BY DEF Ep0Inv
<1>1. Rx = 0 /\ Tx = 1 BY DEF Rx, Tx, CSR0_D
<1>2. Complete(csr0) \in SUBSET Readable /\ (0 \in Complete(csr0) <=> 0 \in csr0)
  BY <1>0, KeepingFacts DEF Ep0Type, BitType, Keeping, Complete
<1>3. LET c == Csr0After(csr0, USBC_Dev_WriteDataStatus("EP0", TRUE))
      IN  c \in SUBSET Readable /\ (0 \in c <=> 0 \in csr0)
  BY <1>0, KeepingFacts DEF Ep0Type, BitType, Keeping
<1>4. csr0' \in SUBSET Readable /\ (0 \in csr0' <=> 0 \in csr0)
  BY <1>0, <1>2, <1>3 DEF sunxi_udc_send_setup, Ep0Type, BitType
<1>5. late' \in BOOLEAN /\ (late => late') /\ (ep0fg = "idle" /\ 0 \in csr0 => late')
  BY <1>0, <1>1 DEF sunxi_udc_send_setup, Ep0Type, FlagType
<1>6. Ep0Type'
  <2>1. BitType'
    BY <1>4 DEF BitType
  <2>2. PacketType'
    BY <1>0 DEF sunxi_udc_send_setup, Ep0Type, PacketType
  <2>3. StepType'
    BY <1>0 DEF sunxi_udc_send_setup, Ep0Type, StepType, FgSteps
  <2>4. FlagType'
    BY <1>0 DEF sunxi_udc_send_setup, Ep0Type, FlagType
  <2>5. CountType'
    BY <1>0 DEF sunxi_udc_send_setup, Ep0Type, CountType
  <2> QED BY <2>1, <2>2, <2>3, <2>4, <2>5 DEF Ep0Type
<1>7. ResetEmpties'
  BY <1>0, <1>2, <1>3 DEF sunxi_udc_send_setup, ResetEmpties
<1>8. LateSeen'
  BY <1>0, <1>4, <1>5 DEF LateSeen, AboutToClear
<1>9. Announced'
  BY <1>0, <1>4, <1>5 DEF Announced, LateSeen, AboutToClear
<1>10. StageOwned'
  BY <1>0 DEF sunxi_udc_send_setup, StageOwned
<1>11. AddressKnown'
  BY <1>0 DEF sunxi_udc_send_setup, AddressKnown
<1> QED BY <1>6, <1>7, <1>8, <1>9, <1>10, <1>11 DEF Ep0Inv

(* A stall is set or cleared: the packet and its interrupt stay.           *)
LEMMA StallInv ==
  Ep0Inv /\ (\E i \in 0..1, s \in BOOLEAN : SunxiSetEndpointStallState(i, s)) => Ep0Inv'
<1> SUFFICES ASSUME Ep0Inv, (\E i \in 0..1, s \in BOOLEAN : SunxiSetEndpointStallState(i, s))
             PROVE  Ep0Inv'
  OBVIOUS
<1>0. Ep0Type /\ ResetEmpties /\ LateSeen /\ Announced /\ StageOwned /\ AddressKnown
  BY DEF Ep0Inv
<1>1. PICK i \in 0..1, s \in BOOLEAN : SunxiSetEndpointStallState(i, s) OBVIOUS
<1>2. csr0' \in SUBSET Readable /\ (0 \in csr0' <=> 0 \in csr0)
  <2>1. PICK type \in {"IDLE", "EP0"} :
          csr0' = Csr0After(csr0, IF s THEN USBC_Dev_EpSendStall(type)
                                  ELSE USBC_Dev_EpClearStall(type))
    <3>1. i + 1 \in 1..2 /\ <<"IDLE", "EP0">>[i + 1] \in {"IDLE", "EP0"} OBVIOUS
    <3> QED BY <1>1 DEF SunxiSetEndpointStallState
  <2>2. USBC_Dev_EpSendStall(type) \in Keeping /\ USBC_Dev_EpClearStall(type) \in Keeping
    BY DEF Keeping
  <2> QED BY <1>0, <2>1, <2>2, KeepingFacts DEF Ep0Type, BitType
<1>3. Ep0Type'
  <2>1. BitType'
    BY <1>2 DEF BitType
  <2>2. PacketType'
    BY <1>0 DEF SunxiSetEndpointStallState, hostKept, codeVars, Ep0Type, PacketType
  <2>3. StepType'
    BY <1>0 DEF SunxiSetEndpointStallState, codeVars, Ep0Type, StepType
  <2>4. FlagType'
    BY <1>0 DEF SunxiSetEndpointStallState, hostKept, Ep0Type, FlagType
  <2>5. CountType'
    BY <1>0 DEF SunxiSetEndpointStallState, codeVars, Ep0Type, CountType
  <2> QED BY <2>1, <2>2, <2>3, <2>4, <2>5 DEF Ep0Type
<1>4. ResetEmpties'
  BY <1>0, <1>2 DEF SunxiSetEndpointStallState, ResetEmpties
<1>5. LateSeen'
  BY DEF SunxiSetEndpointStallState, codeVars, LateSeen, AboutToClear
<1>6. Announced'
  BY <1>0, <1>2 DEF SunxiSetEndpointStallState, hostKept, codeVars, Announced
<1>7. StageOwned'
  BY <1>0 DEF SunxiSetEndpointStallState, codeVars, StageOwned
<1>8. AddressKnown'
  BY <1>0 DEF SunxiSetEndpointStallState, codeVars, AddressKnown
<1> QED BY <1>3, <1>4, <1>5, <1>6, <1>7, <1>8 DEF Ep0Inv

(* ep0_recv_op looks at the packet.  One that is there and of the right    *)
(* length is taken out of the FIFO, and with it the address it may carry;  *)
(* any other stays, and the handler is idle again.                         *)
LEMMA Ep0RecvInv == Ep0Inv /\ Ep0Recv => Ep0Inv'
<1> SUFFICES ASSUME Ep0Inv, Ep0Recv PROVE Ep0Inv'
  OBVIOUS
<1>0. Ep0Type /\ ResetEmpties /\ LateSeen /\ Announced /\ StageOwned /\ AddressKnown
  BY DEF Ep0Inv
<1> DEFINE ended == IF USBC_Dev_Ctrl_IsSetupEnd(csr0)
                    THEN Csr0After(csr0, USBC_Dev_Ctrl_ClearSetupEnd) ELSE csr0
           reg == IF ep0_stage = 0 THEN Zeroed ELSE standard_reg
           read == Csr0After(ended, USBC_Dev_ReadDataStatus("EP0", TRUE))
<1>1. ended \in SUBSET Readable /\ (0 \in ended <=> 0 \in csr0)
  BY <1>0, KeepingFacts DEF Ep0Type, BitType, Keeping
<1>2. read \in SUBSET Readable /\ 0 \notin read BY <1>1, ReadFacts
<1>3. reg \in Requests \cup {Zeroed} BY <1>0 DEF Ep0Type, PacketType
<1>4. USBC_Dev_IsReadDataReady("EP0", ended, {}) <=> 0 \in csr0
  BY <1>1 DEF USBC_Dev_IsReadDataReady, USBC_Dev_ep0_IsReadDataReady, CSR0_D
<1>5. /\ ep0isr = "recv" /\ ep0fg' = ep0fg /\ ep0fifo' = ep0fifo /\ late' = late
      /\ faddr' = faddr /\ pending0' = pending0 /\ resetPending' = resetPending
      /\ ep0_stage' = ep0_stage /\ synced' = synced
  BY DEF Ep0Recv
<1>6. \/ /\ 0 \in csr0 /\ read_ep0_data(ep0_stage)
         /\ csr0' = read /\ ep0isr' = "readcomplete"
         /\ standard_reg' = IF ep0_stage = 0 THEN ep0fifo.req ELSE reg
         /\ mistaken' = mistaken + (IF ep0_stage # 0 /\ ep0fifo.setup THEN 1 ELSE 0)
         /\ assigned' = IF ep0_stage = 0 /\ ep0fifo.req.name = "SET_ADDRESS"
                           /\ ep0fifo.req.recip = "DEVICE"
                        THEN ep0fifo.req.v % 128 ELSE assigned
      \/ /\ ~(0 \in csr0 /\ read_ep0_data(ep0_stage))
         /\ csr0' = ended /\ ep0isr' = "idle" /\ standard_reg' = reg
         /\ assigned' = assigned /\ mistaken' = mistaken
  BY <1>4 DEF Ep0Recv
<1> HIDE DEF ended, reg, read
<1>7. StepType' /\ FlagType' BY <1>0, <1>5, <1>6 DEF Ep0Type, StepType, FlagType, IsrSteps
<1>8. BitType' BY <1>1, <1>2, <1>6 DEF BitType
<1>9. ASSUME 0 \in csr0, read_ep0_data(ep0_stage),
             csr0' = read, ep0isr' = "readcomplete",
             standard_reg' = IF ep0_stage = 0 THEN ep0fifo.req ELSE reg,
             mistaken' = mistaken + (IF ep0_stage # 0 /\ ep0fifo.setup THEN 1 ELSE 0),
             assigned' = IF ep0_stage = 0 /\ ep0fifo.req.name = "SET_ADDRESS"
                            /\ ep0fifo.req.recip = "DEVICE"
                         THEN ep0fifo.req.v % 128 ELSE assigned
      PROVE  Ep0Inv'
  <2>1. ~resetPending BY <1>0, <1>9 DEF ResetEmpties
  <2>2. ep0_stage = 0 => ep0fifo.req \in Requests
    <3>1. ep0_stage = 0 => ep0fifo.len = 8 BY <1>9 DEF read_ep0_data
    <3>2. \/ ep0fifo \in [setup : {TRUE}, len : {8}, req : Requests]
          \/ ep0fifo = [setup |-> FALSE, len |-> 7, req |-> Zeroed]
          \/ ep0fifo = [setup |-> FALSE, len |-> 0, req |-> Zeroed]
      BY <1>0 DEF Ep0Type, PacketType, Packets, NoPacket
    <3>3. ep0fifo.req \in Requests \/ ep0fifo.len = 7 \/ ep0fifo.len = 0
      <4>1. \A p \in [setup : {TRUE}, len : {8}, req : Requests] : p.req \in Requests
        BY Zenon
      <4>2. \A z : [setup |-> FALSE, len |-> 7, req |-> z].len = 7
                  /\ [setup |-> FALSE, len |-> 0, req |-> z].len = 0
        OBVIOUS
      <4> QED BY <3>2, <4>1, <4>2, Zenon
    <3> QED BY <3>1, <3>3
  <2>3. standard_reg' \in Requests \cup {Zeroed} BY <1>3, <1>9, <2>2
  <2>4. PacketType' BY <1>0, <1>5, <2>3 DEF Ep0Type, PacketType
  <2>5. CountType' BY <1>0, <1>5, <1>9 DEF Ep0Type, CountType
  <2>6. ep0_stage = 1 => standard_reg' = standard_reg BY <1>9 DEF reg
  <2>7. StageOwned'
    <3>1. mistaken' \in {mistaken, mistaken + 1} /\ (ep0_stage = 0 => mistaken' = mistaken)
      BY <1>0, <1>9 DEF Ep0Type, CountType
    <3>2. mistaken' <= synced
      BY <1>0, <1>5, <3>1 DEF StageOwned, Ep0Type, CountType
    <3>3. ep0_stage = 1 => Outcome(standard_reg') = "toggle" BY <1>0, <2>6 DEF StageOwned
    <3> QED BY <1>5, <1>9, <3>2, <3>3 DEF StageOwned
  <2>8. AddressKnown'
    <3>1. faddr = assigned BY <1>0, <1>5, <2>1 DEF AddressKnown
    <3>2. CASE ep0_stage = 0
      <4>1. Outcome(ep0fifo.req) = "address" <=>
              ep0fifo.req.name = "SET_ADDRESS" /\ ep0fifo.req.recip = "DEVICE"
        BY <2>2, <3>2, RequestFacts
      <4>2. standard_reg' = ep0fifo.req BY <1>9, <3>2
      <4> QED BY <1>5, <1>9, <2>1, <3>1, <3>2, <4>1, <4>2 DEF AddressKnown
    <3>3. CASE ep0_stage = 1
      <4>1. Outcome(standard_reg') # "address" BY <1>0, <2>6, <3>3 DEF StageOwned
      <4>2. assigned' = assigned BY <1>9, <3>3
      <4> QED BY <1>5, <1>9, <2>1, <3>1, <4>1, <4>2 DEF AddressKnown
    <3> QED BY <1>0, <3>2, <3>3 DEF Ep0Type, CountType
  <2>9. ResetEmpties' /\ LateSeen' /\ Announced'
    BY <1>2, <1>9 DEF ResetEmpties, LateSeen, Announced
  <2> QED BY <1>7, <1>8, <2>4, <2>5, <2>7, <2>8, <2>9 DEF Ep0Inv, Ep0Type
<1>10. ASSUME ~(0 \in csr0 /\ read_ep0_data(ep0_stage)),
              csr0' = ended, ep0isr' = "idle", standard_reg' = reg,
              assigned' = assigned, mistaken' = mistaken
       PROVE  Ep0Inv'
  <2>1. PacketType' BY <1>0, <1>3, <1>5, <1>10 DEF Ep0Type, PacketType
  <2>2. CountType' BY <1>0, <1>5, <1>10 DEF Ep0Type, CountType
  <2>3. ResetEmpties' BY <1>0, <1>1, <1>5, <1>10 DEF ResetEmpties
  <2>4. LateSeen'
    BY <1>0, <1>1, <1>5, <1>10 DEF LateSeen, AboutToClear
  <2>5. Announced'
    BY <1>0, <1>1, <1>5, <1>10 DEF Announced, read_ep0_data, Ep0Type, CountType
  <2>6. StageOwned' BY <1>0, <1>5, <1>10 DEF StageOwned, reg
  <2>7. AddressKnown' BY <1>0, <1>5, <1>10 DEF AddressKnown
  <2> QED BY <1>7, <1>8, <2>1, <2>2, <2>3, <2>4, <2>5, <2>6, <2>7 DEF Ep0Inv, Ep0Type
<1> QED BY <1>6, <1>9, <1>10

(* The invariant holds in every reachable state.                           *)
LEMMA Ep0Invariant == Ep0Spec => []Ep0Inv
<1>1. Ep0Inv /\ [Ep0Next]_ep0Vars => Ep0Inv'
  <2> SUFFICES ASSUME Ep0Inv, [Ep0Next]_ep0Vars PROVE Ep0Inv'
    OBVIOUS
  <2>1. CASE \E p \in Packets : HostSends(p) BY <2>1, HostSendsInv
  <2>2. CASE HostReads BY <2>2, HostReadsInv
  <2>3. CASE HostResets BY <2>3, HostResetsInv
  <2>4. CASE Unplug BY <2>4, UnplugInv
  <2>5. CASE IrqReset BY <2>5, IrqResetInv
  <2>6. CASE IrqEp0 BY <2>6, IrqEp0Inv
  <2>7. CASE Ep0Recv BY <2>7, Ep0RecvInv
  <2>8. CASE readcomplete BY <2>8, ReadcompleteInv
  <2>9. CASE ep0_recv_op BY <2>9, DispatchInv
  <2>10. CASE writecomplete BY <2>10, WritecompleteInv
  <2>11. CASE sunxi_udc_send_setup BY <2>11, SendSetupInv
  <2>12. CASE \E i \in 0..1, s \in BOOLEAN : SunxiSetEndpointStallState(i, s)
    BY <2>12, StallInv
  <2>13. CASE UNCHANGED ep0Vars
    BY <2>13 DEF ep0Vars, Ep0Inv, Ep0Type, BitType, PacketType, StepType, FlagType, CountType,
       ResetEmpties, LateSeen, AboutToClear, Announced, StageOwned, AddressKnown
  <2> QED
    BY <2>1, <2>2, <2>3, <2>4, <2>5, <2>6, <2>7, <2>8, <2>9, <2>10, <2>11, <2>12, <2>13 DEF
       Ep0Next, Handler
<1> QED BY <1>1, InvInit, PTL DEF Ep0Spec

-----------------------------------------------------------------------------
(* For any number of packets, resets and replies: no packet that the       *)
(* handler could still serve waits in endpoint 0 without its interrupt.    *)
THEOREM SetupsServed == Ep0Spec => []SetupServed
<1>1. Ep0Inv => SetupServed
  <2>1. Rx = 0 BY DEF Rx, CSR0_D
  <2> QED BY <2>1 DEF Ep0Inv, Ep0Type, CountType, Announced, SetupServed
<1> QED BY <1>1, Ep0Invariant, PTL

(* For any number of packets, resets and replies: at most one SETUP packet *)
(* is taken for data for each SYNCH_FRAME request, and the idle device     *)
(* answers to the address the host gave it last.                           *)
THEOREM HostFollowed == Ep0Spec => []Ep0Follows
<1>1. Ep0Inv => Ep0Follows
  BY DEF Ep0Inv, StageOwned, AddressKnown, Ep0Follows, StageLeft, AddressCurrent
<1> QED BY <1>1, Ep0Invariant, PTL

-----------------------------------------------------------------------------
(* The life cycle.                                                         *)

(* The driver holds nothing.                                               *)
Nothing ==
  /\ usb_dma_used = {}
  /\ live = {}
  /\ rx_base_buffer = NoBuf
  /\ irqOn = FALSE
  /\ armed = {}

(* The channels of a start that has made both requests.                    *)
BothChannels ==
  /\ usb_dma_used = {1, 2}
  /\ dma_send_channal = 1
  /\ dma_recv_channal = 2

(* The driver holds what a started controller needs.                       *)
Holding ==
  /\ BothChannels
  /\ opened = TRUE
  /\ rx_base_buffer \in Buf
  /\ live = {rx_base_buffer}

(* What a call in progress has acquired, by the step it has come to.       *)
ProgressInv ==
  /\ pc = "idle" => IF started THEN Holding ELSE Nothing /\ outstanding = NoBuf
  /\ pc = "requestSend" => /\ Nothing /\ ~started /\ outstanding = NoBuf
                           /\ dma_recv_channal = 0
  /\ pc = "requestRecv" => /\ usb_dma_used = {1} /\ dma_send_channal = 1
                           /\ live = {} /\ rx_base_buffer = NoBuf /\ ~irqOn
                           /\ armed = {} /\ ~started /\ outstanding = NoBuf
  /\ pc = "malloc" => /\ BothChannels /\ opened
                      /\ live = {} /\ rx_base_buffer = NoBuf /\ ~irqOn
                      /\ armed = {} /\ ~started /\ outstanding = NoBuf
  /\ pc = "fail" => /\ BothChannels /\ opened
                    /\ live = {} /\ rx_base_buffer = NoBuf /\ ~irqOn
                    /\ armed = {} /\ ~started /\ outstanding = NoBuf
  /\ pc = "exitIrq" => IF started THEN Holding ELSE Nothing /\ outstanding = NoBuf
  /\ pc = "exitChannels" => ~started /\ ~irqOn /\ (Holding \/ Nothing)
  /\ pc = "exitBuffer" => /\ ~started /\ ~irqOn /\ usb_dma_used = {}
                          /\ \/ rx_base_buffer \in Buf /\ live = {rx_base_buffer}
                             \/ rx_base_buffer = NoBuf /\ live = {}
  /\ pc = "exitClose" => ~started /\ ~irqOn /\ usb_dma_used = {} /\ live = {}
  /\ pc \in {"requestSend", "requestRecv"} => opened

(* The transfer the channels work on is the client's.                      *)
TransferInv ==
  /\ \A x \in armed : x = <<2, outstanding>>
  /\ outstanding # NoBuf => outstanding \in TBuf /\ HasPages(outstanding)
  /\ armed # {} => outstanding # NoBuf
  /\ ListMatchesPages

IInv == TypeOK /\ ProgressInv /\ TransferInv /\ ReleasedOnce

(* What a request returns when no channel, or only the first, is used.     *)
LEMMA FirstRequests ==
  /\ usb_dma_used = {} => usb_dma_request = 1
  /\ usb_dma_used = {1} => usb_dma_request = 2
<1> USE DmaMaxAssumption DEF Channels
<1>1. ASSUME usb_dma_used = {} PROVE usb_dma_request = 1
  <2>1. 1 \in Channels \ usb_dma_used /\ \A j \in Channels \ usb_dma_used : 1 <= j
    BY <1>1
  <2>2. \A i \in Channels \ usb_dma_used :
          (\A j \in Channels \ usb_dma_used : i <= j) => i = 1
    BY <2>1
  <2>3. \E i \in Channels : i \notin usb_dma_used
    BY <2>1
  <2> QED BY <2>1, <2>2, <2>3 DEF usb_dma_request
<1>2. ASSUME usb_dma_used = {1} PROVE usb_dma_request = 2
  <2>1. 2 \in Channels \ usb_dma_used /\ \A j \in Channels \ usb_dma_used : 2 <= j
    BY <1>2
  <2>2. \A i \in Channels \ usb_dma_used :
          (\A j \in Channels \ usb_dma_used : i <= j) => i = 2
    BY <2>1
  <2>3. \E i \in Channels : i \notin usb_dma_used
    BY <2>1
  <2> QED BY <2>1, <2>2, <2>3 DEF usb_dma_request
<1> QED BY <1>1, <1>2

(* The inductive invariant implies the properties.                         *)
LEMMA Implied ==
  IInv => IsrSafe /\ NoLeak /\ ChannelsMatchIsr /\ DmaIntoOwned
<1> SUFFICES ASSUME IInv PROVE IsrSafe /\ NoLeak /\ ChannelsMatchIsr /\ DmaIntoOwned
  OBVIOUS
<1> USE DEF IInv, ProgressInv, Holding, Nothing, BothChannels
<1>1. IsrSafe BY DEF IsrSafe, TypeOK
<1>2. NoLeak BY DEF NoLeak, TypeOK
<1>3. ChannelsMatchIsr BY DEF ChannelsMatchIsr, TypeOK
<1>4. DmaIntoOwned BY DEF DmaIntoOwned, TransferInv
<1> QED BY <1>1, <1>2, <1>3, <1>4

(* Nothing is held before the first start.                                 *)
LEMMA InitInv == Init => IInv
<1> SUFFICES ASSUME Init PROVE IInv
  OBVIOUS
<1>1. TypeOK BY DEF Init, TypeOK
<1>2. ProgressInv BY DEF Init, ProgressInv, Nothing
<1>3. TransferInv BY DEF Init, TransferInv, ListMatchesPages
<1>4. ReleasedOnce BY DEF Init, ReleasedOnce
<1> QED BY <1>1, <1>2, <1>3, <1>4 DEF IInv

(* A step of a client that stops first preserves the invariant: one step   *)
(* for each action, and in it one for each part it can disturb.            *)
LEMMA StepInv ==
  ASSUME StopsFirst, IInv, [Next]_vars
  PROVE  IInv'
<1> USE DmaMaxAssumption, BufAssumption, TBufAssumption
<1> USE DEF IInv, vars, bufferVars, TypeOK, Channels, ProgressInv, Holding, Nothing, BothChannels
<1>1. ASSUME StartController PROVE IInv'
  <2>1. TypeOK' BY <1>1 DEF StartController
  <2>2. ProgressInv' BY <1>1 DEF StartController
  <2>3. TransferInv' BY <1>1 DEF TransferInv, ListMatchesPages, HasPages, StartController
  <2>4. ReleasedOnce' BY <1>1 DEF ReleasedOnce, StartController
  <2> QED BY <2>1, <2>2, <2>3, <2>4
<1>2. ASSUME RequestSend PROVE IInv'
  <2>0. usb_dma_used' = {1} /\ dma_send_channal' = 1 /\ pc' = "requestRecv"
    <3>1. usb_dma_used = {} BY <1>2 DEF RequestSend
    <3>2. usb_dma_request = 1 BY <3>1, FirstRequests
    <3> QED BY <3>1, <3>2, <1>2 DEF RequestSend
  <2>1. TypeOK' BY <2>0, <1>2 DEF RequestSend
  <2>2. ProgressInv' BY <2>0, <1>2 DEF RequestSend
  <2>3. TransferInv' BY <1>2 DEF TransferInv, ListMatchesPages, HasPages, RequestSend
  <2>4. ReleasedOnce' BY <1>2 DEF ReleasedOnce, RequestSend
  <2> QED BY <2>1, <2>2, <2>3, <2>4
<1>3. ASSUME RequestRecv PROVE IInv'
  <2>1. TypeOK' BY FirstRequests, <1>3 DEF RequestRecv
  <2>2. ProgressInv' BY FirstRequests, <1>3 DEF RequestRecv
  <2>3. TransferInv' BY <1>3 DEF TransferInv, ListMatchesPages, HasPages, RequestRecv
  <2>4. ReleasedOnce' BY <1>3 DEF ReleasedOnce, RequestRecv
  <2> QED BY <2>1, <2>2, <2>3, <2>4
<1>4. ASSUME NEW b \in Buf, Malloc(b) PROVE IInv'
  <2>1. TypeOK' BY <1>4 DEF Malloc
  <2>2. ProgressInv' BY <1>4 DEF Malloc
  <2>3. TransferInv' BY <1>4 DEF TransferInv, ListMatchesPages, HasPages, Malloc
  <2>4. ReleasedOnce' BY <1>4 DEF ReleasedOnce, Malloc
  <2> QED BY <2>1, <2>2, <2>3, <2>4
<1>5. ASSUME MallocFails PROVE IInv'
  <2>1. TypeOK' BY <1>5 DEF MallocFails
  <2>2. ProgressInv' BY <1>5 DEF MallocFails
  <2>3. TransferInv' BY <1>5 DEF TransferInv, ListMatchesPages, HasPages, MallocFails
  <2>4. ReleasedOnce' BY <1>5 DEF ReleasedOnce, MallocFails
  <2> QED BY <2>1, <2>2, <2>3, <2>4
<1>6. ASSUME InitFail PROVE IInv'
  <2>1. TypeOK' BY <1>6 DEF InitFail, FreeRxBase
  <2>2. ProgressInv' BY <1>6 DEF InitFail, FreeRxBase
  <2>3. TransferInv' BY <1>6 DEF TransferInv, ListMatchesPages, HasPages, InitFail, FreeRxBase
  <2>4. ReleasedOnce' BY <1>6 DEF ReleasedOnce, InitFail, FreeRxBase
  <2> QED BY <2>1, <2>2, <2>3, <2>4
<1>7. ASSUME ConfigureEnableEndpoints PROVE IInv'
  <2>1. TypeOK' BY <1>7 DEF ConfigureEnableEndpoints
  <2>2. ProgressInv' BY <1>7 DEF ConfigureEnableEndpoints
  <2>3. TransferInv' BY <1>7 DEF TransferInv, ListMatchesPages, HasPages, ConfigureEnableEndpoints
  <2>4. ReleasedOnce' BY <1>7 DEF ReleasedOnce, ConfigureEnableEndpoints
  <2> QED BY <2>1, <2>2, <2>3, <2>4
<1>8. ASSUME StopController PROVE IInv'
  <2>1. TypeOK' BY <1>8 DEF StopController
  <2>2. ProgressInv' BY <1>8 DEF StopController
  <2>3. TransferInv' BY <1>8 DEF TransferInv, ListMatchesPages, HasPages, StopController
  <2>4. ReleasedOnce' BY <1>8 DEF ReleasedOnce, StopController
  <2> QED BY <2>1, <2>2, <2>3, <2>4
<1>9. ASSUME ExitIrq PROVE IInv'
  <2>1. TypeOK' BY <1>9 DEF ExitIrq
  <2>2. ProgressInv' BY <1>9 DEF ExitIrq
  <2>3. TransferInv' BY <1>9 DEF TransferInv, ListMatchesPages, HasPages, ExitIrq
  <2>4. ReleasedOnce' BY <1>9 DEF ReleasedOnce, ExitIrq
  <2> QED BY <2>1, <2>2, <2>3, <2>4
<1>10. ASSUME ExitChannels PROVE IInv'
  <2>1. TypeOK' BY <1>10 DEF ExitChannels
  <2>2. ProgressInv'
    <3>1. usb_dma_used' = {} BY <1>10 DEF ExitChannels
    <3> QED BY <3>1, <1>10 DEF ExitChannels
  <2>3. TransferInv' BY <1>10 DEF TransferInv, ListMatchesPages, HasPages, ExitChannels
  <2>4. ReleasedOnce' BY <1>10 DEF ReleasedOnce, ExitChannels
  <2> QED BY <2>1, <2>2, <2>3, <2>4
<1>11. ASSUME ExitBuffer PROVE IInv'
  <2>1. TypeOK' BY <1>11 DEF ExitBuffer, FreeRxBase
  <2>2. ProgressInv' BY <1>11 DEF ExitBuffer, FreeRxBase
  <2>3. TransferInv' BY <1>11 DEF TransferInv, ListMatchesPages, HasPages, ExitBuffer, FreeRxBase
  <2>4. ReleasedOnce' BY <1>11 DEF ReleasedOnce, ExitBuffer, FreeRxBase
  <2> QED BY <2>1, <2>2, <2>3, <2>4
<1>12. ASSUME NEW t \in TBuf, NEW p \in Pages, AllocateTransferBuffer(t, p) PROVE IInv'
  <2>1. TypeOK' BY <1>12 DEF AllocateTransferBuffer, HasPages
  <2>2. ProgressInv' BY <1>12 DEF AllocateTransferBuffer, HasPages
  <2>3. TransferInv' BY <1>12 DEF TransferInv, ListMatchesPages, HasPages, AllocateTransferBuffer
  <2>4. ReleasedOnce' BY <1>12 DEF ReleasedOnce, AllocateTransferBuffer, HasPages
  <2> QED BY <2>1, <2>2, <2>3, <2>4
<1>13. ASSUME NEW t \in TBuf, FreeTransferBuffer(t) PROVE IInv'
  <2>1. TypeOK' BY <1>13 DEF FreeTransferBuffer, HasPages, RemoveUsbBufferPagesFromList
  <2>2. ProgressInv' BY <1>13 DEF FreeTransferBuffer, HasPages, RemoveUsbBufferPagesFromList
  <2>3. TransferInv' BY <1>13 DEF TransferInv, ListMatchesPages, HasPages, FreeTransferBuffer,
      RemoveUsbBufferPagesFromList
  <2>4. ReleasedOnce' BY <1>13 DEF ReleasedOnce, FreeTransferBuffer, HasPages,
      RemoveUsbBufferPagesFromList
  <2> QED BY <2>1, <2>2, <2>3, <2>4
<1>14. ASSUME NEW t \in TBuf, Transfer(t) PROVE IInv'
  <2>1. TypeOK'
    <3>1. \A c \in {dma_recv_channal} \cap usb_dma_used : <<c, t>> \in Channels \X TBuf OBVIOUS
    <3>2. armed' \in SUBSET (Channels \X TBuf) BY <3>1, <1>14 DEF Transfer
    <3> HIDE DEF Channels
    <3>3. outstanding' \in TBuf \cup {NoBuf} /\ cut' \in BOOLEAN BY <1>14 DEF Transfer
    <3> QED BY <3>2, <3>3, <1>14 DEF Transfer
  <2>2. ProgressInv' BY <1>14 DEF Transfer, HasPages
  <2>3. TransferInv' BY <1>14 DEF TransferInv, ListMatchesPages, HasPages, Transfer
  <2>4. ReleasedOnce' BY <1>14 DEF ReleasedOnce, Transfer, HasPages
  <2> QED BY <2>1, <2>2, <2>3, <2>4
<1>15. ASSUME NEW p \in Pages, AllocateTransferBufferFails(p) PROVE IInv'
  <2>1. TypeOK' BY <1>15 DEF AllocateTransferBufferFails, HasPages
  <2>2. ProgressInv' BY <1>15 DEF AllocateTransferBufferFails, HasPages
  <2>3. TransferInv' BY <1>15 DEF TransferInv, ListMatchesPages, HasPages,
      AllocateTransferBufferFails
  <2>4. ReleasedOnce' BY <1>15 DEF ReleasedOnce, AllocateTransferBufferFails, HasPages
  <2> QED BY <2>1, <2>2, <2>3, <2>4
<1>16. ASSUME NEW x \in armed, DmaCompletes(x) PROVE IInv'
  <2>1. TypeOK' BY <1>16 DEF DmaCompletes, HasPages
  <2>2. ProgressInv' BY <1>16 DEF DmaCompletes, HasPages
  <2>3. TransferInv' BY <1>16 DEF TransferInv, ListMatchesPages, HasPages, DmaCompletes
  <2>4. ReleasedOnce' BY <1>16 DEF ReleasedOnce, DmaCompletes, HasPages
  <2> QED BY <2>1, <2>2, <2>3, <2>4
<1>17. ASSUME ExitClose PROVE IInv'
  <2>1. TypeOK' BY <1>17 DEF ExitClose
  <2>2. ProgressInv' BY <1>17 DEF ExitClose
  <2>3. TransferInv' BY <1>17 DEF TransferInv, ListMatchesPages, HasPages, ExitClose
  <2>4. ReleasedOnce' BY <1>17 DEF ReleasedOnce, ExitClose
  <2> QED BY <2>1, <2>2, <2>3, <2>4
<1>18. ASSUME BusReset PROVE IInv'
  <2>1. TypeOK' BY <1>18 DEF BusReset
  <2>2. ProgressInv' BY <1>18 DEF BusReset
  <2>3. TransferInv' BY <1>18 DEF TransferInv, ListMatchesPages, HasPages, BusReset
  <2>4. ReleasedOnce' BY <1>18 DEF ReleasedOnce, BusReset
  <2> QED BY <2>1, <2>2, <2>3, <2>4
<1>19. CASE UNCHANGED vars
  BY <1>19 DEF TypeOK, ProgressInv, Holding, Nothing, BothChannels, TransferInv,
                ListMatchesPages, HasPages, ReleasedOnce
<1> QED BY <1>1, <1>2, <1>3, <1>4, <1>5, <1>6, <1>7, <1>8, <1>9, <1>10, <1>11, <1>12, <1>13,
    <1>14, <1>15, <1>16, <1>17, <1>18, <1>19 DEF Next

(* For every size of the channel table and every pool of buffers, and      *)
(* whatever starts fail and stops are repeated: the interrupt handler      *)
(* always finds what it uses, nothing leaks, nothing is freed twice, and   *)
(* the DMA channels keep the numbers that the interrupt handler tests.     *)
THEOREM LifecycleSafe ==
  ASSUME StopsFirst
  PROVE  Spec => [](IsrSafe /\ NoLeak /\ ReleasedOnce /\ ChannelsMatchIsr)
<1>1. Init => IInv
  BY InitInv
<1>2. IInv /\ [Next]_vars => IInv'
  BY StepInv
<1>3. IInv => IsrSafe /\ NoLeak /\ ReleasedOnce /\ ChannelsMatchIsr
  BY Implied DEF IInv
<1> QED BY <1>1, <1>2, <1>3, PTL DEF Spec

(* Whatever StartController acquired is given back, and given back once,   *)
(* when it fails half way, when StopController is called and when it is    *)
(* called again.                                                           *)
THEOREM AllReturned ==
  ASSUME StopsFirst
  PROVE  Spec => []ResourcesReturned
<1>1. NoLeak /\ ReleasedOnce => ResourcesReturned
  BY DEF ResourcesReturned
<1> QED BY <1>1, LifecycleSafe, PTL

(* No DMA transfer writes to memory its client may have freed, although    *)
(* usb_dma_stop ends none: not after a bus reset, where the client keeps   *)
(* its buffer until the channel has another one, nor in SunxiUsbExit, which*)
(* returns after usb_close_clock.  Every transfer buffer is freed with the *)
(* size it was allocated with.                                             *)
THEOREM DmaMemorySafe ==
  ASSUME StopsFirst
  PROVE  Spec => [](DmaIntoOwned /\ ListMatchesPages)
<1>1. Init => IInv
  BY InitInv
<1>2. IInv /\ [Next]_vars => IInv'
  BY StepInv
<1>3. IInv => DmaIntoOwned /\ ListMatchesPages
  BY Implied DEF IInv, TransferInv
<1> QED BY <1>1, <1>2, <1>3, PTL DEF Spec
=============================================================================
