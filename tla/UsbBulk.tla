------------------------------ MODULE UsbBulk -------------------------------
(***************************************************************************)
(* Drivers/EfiUsbFnIo: the bulk data path of the USB function driver       *)
(* (usb_base_sun50iw1p1.c, EfiUsbFnIoDxe.c).                               *)
(*                                                                         *)
(* Three actors share the controller's registers without a lock:           *)
(*                                                                         *)
(*  - the client in the foreground polls EventHandler and calls Transfer;  *)
(*    Transfer(Tx) is __usb_write_fifo, Transfer(Rx) arms a DMA transfer.  *)
(*    Its steps are separate actions between which it can be interrupted;  *)
(*  - sunxi_usb_irq, in two steps: it reads the status registers, then     *)
(*    works on what it read.  The CPU is single: the foreground does not   *)
(*    move meanwhile, nor while an interrupt is asserted;                  *)
(*  - the controller and the host behind it.  They move while the handler  *)
(*    runs only if IsrWindow holds.                                        *)
(*                                                                         *)
(* Endpoint registers are banked: what a register access means depends on  *)
(* the active endpoint, `active', which the foreground and the handler     *)
(* both switch.                                                            *)
(*                                                                         *)
(* The protocol on top is the one this driver supports: the host sends a   *)
(* command packet, possibly a payload right behind it, then waits for a    *)
(* response; the client answers a command event with Transfer(Rx) if the   *)
(* command announces a payload, and ends with Transfer(Tx).  A packet is   *)
(* named by its command and its part: part 0 is the command itself, part   *)
(* i > 0 the i-th packet of the payload.                                   *)
(*                                                                         *)
(* The event queue is a plain sequence: SunxiQueue shows that the ring in  *)
(* the code behaves as one.  Of EP0 only what touches the bulk endpoints   *)
(* is here (SET_CONFIGURATION).                                            *)
(***************************************************************************)
EXTENDS Integers, Sequences

CONSTANTS MaxCmds,       \* bound: commands the host sends
          MaxPackets,    \* bound: packets of a payload or a response
          Shapes,        \* how the last packet of a payload may end
          MaxBusEvents,  \* bound: resets, suspends, resumes and disconnects
          BusEvents,     \* which of them the host may cause
          QueueMax,      \* USB_EVENT_QUEUE_MAX_EVENT_COUNT
          IsrWindow      \* the hardware moves while the handler runs

ASSUME BoundAssumption ==
  /\ MaxCmds \in Nat \ {0}
  /\ MaxPackets \in Nat \ {0}
  /\ MaxBusEvents \in Nat
  /\ QueueMax \in Nat \ {0}
  /\ IsrWindow \in BOOLEAN

(* The last packet of a payload is a full one; or it is shorter; or it is  *)
(* shorter and its length no multiple of four; or it is less than four     *)
(* bytes, so that the DMA transfer, which moves whole words, ends before it.*)
ASSUME ShapeAssumption == Shapes # {} /\ Shapes \subseteq {"full", "short", "odd", "tail"}

ASSUME BusAssumption == BusEvents \subseteq {"reset", "suspend", "resume", "disconnect"}

BULK_IN == 1
BULK_OUT == 2
RxDepth == 2   \* both bulk FIFOs are configured as double ones

VARIABLES
  \* registers and FIFOs of the controller
  active, misc_irq, tx_irq, rx_irq, dma_irq, rxFifo, epDma, dmaEnabled, dmaLeft,
  txLoaded, txReady,
  \* sunxi_ubuf, and the buffer of Transfer(Rx)
  finish, rx_ready_for_data, rx_req_buffer, dma_rx, stored, queue,
  \* the interrupt handler: what it read, or NoIsr
  isr,
  \* the foreground
  pc, old_ep_idx, left, job, receiving,
  \* the host
  hpc, cmd, part, busEvents,
  \* history: responses completely sent, Tx events posted, a register access
  \* of the foreground that hit another endpoint, a completion of the running
  \* Transfer(Rx) that the handler cleared without having read it
  txDone, txEvents, wrongEp, unread

hwVars == <<active, misc_irq, tx_irq, rx_irq, dma_irq, rxFifo, epDma, dmaEnabled,
            dmaLeft, txLoaded, txReady>>
bufVars == <<finish, rx_ready_for_data, rx_req_buffer, dma_rx, stored, queue>>
fgVars == <<pc, old_ep_idx, left, job, receiving>>
hostVars == <<hpc, cmd, part, busEvents>>
histVars == <<txDone, txEvents, wrongEp, unread>>

vars == <<hwVars, bufVars, isr, fgVars, hostVars, histVars>>

Packet == [n : 1..MaxCmds, part : 0..MaxPackets, packets : 0..MaxPackets,
           shape : Shapes]
NoPacket == [n |-> 0, part |-> 0, packets |-> 0, shape |-> "none"]
NoIsr == [on |-> FALSE, misc |-> {}, tx |-> {}, rx |-> FALSE, dma |-> FALSE]

Event(kind, n) == [kind |-> kind, n |-> n]

(* UsbQueueEventMassage: the event is dropped when the queue is full, and  *)
(* no caller looks at the result.                                          *)
Post(q, e) == IF Len(q) < QueueMax THEN Append(q, e) ELSE q

Posts(q, e, cond) == IF cond THEN Post(q, e) ELSE q

(* The interrupt line: every pending bit the driver enabled, and the DMA's *)
(* if its interrupt is enabled (`dmaEnabled': usb_dma_start sets the bit,  *)
(* usb_dma_stop clears it and nothing else of the channel).  DISCONNECT is *)
(* not enabled, only seen when something else interrupts.                  *)
IrqAsserted ==
  \/ misc_irq \ {"disconnect"} # {}
  \/ tx_irq # {}
  \/ rx_irq
  \/ dma_irq /\ dmaEnabled

(* The foreground runs when the handler does not and has nothing to do.    *)
Foreground(at) == pc = at /\ ~isr.on /\ ~IrqAsserted

(* The hardware and the host.                                              *)
Outside == ~isr.on \/ IsrWindow

Init ==
  /\ active = 0
  /\ misc_irq = {} /\ tx_irq = {} /\ rx_irq = FALSE /\ dma_irq = FALSE
  /\ rxFifo = <<>> /\ epDma = FALSE /\ dmaEnabled = FALSE /\ dmaLeft = 0
  /\ txLoaded = 0 /\ txReady = FALSE
  /\ finish = FALSE /\ rx_ready_for_data = FALSE /\ rx_req_buffer = NoPacket
  /\ dma_rx = NoPacket /\ stored = 0 /\ queue = <<>>
  /\ isr = NoIsr
  /\ pc = "poll" /\ old_ep_idx = 0 /\ left = 0 /\ job = NoPacket /\ receiving = FALSE
  /\ hpc = "idle" /\ cmd = NoPacket /\ part = 0 /\ busEvents = 0
  /\ txDone = 0 /\ txEvents = 0 /\ wrongEp = FALSE /\ unread = FALSE

-----------------------------------------------------------------------------
(* The host and the controller (external).                                 *)

(* A packet reaches the FIFO of the bulk OUT endpoint: it raises the       *)
(* endpoint's interrupt when it becomes the one that can be read.          *)
Arrive(p) ==
  /\ Len(rxFifo) < RxDepth
  /\ rxFifo' = Append(rxFifo, p)
  /\ rx_irq' = (rx_irq \/ rxFifo = <<>>)

HostSendsCommand(packets, shape) ==
  /\ Outside
  /\ hpc = "idle"
  /\ cmd.n < MaxCmds
  /\ cmd' = [n |-> cmd.n + 1, part |-> 0, packets |-> packets, shape |-> shape]
  /\ Arrive(cmd')
  /\ part' = 0
  /\ hpc' = IF packets > 0 THEN "payload" ELSE "await"
  /\ UNCHANGED <<active, misc_irq, tx_irq, dma_irq, epDma, dmaEnabled, dmaLeft,
                 txLoaded, txReady, bufVars, isr, fgVars, busEvents, histVars>>

HostSendsData ==
  /\ Outside
  /\ hpc = "payload"
  /\ Arrive([cmd EXCEPT !.part = part + 1])
  /\ part' = part + 1
  /\ hpc' = IF part + 1 = cmd.packets THEN "await" ELSE "payload"
  /\ UNCHANGED <<active, misc_irq, tx_irq, dma_irq, epDma, dmaEnabled, dmaLeft,
                 txLoaded, txReady, bufVars, isr, fgVars, cmd, busEvents, histVars>>

(* The host takes the packet that was committed on the bulk IN endpoint.   *)
HostReads ==
  /\ Outside
  /\ hpc = "await"
  /\ txReady
  /\ txReady' = FALSE
  /\ txLoaded' = 0
  /\ tx_irq' = tx_irq \cup {BULK_IN}
  /\ txDone' = IF left = 0 THEN txDone + 1 ELSE txDone
  /\ hpc' = IF left = 0 THEN "idle" ELSE "await"
  /\ UNCHANGED <<active, misc_irq, rx_irq, dma_irq, rxFifo, epDma, dmaEnabled,
                 dmaLeft, bufVars, isr, fgVars, cmd, part, busEvents,
                 txEvents, wrongEp, unread>>

(* A bus reset flushes the FIFOs; the host then configures the device anew.*)
BusEvent(e) ==
  /\ Outside
  /\ busEvents < MaxBusEvents
  /\ busEvents' = busEvents + 1
  /\ misc_irq' = misc_irq \cup {e}
  /\ IF e = "reset"
       THEN /\ rxFifo' = <<>> /\ txLoaded' = 0 /\ txReady' = FALSE
            /\ hpc' = "reset"
       ELSE UNCHANGED <<rxFifo, txLoaded, txReady, hpc>>
  /\ UNCHANGED <<active, tx_irq, rx_irq, dma_irq, epDma, dmaEnabled, dmaLeft,
                 bufVars, isr, fgVars, cmd, part, histVars>>

HostConfigures ==
  /\ Outside
  /\ hpc = "reset"
  /\ "reset" \notin misc_irq
  /\ ~isr.on
  /\ tx_irq' = tx_irq \cup {0}
  /\ hpc' = "configuring"
  /\ UNCHANGED <<active, misc_irq, rx_irq, dma_irq, rxFifo, epDma, dmaEnabled, dmaLeft,
                 txLoaded, txReady, bufVars, isr, fgVars, cmd, part, busEvents,
                 histVars>>

HostConfigured ==
  /\ Outside
  /\ hpc = "configuring"
  /\ 0 \notin tx_irq
  /\ ~isr.on
  /\ hpc' = "idle"
  /\ UNCHANGED <<hwVars, bufVars, isr, fgVars, cmd, part, busEvents, histVars>>

(* A FIFO after its first packet was marked as read, and the interrupt of  *)
(* the packet behind it.                                                   *)
Popped(f) == IF f = <<>> THEN f ELSE Tail(f)

(* The DMA channel moves the first packet of the FIFO.  AUTO_CLEAR frees   *)
(* the FIFO only for a packet of full size; the words of an odd packet are *)
(* moved, its last bytes are not.  Nothing ends a transfer that was started*)
(* before a bus reset: it may go on until usb_dma_start sets the channel up*)
(* anew, into the buffer it was started with.                              *)
DmaMoves ==
  /\ Outside
  /\ epDma /\ dmaLeft > 0 /\ rxFifo # <<>>
  /\ LET p == Head(rxFifo)
         partial == p.part = p.packets /\ p.shape \in {"short", "odd"}
         elsewhere == pc \in {"recvConfig", "recvStart"}
     IN  /\ rxFifo' = IF partial THEN rxFifo ELSE Tail(rxFifo)
         /\ rx_irq' = (rx_irq \/ (~partial /\ Len(rxFifo) > 1))
         /\ stored' = IF elsewhere \/ (partial /\ p.shape = "odd")
                      THEN stored ELSE stored + 1
  /\ dmaLeft' = dmaLeft - 1
  /\ dma_irq' = (dma_irq \/ dmaLeft = 1)
  /\ UNCHANGED <<active, misc_irq, tx_irq, epDma, dmaEnabled, txLoaded, txReady,
                 finish, rx_ready_for_data, rx_req_buffer, dma_rx, queue, isr,
                 fgVars, hostVars, histVars>>

-----------------------------------------------------------------------------
(* sunxi_usb_irq.                                                          *)

IsrSample ==
  /\ ~isr.on
  /\ IrqAsserted
  /\ isr' = [on |-> TRUE, misc |-> misc_irq, tx |-> tx_irq, rx |-> rx_irq,
             dma |-> dma_irq]
  /\ UNCHANGED <<hwVars, bufVars, fgVars, hostVars, histVars>>

(* The RESET branch ends without restoring the active endpoint and without *)
(* clearing the DMA status.                                                *)
IsrReset ==
  /\ isr.on
  /\ "reset" \in isr.misc
  /\ misc_irq' = {} /\ tx_irq' = {} /\ rx_irq' = FALSE
  /\ active' = 0
  /\ dmaEnabled' = FALSE
  /\ rx_ready_for_data' = FALSE
  /\ queue' = Post(queue, Event("reset", 0))
  /\ isr' = NoIsr
  /\ UNCHANGED <<dma_irq, rxFifo, epDma, dmaLeft, txLoaded, txReady, finish,
                 rx_req_buffer, dma_rx, stored, fgVars, hostVars, histVars>>

(* The queue after the RESUME and SUSPEND branches.                        *)
BusQueue == Posts(Posts(queue, Event("resume", 0), "resume" \in isr.misc),
                  Event("suspend", 0), "suspend" \in isr.misc)

(* DISCONNECT, too, leaves at once: what else was read stays pending.      *)
IsrDisconnect ==
  /\ isr.on
  /\ "reset" \notin isr.misc
  /\ "disconnect" \in isr.misc
  /\ misc_irq' = misc_irq \ isr.misc
  /\ queue' = Post(BusQueue, Event("detach", 0))
  /\ isr' = NoIsr
  /\ UNCHANGED <<active, tx_irq, rx_irq, dma_irq, rxFifo, epDma, dmaEnabled, dmaLeft,
                 txLoaded, txReady, finish, rx_ready_for_data, rx_req_buffer,
                 dma_rx, stored, fgVars, hostVars, histVars>>

(* __usb_bulk_ep_reset flushes both bulk FIFOs and takes the endpoint out  *)
(* of DMA mode.                                                            *)
SetConf == 0 \in isr.tx

(* The FIFO as the RX branch finds it.                                     *)
FifoAfterEp0 == IF SetConf THEN <<>> ELSE rxFifo

(* eprx_recv_op (and a mutant of it that does not ask rx_ready_for_data):  *)
(* a packet is taken as a command unless one was taken since the last      *)
(* response; then it is left to the DMA.                                   *)
MutTakesAnything == isr.rx /\ FifoAfterEp0 # <<>>

TakesCommand == isr.rx /\ FifoAfterEp0 # <<>> /\ ~rx_ready_for_data

FifoAfterRx == IF TakesCommand THEN Tail(FifoAfterEp0) ELSE FifoAfterEp0

(* Mutant of Unaligned: the last bytes of an odd payload are forgotten.      *)
MutAllAligned == FALSE

(* usb_dma_trans_unaliged_bytes # 0: the payload's last bytes are fetched  *)
(* from the FIFO by the handler.                                           *)
Unaligned == dma_rx.shape \in {"odd", "tail"}

(* __usb_recv_by_dma_isr: the packet it reads those bytes from is dropped  *)
(* from the FIFO, and a packet is dropped (again) when the DMA's part was  *)
(* no multiple of the packet size.                                         *)
FifoAfterTail == IF Unaligned THEN Popped(FifoAfterRx) ELSE FifoAfterRx

(* Mutant of FifoAfterDma: an incomplete packet is not cleared by hand.     *)
MutNoManualClear == IF isr.dma THEN FifoAfterTail ELSE FifoAfterRx

FifoAfterDma ==
  IF ~isr.dma THEN FifoAfterRx
  ELSE IF dma_rx.shape \in {"short", "odd"} THEN Popped(FifoAfterTail)
  ELSE FifoAfterTail

PostsTx == BULK_IN \in isr.tx /\ finish

(* Mutant of PostsData: DMA is looked at only if the endpoint is quiet.     *)
MutDmaElse == isr.dma /\ ~isr.rx

PostsData == isr.dma

(* Each branch restores the endpoint it found, and so does the handler.    *)
EpAfterServe == active

(* Everything but RESET and DISCONNECT, in the order of the code.          *)
(* usb_dma_int_clear clears the whole DMA status: a completion that came   *)
(* after usb_dma_int_query read it, too.                                   *)
IsrServe ==
  /\ isr.on
  /\ isr.misc \cap {"reset", "disconnect"} = {}
  /\ misc_irq' = misc_irq \ isr.misc
  /\ tx_irq' = tx_irq \ isr.tx
  /\ rx_irq' = \/ rx_irq /\ ~isr.rx
               \/ FifoAfterDma # <<>> /\ FifoAfterDma # rxFifo
  /\ dma_irq' = FALSE
  /\ unread' = (unread \/ (dma_irq /\ ~isr.dma))
  /\ rxFifo' = FifoAfterDma
  /\ epDma' = (epDma /\ ~SetConf /\ ~isr.dma)
  /\ txLoaded' = IF SetConf THEN 0 ELSE txLoaded
  /\ txReady' = (txReady /\ ~SetConf)
  /\ finish' = (finish /\ ~PostsTx)
  /\ txEvents' = IF PostsTx THEN txEvents + 1 ELSE txEvents
  /\ rx_ready_for_data' = (rx_ready_for_data \/ TakesCommand)
  /\ rx_req_buffer' = IF TakesCommand THEN Head(FifoAfterEp0) ELSE rx_req_buffer
  /\ stored' = IF isr.dma /\ Unaligned /\ FifoAfterRx # <<>> THEN stored + 1 ELSE stored
  /\ queue' = Posts(Posts(Posts(BusQueue, Event("tx", 0), PostsTx),
                          Event("cmd", rx_req_buffer'.n), TakesCommand),
                    Event("data", dma_rx.n), PostsData)
  /\ active' = EpAfterServe
  /\ isr' = NoIsr
  /\ UNCHANGED <<dmaEnabled, dmaLeft, dma_rx, fgVars, hostVars, txDone,
                 wrongEp>>

-----------------------------------------------------------------------------
(* The foreground: EventHandler and the client's reaction.                 *)

(* EventHandler hands out the oldest event.  A reset makes the client      *)
(* forget its command; a completion it does not wait for is ignored.       *)
EventHandler ==
  /\ Foreground("poll")
  /\ queue # <<>>
  /\ queue' = Tail(queue)
  /\ LET e == Head(queue)
     IN  /\ pc' = CASE e.kind = "cmd" -> "consume"
                    [] e.kind = "data" /\ receiving -> "respond"
                    [] OTHER -> "poll"
         /\ receiving' = (receiving /\ e.kind \notin {"reset", "data", "cmd"})
  /\ UNCHANGED <<hwVars, finish, rx_ready_for_data, rx_req_buffer, dma_rx, stored,
                 isr, old_ep_idx, left, job, hostVars, histVars>>

(* The client reads the command from the buffer that the event names.      *)
Consume ==
  /\ Foreground("consume")
  /\ job' = rx_req_buffer
  /\ pc' = IF rx_req_buffer.packets > 0 THEN "recv" ELSE "respond"
  /\ UNCHANGED <<hwVars, bufVars, isr, old_ep_idx, left, receiving, hostVars, histVars>>

-----------------------------------------------------------------------------
(* Transfer(Rx): sunxi_udc_start_recv_by_dma.                              *)

RecvBegin ==
  /\ Foreground("recv")
  /\ dma_rx' = job
  /\ stored' = 0
  /\ old_ep_idx' = active
  /\ active' = BULK_OUT
  /\ receiving' = TRUE
  /\ pc' = "recvConfig"
  /\ UNCHANGED <<misc_irq, tx_irq, rx_irq, dma_irq, rxFifo, epDma, dmaEnabled, dmaLeft,
                 txLoaded, txReady, finish, rx_ready_for_data, rx_req_buffer, queue,
                 isr, left, job, hostVars, histVars>>

(* USBC_Dev_ConfigEpDma acts on the active endpoint.                       *)
RecvConfig ==
  /\ Foreground("recvConfig")
  /\ epDma' = (epDma \/ active = BULK_OUT)
  /\ wrongEp' = (wrongEp \/ active # BULK_OUT)
  /\ pc' = "recvStart"
  /\ UNCHANGED <<active, misc_irq, tx_irq, rx_irq, dma_irq, rxFifo, dmaEnabled, dmaLeft,
                 txLoaded, txReady, bufVars, isr, old_ep_idx, left, job, receiving,
                 hostVars, txDone, txEvents, unread>>

(* usb_dma_start with the payload's length rounded down to whole words.    *)
RecvStart ==
  /\ Foreground("recvStart")
  /\ dmaEnabled' = TRUE
  /\ dmaLeft' = IF dma_rx.shape = "tail" THEN dma_rx.packets - 1 ELSE dma_rx.packets
  /\ unread' = FALSE
  /\ pc' = "recvRestore"
  /\ UNCHANGED <<active, misc_irq, tx_irq, rx_irq, dma_irq, rxFifo, epDma,
                 txLoaded, txReady, bufVars, isr, old_ep_idx, left, job, receiving,
                 hostVars, txDone, txEvents, wrongEp>>

RecvRestore ==
  /\ Foreground("recvRestore")
  /\ active' = old_ep_idx
  /\ pc' = "poll"
  /\ UNCHANGED <<misc_irq, tx_irq, rx_irq, dma_irq, rxFifo, epDma, dmaEnabled, dmaLeft,
                 txLoaded, txReady, bufVars, isr, old_ep_idx, left, job, receiving,
                 hostVars, histVars>>

-----------------------------------------------------------------------------
(* Transfer(Tx): sunxi_udc_send_data and __usb_write_fifo.                 *)

SendBegin(packets) ==
  /\ Foreground("respond")
  /\ rx_ready_for_data' = FALSE
  /\ finish' = FALSE
  /\ left' = packets
  /\ old_ep_idx' = active
  /\ active' = BULK_IN
  /\ receiving' = FALSE
  /\ pc' = "sendLoad"
  /\ UNCHANGED <<misc_irq, tx_irq, rx_irq, dma_irq, rxFifo, epDma, dmaEnabled, dmaLeft,
                 txLoaded, txReady, rx_req_buffer, dma_rx, stored, queue, isr, job,
                 hostVars, histVars>>

(* Mutant of SendLoad: the transfer counts as finished after any packet.    *)
MutFinishEarly ==
  /\ Foreground("sendLoad")
  /\ txLoaded' = txLoaded + 1
  /\ left' = left - 1
  /\ finish' = TRUE
  /\ pc' = "sendCommit"
  /\ UNCHANGED <<active, misc_irq, tx_irq, rx_irq, dma_irq, rxFifo, epDma, dmaEnabled,
                 dmaLeft, txReady, rx_ready_for_data, rx_req_buffer, dma_rx, stored,
                 queue, isr, old_ep_idx, job, receiving, hostVars, histVars>>

(* The packet is written to the endpoint's FIFO, whose address does not    *)
(* depend on the active endpoint; tx_package_send_finish with the last.    *)
SendLoad ==
  /\ Foreground("sendLoad")
  /\ txLoaded' = txLoaded + 1
  /\ left' = left - 1
  /\ finish' = (left = 1)
  /\ pc' = "sendCommit"
  /\ UNCHANGED <<active, misc_irq, tx_irq, rx_irq, dma_irq, rxFifo, epDma, dmaEnabled,
                 dmaLeft, txReady, rx_ready_for_data, rx_req_buffer, dma_rx, stored,
                 queue, isr, old_ep_idx, job, receiving, hostVars, histVars>>

(* __usb_writecomplete: USBC_Dev_WriteDataStatus, on the active endpoint.  *)
SendCommit ==
  /\ Foreground("sendCommit")
  /\ txReady' = (txReady \/ active = BULK_IN)
  /\ wrongEp' = (wrongEp \/ active # BULK_IN)
  /\ pc' = "sendWait"
  /\ UNCHANGED <<active, misc_irq, tx_irq, rx_irq, dma_irq, rxFifo, epDma, dmaEnabled,
                 dmaLeft, txLoaded, bufVars, isr, old_ep_idx, left, job, receiving,
                 hostVars, txDone, txEvents, unread>>

(* ... and its busy wait, which reads the active endpoint's registers; on  *)
(* EP0 it finds neither bit set once the handler has served EP0.           *)
SendWait ==
  /\ Foreground("sendWait")
  /\ active # BULK_IN \/ ~txReady
  /\ pc' = IF left > 0 THEN "sendLoad" ELSE "sendRestore"
  /\ wrongEp' = (wrongEp \/ active # BULK_IN)
  /\ UNCHANGED <<hwVars, bufVars, isr, old_ep_idx, left, job, receiving, hostVars,
                 txDone, txEvents, unread>>

SendRestore ==
  /\ Foreground("sendRestore")
  /\ active' = old_ep_idx
  /\ pc' = "poll"
  /\ UNCHANGED <<misc_irq, tx_irq, rx_irq, dma_irq, rxFifo, epDma, dmaEnabled, dmaLeft,
                 txLoaded, txReady, bufVars, isr, old_ep_idx, left, job, receiving,
                 hostVars, histVars>>

-----------------------------------------------------------------------------
Isr == IsrSample \/ IsrReset \/ IsrDisconnect \/ IsrServe

Client ==
  \/ EventHandler \/ Consume
  \/ RecvBegin \/ RecvConfig \/ RecvStart \/ RecvRestore
  \/ \E packets \in 1..MaxPackets : SendBegin(packets)
  \/ SendLoad \/ SendCommit \/ SendWait \/ SendRestore

HostProgress ==
  \/ HostSendsData
  \/ HostReads
  \/ HostConfigures
  \/ HostConfigured

(* A payload of a single packet of less than four bytes would start a DMA  *)
(* transfer of no bytes and is left out.                                   *)
HostCommands ==
  \/ HostSendsCommand(0, CHOOSE s \in Shapes : TRUE)
  \/ \E packets \in 1..MaxPackets, shape \in Shapes :
       /\ shape = "tail" => packets > 1
       /\ HostSendsCommand(packets, shape)

Next ==
  \/ HostCommands
  \/ HostProgress
  \/ \E e \in BusEvents : BusEvent(e)
  \/ DmaMoves
  \/ Isr
  \/ Client

Spec == Init /\ [][Next]_vars

(* The CPU executes, an asserted interrupt is taken, DMA moves what it can,*)
(* and a host that started an exchange goes on with it.  Nothing obliges   *)
(* the host to send another command or to reset.                           *)
FairSpec == Spec /\ WF_vars(Isr) /\ WF_vars(Client) /\ WF_vars(DmaMoves)
                 /\ WF_vars(HostProgress)

-----------------------------------------------------------------------------
(* Properties.                                                             *)

(* The buffer of the last command that has an event in the queue still     *)
(* holds that command, unless a reset event is queued behind it: a command *)
(* is never overwritten between its interrupt and the client's reading.    *)
CommandIntact ==
  \A i \in 1..Len(queue) :
    queue[i].kind = "cmd" =>
      \/ rx_req_buffer.n = queue[i].n /\ rx_req_buffer.part = 0
      \/ \E j \in (i + 1)..Len(queue) : queue[j].kind = "reset"

(* A Tx completion is reported once for every Transfer(Tx), and only after *)
(* the host took the last packet of it: in particular an interrupt of an   *)
(* earlier packet of the transfer never reports it.                        *)
TxEventExact ==
  /\ txEvents <= txDone
  /\ ~IrqAsserted /\ ~isr.on /\ busEvents = 0 => txEvents = txDone

(* When the completion of Transfer(Rx) waits in the queue, its buffer      *)
(* holds the whole payload the host sent with that command.                *)
RxEventComplete ==
  \A i \in 1..Len(queue) :
    queue[i].kind = "data" /\ queue[i].n = dma_rx.n => stored = dma_rx.packets

(* Register accesses of the foreground hit the endpoint they are meant for,*)
(* wherever the interrupt handler ("Save index") comes between them.       *)
OwnEndpoint == ~wrongEp

(* What the host reads as one packet is one packet of one response.         *)
PacketWhole == txReady => txLoaded = 1

(* Sending, wherever the handler interrupts it: whole packets, from the    *)
(* right endpoint, and the event at their end.                             *)
TxExact == TxEventExact /\ PacketWhole /\ OwnEndpoint

(* The exchange comes to its end: a host that waits for a response gets it.*)
Answered == hpc = "await" ~> hpc \in {"idle", "reset"}

(* The handler will report a payload that DMA moved completely, or has, or *)
(* a bus reset has ended the transfer.                                     *)
Delivered ==
  \/ dma_irq /\ dmaEnabled
  \/ \E i \in 1..Len(queue) : queue[i].kind \in {"data", "reset"}

PayloadMoved == receiving /\ pc = "poll" /\ ~isr.on /\ dmaLeft = 0

(* A payload that DMA moved completely is reported, or about to be, however*)
(* the bus is reset meanwhile: unless it was complete between the reading  *)
(* (usb_dma_int_query) and the clearing (usb_dma_int_clear) of one run of  *)
(* the handler.  Nothing else loses the completion of a Transfer(Rx).      *)
CompletionNotLost == PayloadMoved => Delivered \/ unread

(* What the flow "Transfer ... EventHandler ... check the                  *)
(* EFI_USBFN_TRANSFER_RESULT" of EfiUsbFnIoDxe.c promises of every         *)
(* Transfer(Rx).                                                           *)
CompletionDelivered == PayloadMoved => Delivered
=============================================================================
