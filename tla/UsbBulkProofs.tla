--------------------------- MODULE UsbBulkProofs ---------------------------
(* Proofs about UsbBulk, for any number of commands, packets and bus       *)
(* events, any size of the queue, and hardware that may move while the     *)
(* handler runs.                                                           *)
EXTENDS UsbBulk, TLAPS

(* The steps of Transfer(Tx) after the endpoint was selected, and those of *)
(* Transfer(Rx).                                                           *)
Sending == {"sendLoad", "sendCommit", "sendWait", "sendRestore"}
Arming == {"recvConfig", "recvStart", "recvRestore"}
Steps == {"poll", "consume", "recv", "respond"} \cup Sending \cup Arming

Misc == {"reset", "suspend", "resume", "disconnect"}

NoReset == "reset" \notin BusEvents

-----------------------------------------------------------------------------
(* Sending.                                                                *)

TxType ==
  /\ pc \in Steps
  /\ left \in Nat /\ txLoaded \in Nat /\ txDone \in Nat /\ txEvents \in Nat
  /\ finish \in BOOLEAN /\ txReady \in BOOLEAN

IrqType ==
  /\ misc_irq \subseteq Misc /\ tx_irq \subseteq {0, BULK_IN}
  /\ rx_irq \in BOOLEAN /\ dma_irq \in BOOLEAN
  /\ isr \in [on : BOOLEAN, misc : SUBSET Misc, tx : SUBSET {0, BULK_IN},
              rx : BOOLEAN, dma : BOOLEAN]

(* Without a bus reset the host never configures the device anew.          *)
Configured ==
  /\ hpc \notin {"reset", "configuring"}
  /\ "reset" \notin misc_irq /\ "reset" \notin isr.misc
  /\ 0 \notin tx_irq /\ isr.tx \subseteq tx_irq

(* The endpoint a transfer has selected stays selected.                    *)
Selecting ==
  /\ ~wrongEp
  /\ pc \in Sending => active = BULK_IN
  /\ pc \in Arming => active = BULK_OUT

(* What is in the FIFO of the endpoint, by the step of the transfer.       *)
Loading ==
  /\ txReady => pc = "sendWait"
  /\ txLoaded = IF txReady \/ pc = "sendCommit" THEN 1 ELSE 0
  /\ pc = "sendLoad" => left > 0
  /\ finish => left = 0

(* The packet that is loaded or offered has not raised its interrupt; if it*)
(* is the last, tx_package_send_finish is set.  The completion of the last *)
(* one is due from its interrupt until the handler reports it.             *)
Completing ==
  /\ txReady \/ pc = "sendCommit" => BULK_IN \notin tx_irq /\ (left = 0 => finish)
  /\ txDone = txEvents + (IF finish /\ BULK_IN \in tx_irq THEN 1 ELSE 0)

TxInv == TxType /\ IrqType /\ Configured /\ Selecting /\ Loading /\ Completing

(* The invariant says that sending is exact.                               *)
LEMMA TxImplied == TxInv => TxExact
<1> SUFFICES ASSUME TxInv PROVE TxExact
  OBVIOUS
<1> USE DEF TxInv
<1>1. TxEventExact BY DEF TxEventExact, TxType, Completing, IrqAsserted
<1>2. PacketWhole BY DEF PacketWhole, Loading
<1>3. OwnEndpoint BY DEF OwnEndpoint, Selecting
<1> QED BY <1>1, <1>2, <1>3 DEF TxExact

(* It holds at first, ...                                                  *)
LEMMA TxInit == Init => TxInv
<1> SUFFICES ASSUME Init PROVE TxInv
  OBVIOUS
<1> USE DEF Init, NoIsr
<1>1. TxType BY DEF TxType, Steps
<1>2. Configured BY DEF Configured
<1>3. Selecting BY DEF Selecting, Sending, Arming
<1>4. Loading BY DEF Loading
<1>5. Completing BY DEF Completing
<1>6. IrqType BY DEF IrqType
<1> QED BY <1>1, <1>2, <1>3, <1>4, <1>5, <1>6 DEF TxInv

(* ... and every step but a bus reset preserves it.                        *)
LEMMA TxStep ==
  ASSUME NoReset, TxInv, [Next]_vars
  PROVE  TxInv'
<1> USE BoundAssumption, BusAssumption
<1> USE DEF TxInv, TxType, IrqType, Configured, Selecting, Loading, Completing, Steps, Sending,
    Arming, Misc,
            hwVars, bufVars, fgVars, hostVars, histVars, Foreground, IrqAsserted, BULK_IN, BULK_OUT
<1>1. ASSUME NEW packets, NEW shape, HostSendsCommand(packets, shape) PROVE TxInv'
  BY <1>1 DEF HostSendsCommand, Arrive
<1>2. CASE HostSendsData BY <1>2 DEF HostSendsData, Arrive
<1>3. CASE HostReads
  <2>1. TxType'
    <3>1. txDone' \in Nat
      <4>1. CASE left = 0 BY <4>1, <1>3 DEF HostReads
      <4>2. CASE left # 0 BY <4>2, <1>3 DEF HostReads
      <4> QED BY <4>1, <4>2
    <3> QED BY <3>1, <1>3 DEF HostReads
  <2>2. Configured' BY <1>3 DEF HostReads
  <2>3. Selecting' BY <1>3 DEF HostReads
  <2>4. Loading' BY <1>3 DEF HostReads
  <2>5. Completing'
    <3>1. BULK_IN \notin tx_irq /\ BULK_IN \in tx_irq' /\ ~txReady' /\ pc' # "sendCommit"
      BY <1>3 DEF HostReads
    <3>2. finish <=> left = 0
      BY <1>3 DEF HostReads
    <3>3. txDone = txEvents /\ txEvents' = txEvents /\ finish' = finish
      BY <1>3, <3>1 DEF HostReads
    <3>4. CASE left = 0 BY <3>1, <3>2, <3>3, <3>4, <1>3 DEF HostReads
    <3>5. CASE left # 0 BY <3>1, <3>2, <3>3, <3>5, <1>3 DEF HostReads
    <3> QED BY <3>4, <3>5
  <2>6. IrqType' BY <1>3 DEF HostReads
  <2> QED BY <2>1, <2>2, <2>3, <2>4, <2>5, <2>6
<1>4. CASE HostConfigures BY <1>4 DEF HostConfigures
<1>5. CASE HostConfigured BY <1>5 DEF HostConfigured
<1>6. ASSUME NEW e \in BusEvents, BusEvent(e) PROVE TxInv'
  BY <1>6 DEF BusEvent, NoReset
<1>7. CASE DmaMoves BY <1>7 DEF DmaMoves
<1>8. CASE IsrSample BY <1>8 DEF IsrSample
<1>9. CASE IsrReset BY <1>9 DEF IsrReset
<1>10. CASE IsrDisconnect BY <1>10 DEF IsrDisconnect, NoIsr
<1>11. CASE IsrServe
  <2>1. TxType' BY <1>11 DEF IsrServe, NoIsr, SetConf, PostsTx, EpAfterServe
  <2>2. Configured' BY <1>11 DEF IsrServe, NoIsr, SetConf, PostsTx, EpAfterServe
  <2>3. Selecting' BY <1>11 DEF IsrServe, NoIsr, SetConf, PostsTx, EpAfterServe
  <2>4. Loading' BY <1>11 DEF IsrServe, NoIsr, SetConf, PostsTx, EpAfterServe
  <2>5. Completing' BY <1>11 DEF IsrServe, NoIsr, SetConf, PostsTx, EpAfterServe
  <2>6. IrqType' BY <1>11 DEF IsrServe, NoIsr, SetConf, PostsTx, EpAfterServe
  <2> QED BY <2>1, <2>2, <2>3, <2>4, <2>5, <2>6
<1>12. CASE EventHandler BY <1>12 DEF EventHandler
<1>13. CASE Consume BY <1>13 DEF Consume
<1>14. CASE RecvBegin BY <1>14 DEF RecvBegin
<1>15. CASE RecvConfig BY <1>15 DEF RecvConfig
<1>16. CASE RecvStart BY <1>16 DEF RecvStart
<1>17. CASE RecvRestore BY <1>17 DEF RecvRestore
<1>18. ASSUME NEW packets \in 1..MaxPackets, SendBegin(packets) PROVE TxInv'
  <2>1. TxType'
    <3>1. packets \in Nat BY <1>18
    <3> QED BY <3>1, <1>18 DEF SendBegin
  <2>2. Configured' BY <1>18 DEF SendBegin
  <2>3. Selecting' BY <1>18 DEF SendBegin
  <2>4. Loading' BY <1>18 DEF SendBegin
  <2>5. Completing' BY <1>18 DEF SendBegin
  <2>6. IrqType' BY <1>18 DEF SendBegin
  <2> QED BY <2>1, <2>2, <2>3, <2>4, <2>5, <2>6
<1>19. CASE SendLoad
  <2>1. TxType'
    <3>1. left' \in Nat BY <1>19 DEF SendLoad
    <3>2. txLoaded' \in Nat BY <1>19 DEF SendLoad
    <3>3. finish' \in BOOLEAN BY <1>19, Zenon DEF SendLoad
    <3>4. pc' \in Steps BY <1>19 DEF SendLoad
    <3> QED BY <3>1, <3>2, <3>3, <3>4, <1>19 DEF SendLoad
  <2>2. Configured' BY <1>19 DEF SendLoad
  <2>3. Selecting' BY <1>19 DEF SendLoad
  <2>4. Loading' BY <1>19 DEF SendLoad
  <2>5. Completing'
    <3>1. tx_irq = {} /\ tx_irq' = {} /\ ~finish /\ txDone = txEvents
      BY <1>19 DEF SendLoad
    <3>2. left' = 0 => left = 1
      BY <1>19 DEF SendLoad
    <3>3. finish' <=> left = 1
      BY <1>19, Zenon DEF SendLoad
    <3> QED BY <3>1, <3>2, <3>3, <1>19 DEF SendLoad
  <2>6. IrqType' BY <1>19 DEF SendLoad
  <2> QED BY <2>1, <2>2, <2>3, <2>4, <2>5, <2>6
<1>20. CASE SendCommit
  <2>1. TxType' BY <1>20 DEF SendCommit
  <2>2. Configured' BY <1>20 DEF SendCommit
  <2>3. Selecting' BY <1>20 DEF SendCommit
  <2>4. Loading' BY <1>20 DEF SendCommit
  <2>5. Completing' BY <1>20 DEF SendCommit
  <2>6. IrqType' BY <1>20 DEF SendCommit
  <2> QED BY <2>1, <2>2, <2>3, <2>4, <2>5, <2>6
<1>21. CASE SendWait BY <1>21 DEF SendWait
<1>22. CASE SendRestore BY <1>22 DEF SendRestore
<1>23. CASE UNCHANGED vars BY <1>23 DEF vars
<1> QED BY <1>1, <1>2, <1>3, <1>4, <1>5, <1>6, <1>7, <1>8, <1>9, <1>10, <1>11, <1>12, <1>13, <1>14,
           <1>15, <1>16, <1>17, <1>18, <1>19, <1>20, <1>21, <1>22, <1>23
        DEF Next, HostCommands, HostProgress, Isr, Client

(* Sending is exact (TxExact) when the bus is not reset: one event for     *)
(* each response and after its last packet, whole packets, and register    *)
(* accesses of __usb_write_fifo at their own endpoint, wherever            *)
(* sunxi_usb_irq interrupts it.                                            *)
THEOREM SendingExact ==
  ASSUME NoReset
  PROVE  Spec => []TxExact
<1>1. TxInv /\ [Next]_vars => TxInv' BY TxStep
<1> QED BY <1>1, TxInit, TxImplied, PTL DEF Spec

-----------------------------------------------------------------------------
(* The data that the handler, the client and the host pass on.             *)

AnyPacket == [n : Nat, part : Nat, packets : Nat,
              shape : {"none", "full", "short", "odd", "tail"}]
AnyEvent == [kind : {"reset", "resume", "suspend", "detach", "tx", "cmd", "data"}, n : Nat]

DataType ==
  /\ cmd \in AnyPacket /\ job \in AnyPacket
  /\ rx_req_buffer \in AnyPacket /\ dma_rx \in AnyPacket
  /\ rxFifo \in Seq(AnyPacket) /\ queue \in Seq(AnyEvent)
  /\ part \in Nat /\ stored \in Nat /\ dmaLeft \in Int

FlagType ==
  /\ epDma \in BOOLEAN /\ dmaEnabled \in BOOLEAN /\ receiving \in BOOLEAN
  /\ rx_ready_for_data \in BOOLEAN
  /\ pc \in Steps

BaseInv == DataType /\ FlagType /\ IrqType

(* Posting keeps the queue one of events.                                  *)
LEMMA PostType ==
  ASSUME NEW q \in Seq(AnyEvent), NEW e \in AnyEvent, NEW b
  PROVE  Post(q, e) \in Seq(AnyEvent) /\ Posts(q, e, b) \in Seq(AnyEvent)
BY DEF Post, Posts

(* What is posted is an event.                                             *)
LEMMA EventType ==
  ASSUME NEW k \in {"reset", "resume", "suspend", "detach", "tx", "cmd", "data"}, NEW n \in Nat
  PROVE  Event(k, n) \in AnyEvent
BY DEF Event, AnyEvent

(* So does posting the RESUME and SUSPEND events.                          *)
LEMMA BusQueueType ==
  ASSUME queue \in Seq(AnyEvent)
  PROVE  BusQueue \in Seq(AnyEvent)
<1>1. Event("resume", 0) \in AnyEvent /\ Event("suspend", 0) \in AnyEvent
  BY EventType
<1>2. Posts(queue, Event("resume", 0), "resume" \in isr.misc) \in Seq(AnyEvent)
  BY <1>1, PostType
<1> QED BY <1>1, <1>2, PostType DEF BusQueue

(* The FIFO in the course of the handler: only ever shortened.             *)
LEMMA FifoTypes ==
  ASSUME rxFifo \in Seq(AnyPacket)
  PROVE  /\ FifoAfterEp0 \in Seq(AnyPacket)
         /\ FifoAfterRx \in Seq(AnyPacket)
         /\ FifoAfterTail \in Seq(AnyPacket)
         /\ FifoAfterDma \in Seq(AnyPacket)
         /\ TakesCommand => Head(FifoAfterEp0) \in AnyPacket
<1>1. FifoAfterEp0 \in Seq(AnyPacket) BY DEF FifoAfterEp0
<1>2. FifoAfterRx \in Seq(AnyPacket) BY <1>1 DEF FifoAfterRx, TakesCommand
<1>3. FifoAfterTail \in Seq(AnyPacket) BY <1>2 DEF FifoAfterTail, Popped
<1>4. FifoAfterDma \in Seq(AnyPacket) BY <1>2, <1>3 DEF FifoAfterDma, Popped
<1>5. TakesCommand => Head(FifoAfterEp0) \in AnyPacket BY <1>1 DEF TakesCommand
<1> QED BY <1>1, <1>2, <1>3, <1>4, <1>5

(* The data are of their types at first, ...                               *)
LEMMA BaseInit == Init => BaseInv
<1> SUFFICES ASSUME Init PROVE BaseInv
  OBVIOUS
<1> USE DEF Init
<1>1. DataType BY DEF DataType, AnyPacket, NoPacket
<1>2. FlagType BY DEF FlagType, Steps
<1>3. IrqType BY DEF IrqType, NoIsr
<1> QED BY <1>1, <1>2, <1>3 DEF BaseInv

(* ... and after every step, bus resets included.                          *)
LEMMA BaseStep ==
  ASSUME BaseInv, [Next]_vars
  PROVE  BaseInv'
<1> USE BoundAssumption, BusAssumption, ShapeAssumption
<1> USE DEF BaseInv, DataType, FlagType, IrqType, Steps, Sending, Arming, Misc,
            hwVars, bufVars, fgVars, hostVars, histVars, Foreground, BULK_IN, BULK_OUT
<1>1. ASSUME NEW packets \in Nat, NEW shape, shape \in {"none", "full", "short", "odd", "tail"},
             HostSendsCommand(packets, shape)
      PROVE BaseInv'
  <2>1. cmd' \in AnyPacket BY <1>1 DEF HostSendsCommand, AnyPacket
  <2> QED BY <2>1, <1>1 DEF HostSendsCommand, Arrive
<1>2. CASE HostSendsData
  <2>1. part + 1 \in Nat OBVIOUS
  <2>2. \A m \in Nat : [cmd EXCEPT !.part = m] \in AnyPacket BY Zenon DEF AnyPacket
  <2>3. [cmd EXCEPT !.part = part + 1] \in AnyPacket BY <2>1, <2>2
  <2> QED BY <2>3, <1>2 DEF HostSendsData, Arrive
<1>3. CASE HostReads BY <1>3 DEF HostReads
<1>4. CASE HostConfigures BY <1>4 DEF HostConfigures
<1>5. CASE HostConfigured BY <1>5 DEF HostConfigured
<1>6. ASSUME NEW e \in BusEvents, BusEvent(e) PROVE BaseInv'
  <2>1. CASE e = "reset" BY <2>1, <1>6 DEF BusEvent
  <2>2. CASE e # "reset" BY <2>2, <1>6 DEF BusEvent
  <2> QED BY <2>1, <2>2
<1>7. CASE DmaMoves BY <1>7 DEF DmaMoves
<1>8. CASE IsrSample BY <1>8 DEF IsrSample
<1>9. CASE IsrReset
  <2>1. queue' \in Seq(AnyEvent)
    <3>1. Event("reset", 0) \in AnyEvent BY EventType
    <3> QED BY <3>1, <1>9, PostType DEF IsrReset
  <2> QED BY <2>1, <1>9 DEF IsrReset, NoIsr
<1>10. CASE IsrDisconnect
  <2>1. queue' \in Seq(AnyEvent)
    <3>1. Event("detach", 0) \in AnyEvent BY EventType
    <3> QED BY <3>1, <1>10, PostType, BusQueueType DEF IsrDisconnect
  <2> QED BY <2>1, <1>10 DEF IsrDisconnect, NoIsr
<1>11. CASE IsrServe
  <2>1. rx_req_buffer' \in AnyPacket BY <1>11, FifoTypes DEF IsrServe
  <2>2. queue' \in Seq(AnyEvent)
    <3>1. Event("tx", 0) \in AnyEvent /\ Event("cmd", rx_req_buffer'.n) \in AnyEvent
          /\ Event("data", dma_rx.n) \in AnyEvent
      BY <2>1, EventType DEF AnyPacket
    <3>2. PostsTx \in BOOLEAN /\ TakesCommand \in BOOLEAN /\ PostsData \in BOOLEAN
      BY DEF PostsTx, TakesCommand, PostsData
    <3>3. Posts(BusQueue, Event("tx", 0), PostsTx) \in Seq(AnyEvent)
      BY <3>1, <3>2, PostType, BusQueueType
    <3>4. Posts(Posts(BusQueue, Event("tx", 0), PostsTx), Event("cmd", rx_req_buffer'.n), TakesCommand)
            \in Seq(AnyEvent)
      BY <3>1, <3>2, <3>3, PostType
    <3> QED BY <3>1, <3>2, <3>4, <1>11, PostType DEF IsrServe
  <2>3. rxFifo' \in Seq(AnyPacket) BY <1>11, FifoTypes DEF IsrServe
  <2>4. DataType' BY <2>1, <2>2, <2>3, <1>11 DEF IsrServe
  <2>5. FlagType' BY <1>11 DEF IsrServe, TakesCommand
  <2>6. IrqType' BY <1>11 DEF IsrServe, NoIsr
  <2> QED BY <2>4, <2>5, <2>6
<1>12. CASE EventHandler BY <1>12 DEF EventHandler
<1>13. CASE Consume BY <1>13 DEF Consume
<1>14. CASE RecvBegin BY <1>14 DEF RecvBegin
<1>15. CASE RecvConfig BY <1>15 DEF RecvConfig
<1>16. CASE RecvStart
  <2>1. dma_rx.packets \in Nat BY DEF AnyPacket
  <2>2. dmaLeft' \in Int BY <2>1, <1>16 DEF RecvStart
  <2> QED BY <2>2, <1>16 DEF RecvStart
<1>17. CASE RecvRestore BY <1>17 DEF RecvRestore
<1>18. ASSUME NEW packets \in 1..MaxPackets, SendBegin(packets) PROVE BaseInv'
  BY <1>18 DEF SendBegin
<1>19. CASE SendLoad BY <1>19 DEF SendLoad
<1>20. CASE SendCommit BY <1>20 DEF SendCommit
<1>21. CASE SendWait BY <1>21 DEF SendWait
<1>22. CASE SendRestore BY <1>22 DEF SendRestore
<1>23. CASE UNCHANGED vars BY <1>23 DEF vars
<1>24. CASE HostCommands
  <2>1. (CHOOSE s \in Shapes : TRUE) \in {"none", "full", "short", "odd", "tail"}
    BY ShapeAssumption
  <2>2. ASSUME HostSendsCommand(0, CHOOSE s \in Shapes : TRUE) PROVE BaseInv'
    <3>1. 0 \in Nat OBVIOUS
    <3> QED BY ONLY <3>1, <2>1, <2>2, <1>1
  <2>3. ASSUME NEW packets \in 1..MaxPackets, NEW shape \in Shapes, HostSendsCommand(packets, shape)
        PROVE BaseInv'
    BY <2>3, <1>1
  <2> QED BY <1>24, <2>2, <2>3 DEF HostCommands
<1> QED BY <1>2, <1>3, <1>4, <1>5, <1>6, <1>7, <1>8, <1>9, <1>10, <1>11, <1>12, <1>13, <1>14,
           <1>15, <1>16, <1>17, <1>18, <1>19, <1>20, <1>21, <1>22, <1>23, <1>24
        DEF Next, HostProgress, Isr, Client

-----------------------------------------------------------------------------
(* The completion of Transfer(Rx).                                         *)

(* A payload is no single packet of less than four bytes.                  *)
Sendable(p) == p.shape = "tail" => p.packets # 1

AllSendable ==
  /\ Sendable(cmd) /\ Sendable(job) /\ Sendable(rx_req_buffer) /\ Sendable(dma_rx)
  /\ \A i \in 1..Len(rxFifo) : Sendable(rxFifo[i])

(* Only a command that announces a payload makes the client receive.       *)
Receiving ==
  /\ pc = "recv" => job.packets > 0
  /\ pc \in {"recvConfig", "recvStart"} => dma_rx.packets > 0
  /\ receiving => pc = "poll" \/ pc \in Arming

Reported(q) == \E i \in 1..Len(q) : q[i].kind \in {"data", "reset"}

(* A finished transfer has its status bit or its event, also while the     *)
(* endpoint is being restored and while the handler runs; and the interrupt*)
(* of the channel is off only behind the event of a reset.                 *)
Finished ==
  receiving /\ pc \in {"poll", "recvRestore"} =>
    /\ dmaEnabled \/ Reported(queue)
    /\ dmaLeft = 0 => dma_irq \/ Reported(queue) \/ unread

(* What the handler read of the DMA status is still there.                 *)
StillSet == isr.on /\ isr.dma => dma_irq

CompletionInv == BaseInv /\ AllSendable /\ Receiving /\ Finished /\ StillSet /\ unread \in BOOLEAN

(* The event queue never runs full.                                        *)
QueueRoom == Len(queue) < QueueMax

(* An event stays in the queue while others are posted or taken, and one   *)
(* that is posted to a queue that is not full then is in it.               *)
LEMMA ReportedKept ==
  ASSUME NEW q \in Seq(AnyEvent), NEW e \in AnyEvent, NEW b
  PROVE  /\ Reported(q) => Reported(Post(q, e)) /\ Reported(Posts(q, e, b))
         /\ b /\ e.kind \in {"data", "reset"} /\ Len(Posts(q, e, b)) < QueueMax => Reported(Posts(q, e, b))
         /\ q # <<>> /\ Head(q).kind \notin {"data", "reset"} /\ Reported(q) => Reported(Tail(q))
<1> USE BoundAssumption DEF Post, Posts, Reported
<1>1. ASSUME Reported(q) PROVE Reported(Append(q, e))
  <2>1. PICK i \in 1..Len(q) : q[i].kind \in {"data", "reset"} BY <1>1
  <2>2. i \in 1..Len(Append(q, e)) /\ Append(q, e)[i] = q[i] BY <2>1
  <2> QED BY <2>1, <2>2
<1>2. Reported(q) => Reported(Post(q, e)) /\ Reported(Posts(q, e, b)) BY <1>1
<1>3. ASSUME e.kind \in {"data", "reset"} PROVE Reported(Append(q, e))
  <2>1. Len(q) + 1 \in 1..Len(Append(q, e)) /\ Append(q, e)[Len(q) + 1] = e OBVIOUS
  <2> QED BY <2>1, <1>3
<1>4. ASSUME b, e.kind \in {"data", "reset"}, Len(Posts(q, e, b)) < QueueMax PROVE Reported(Posts(q, e, b))
  BY <1>3, <1>4
<1>5. ASSUME q # <<>>, Head(q).kind \notin {"data", "reset"}, Reported(q) PROVE Reported(Tail(q))
  <2>1. PICK i \in 1..Len(q) : q[i].kind \in {"data", "reset"} BY <1>5
  <2>2. i - 1 \in 1..Len(Tail(q)) /\ Tail(q)[i - 1] = q[i] BY <2>1, <1>5
  <2> QED BY <2>1, <2>2
<1> QED BY <1>2, <1>4, <1>5

(* The FIFO in the course of the handler holds packets it held before.     *)
LEMMA FifoSendable ==
  ASSUME BaseInv, AllSendable
  PROVE  /\ \A i \in 1..Len(FifoAfterDma) : Sendable(FifoAfterDma[i])
         /\ TakesCommand => Sendable(Head(FifoAfterEp0))
<1> USE DEF BaseInv, DataType
<1> DEFINE Good(f) == f \in Seq(AnyPacket) /\ \A i \in 1..Len(f) : Sendable(f[i])
<1>1. ASSUME NEW f, Good(f), f # <<>> PROVE Good(Tail(f)) /\ Sendable(Head(f))
  BY <1>1
<1>2. Good(FifoAfterEp0) BY DEF FifoAfterEp0, AllSendable
<1>3. Good(FifoAfterRx) BY <1>1, <1>2 DEF FifoAfterRx, TakesCommand
<1>4. Good(FifoAfterTail) BY <1>1, <1>3 DEF FifoAfterTail, Popped
<1>5. Good(FifoAfterDma) BY <1>1, <1>3, <1>4 DEF FifoAfterDma, Popped
<1> QED BY <1>1, <1>2, <1>5 DEF TakesCommand

(* No transfer is under way at first.                                      *)
LEMMA CompletionInit == Init => CompletionInv
<1> SUFFICES ASSUME Init PROVE CompletionInv
  OBVIOUS
<1>1. BaseInv BY BaseInit
<1>2. AllSendable BY DEF Init, AllSendable, Sendable, NoPacket
<1>3. Receiving /\ Finished /\ StillSet /\ unread \in BOOLEAN
  BY DEF Init, Receiving, Finished, StillSet, NoIsr
<1> QED BY <1>1, <1>2, <1>3 DEF CompletionInv

(* No step loses a completion, unless the queue is full after it.          *)
LEMMA CompletionStep ==
  ASSUME CompletionInv, QueueRoom', [Next]_vars
  PROVE  CompletionInv'
<1>0. BaseInv' BY BaseStep DEF CompletionInv
<1> USE <1>0, BoundAssumption
<1> DEFINE Rest == AllSendable /\ Receiving /\ Finished /\ StillSet /\ unread \in BOOLEAN
<1> SUFFICES Rest' BY DEF CompletionInv
<1> USE DEF CompletionInv, BaseInv, DataType, FlagType, AllSendable, Receiving, Finished, StillSet,
            Steps,
            Sending, Arming, hwVars, bufVars, fgVars, hostVars, histVars, Foreground, Outside
<1>1. ASSUME NEW packets \in Nat, NEW shape, shape = "tail" => packets # 1,
             HostSendsCommand(packets, shape)
      PROVE Rest'
  <2>1. Sendable(cmd') BY <1>1 DEF HostSendsCommand, Sendable
  <2>2. rxFifo' = Append(rxFifo, cmd') BY <1>1 DEF HostSendsCommand, Arrive
  <2>3. AllSendable' BY <2>1, <2>2, <1>1 DEF HostSendsCommand
  <2> QED BY <2>3, <1>1 DEF HostSendsCommand
<1>2. CASE HostSendsData
  <2>1. \A m : Sendable([cmd EXCEPT !.part = m]) BY DEF Sendable, AnyPacket
  <2>2. rxFifo' = Append(rxFifo, [cmd EXCEPT !.part = part + 1]) BY <1>2 DEF HostSendsData, Arrive
  <2>3. AllSendable'
    <3>1. Sendable([cmd EXCEPT !.part = part + 1]) BY <2>1
    <3>2. \A i \in 1..Len(rxFifo') : Sendable(rxFifo'[i])
      <4> DEFINE p == [cmd EXCEPT !.part = part + 1]
      <4>1. rxFifo' = Append(rxFifo, p) /\ Sendable(p) BY <2>2, <3>1
      <4> HIDE DEF p
      <4> QED BY <4>1
    <3> QED BY <3>2, <1>2 DEF HostSendsData
  <2> QED BY <2>3, <1>2 DEF HostSendsData
<1>3. CASE HostReads BY <1>3 DEF HostReads
<1>4. CASE HostConfigures BY <1>4 DEF HostConfigures
<1>5. CASE HostConfigured BY <1>5 DEF HostConfigured
<1>6. ASSUME NEW e \in BusEvents, BusEvent(e) PROVE Rest'
  <2>1. CASE e = "reset" BY <2>1, <1>6 DEF BusEvent
  <2>2. CASE e # "reset" BY <2>2, <1>6 DEF BusEvent
  <2> QED BY <2>1, <2>2
<1>7. CASE DmaMoves
  <2>1. AllSendable' BY <1>7 DEF DmaMoves
  <2>2. Finished'
    <3>1. dmaLeft' = 0 => dmaLeft = 1 BY <1>7 DEF DmaMoves
    <3>2. dma_irq' <=> dma_irq \/ dmaLeft = 1 BY <1>7, Zenon DEF DmaMoves
    <3> QED BY <3>1, <3>2, <1>7 DEF DmaMoves
  <2>3. Receiving' /\ StillSet' /\ unread' \in BOOLEAN BY <1>7 DEF DmaMoves
  <2> QED BY <2>1, <2>2, <2>3
<1>8. CASE IsrSample BY <1>8 DEF IsrSample, IrqType
<1>9. CASE IsrReset
  <2>1. Reported(queue')
    <3>1. Event("reset", 0) \in AnyEvent /\ Event("reset", 0).kind = "reset"
      BY EventType DEF Event
    <3>2. queue' = Posts(queue, Event("reset", 0), TRUE) /\ Len(queue') < QueueMax
      BY <1>9 DEF IsrReset, QueueRoom, Posts
    <3> QED BY <3>1, <3>2, ReportedKept
  <2> QED BY <2>1, <1>9 DEF IsrReset, NoIsr
<1>10. CASE IsrDisconnect
  <2>1. Reported(queue) => Reported(queue')
    <3>1. Event("resume", 0) \in AnyEvent /\ Event("suspend", 0) \in AnyEvent /\ Event("detach", 0) \in AnyEvent
      BY EventType
    <3>2. Reported(queue) => Reported(Posts(queue, Event("resume", 0), "resume" \in isr.misc))
      BY <3>1, ReportedKept
    <3>3. Reported(queue) => Reported(BusQueue)
      BY <3>1, <3>2, PostType, ReportedKept DEF BusQueue
    <3> QED BY <3>1, <3>3, <1>10, BusQueueType, ReportedKept DEF IsrDisconnect
  <2> QED BY <2>1, <1>10 DEF IsrDisconnect, NoIsr
<1>11. CASE IsrServe
  <2> DEFINE q1 == Posts(BusQueue, Event("tx", 0), PostsTx)
             q2 == Posts(q1, Event("cmd", rx_req_buffer'.n), TakesCommand)
  <2>1. /\ Event("resume", 0) \in AnyEvent /\ Event("suspend", 0) \in AnyEvent
        /\ Event("tx", 0) \in AnyEvent /\ Event("cmd", rx_req_buffer'.n) \in AnyEvent
        /\ Event("data", dma_rx.n) \in AnyEvent
    BY EventType DEF AnyPacket
  <2>2. q1 \in Seq(AnyEvent) /\ q2 \in Seq(AnyEvent)
    BY <2>1, BusQueueType, PostType
  <2>3. Reported(queue) => Reported(q2)
    <3>1. Reported(queue) => Reported(Posts(queue, Event("resume", 0), "resume" \in isr.misc))
      BY <2>1, ReportedKept
    <3>2. Reported(queue) => Reported(BusQueue)
      BY <2>1, <3>1, PostType, ReportedKept DEF BusQueue
    <3>3. Reported(queue) => Reported(q1)
      BY <2>1, <3>2, BusQueueType, ReportedKept
    <3> QED BY <2>1, <2>2, <3>3, ReportedKept
  <2>4. queue' = Posts(q2, Event("data", dma_rx.n), isr.dma)
    BY <1>11 DEF IsrServe, PostsData
  <2>5. Reported(queue) \/ isr.dma => Reported(queue')
    <3>1. Event("data", dma_rx.n).kind = "data" BY DEF Event
    <3>2. Len(queue') < QueueMax BY DEF QueueRoom
    <3> HIDE DEF q1, q2
    <3>3. Reported(queue) => Reported(queue') BY <2>1, <2>2, <2>3, <2>4, ReportedKept
    <3>4. isr.dma => Reported(queue') BY <2>1, <2>2, <2>4, <3>1, <3>2, ReportedKept
    <3> QED BY <3>3, <3>4
  <2>6. Finished' BY <2>5, <1>11 DEF IsrServe
  <2>7. AllSendable' BY FifoSendable, <1>11 DEF IsrServe
  <2>8. Receiving' /\ StillSet' /\ unread' \in BOOLEAN BY <1>11 DEF IsrServe, NoIsr
  <2> QED BY <2>6, <2>7, <2>8
<1>12. CASE EventHandler
  <2>1. queue # <<>> /\ queue' = Tail(queue) BY <1>12 DEF EventHandler
  <2>2. receiving' => Head(queue).kind \notin {"data", "reset"}
    <3>1. receiving' <=> receiving /\ Head(queue).kind \notin {"reset", "data", "cmd"}
      BY <1>12, Zenon DEF EventHandler
    <3> QED BY <3>1
  <2>3. receiving' /\ Reported(queue) => Reported(queue')
    <3>1. CASE ~receiving' BY <3>1
    <3>2. CASE receiving'
      <4>1. Head(queue) \in AnyEvent BY <2>1
      <4> QED BY <2>1, <2>2, <3>2, <4>1, ReportedKept
    <3> QED BY <3>1, <3>2
  <2> QED BY <2>3, <1>12 DEF EventHandler
<1>13. CASE Consume BY <1>13 DEF Consume
<1>14. CASE RecvBegin BY <1>14 DEF RecvBegin
<1>15. CASE RecvConfig BY <1>15 DEF RecvConfig
<1>16. CASE RecvStart
  <2>1. dma_rx.packets \in Nat BY DEF AnyPacket
  <2>2. dmaLeft' # 0 BY <2>1, <1>16 DEF RecvStart, Sendable
  <2> QED BY <2>2, <1>16 DEF RecvStart
<1>17. CASE RecvRestore BY <1>17 DEF RecvRestore
<1>18. ASSUME NEW packets \in 1..MaxPackets, SendBegin(packets) PROVE Rest'
  BY <1>18 DEF SendBegin
<1>19. CASE SendLoad BY <1>19 DEF SendLoad
<1>20. CASE SendCommit BY <1>20 DEF SendCommit
<1>21. CASE SendWait BY <1>21 DEF SendWait
<1>22. CASE SendRestore BY <1>22 DEF SendRestore
<1>23. CASE UNCHANGED vars BY <1>23 DEF vars
<1>24. CASE HostCommands
  <2>1. ASSUME HostSendsCommand(0, CHOOSE s \in Shapes : TRUE) PROVE Rest'
    <3>1. 0 \in Nat /\ 0 # 1 OBVIOUS
    <3> HIDE DEF Rest
    <3> QED BY ONLY <3>1, <2>1, <1>1
  <2>2. ASSUME NEW packets \in 1..MaxPackets, NEW shape \in Shapes, shape = "tail" => packets > 1,
               HostSendsCommand(packets, shape)
        PROVE Rest'
    <3>1. packets \in Nat /\ (shape = "tail" => packets # 1) BY <2>2
    <3> HIDE DEF Rest
    <3> QED BY ONLY <3>1, <2>2, <1>1
  <2> HIDE DEF Rest
  <2> QED BY <1>24, <2>1, <2>2 DEF HostCommands
<1> HIDE DEF Rest
<1> QED BY <1>2, <1>3, <1>4, <1>5, <1>6, <1>7, <1>8, <1>9, <1>10, <1>11, <1>12, <1>13, <1>14,
           <1>15, <1>16, <1>17, <1>18, <1>19, <1>20, <1>21, <1>22, <1>23, <1>24
        DEF Next, HostProgress, Isr, Client

(* The completion of Transfer(Rx) is not lost (CompletionNotLost), even if *)
(* the bus is reset, suspended or disconnected and the hardware moves at   *)
(* any moment: sunxi_usb_irq reports it, unless usb_dma_int_clear clears it*)
(* in the very run whose usb_dma_int_query came before it; provided that   *)
(* the queue never runs full, where UsbQueueEventMassage drops the event.  *)
THEOREM CompletionKept == Spec /\ []QueueRoom => []CompletionNotLost
<1>1. CompletionInv /\ QueueRoom' /\ [Next]_vars => CompletionInv' BY CompletionStep
<1>2. CompletionInv => CompletionNotLost
  BY DEF CompletionInv, Finished, CompletionNotLost, PayloadMoved, Delivered, Reported
<1> QED BY <1>1, <1>2, CompletionInit, PTL DEF Spec

-----------------------------------------------------------------------------
(* Receiving: a command, its payload, and the events of the two.           *)

Protocol == {"cmd", "data"}

(* The queue holds no event of a command or a payload; it holds at most e. *)
Quiet(q) == \A i \in 1..Len(q) : q[i].kind \notin Protocol
Only(q, e) ==
  /\ \A i \in 1..Len(q) : q[i].kind \in Protocol => q[i] = e
  /\ \A i, j \in 1..Len(q) : q[i].kind \in Protocol /\ q[j].kind \in Protocol => i = j

(* Packets of the exchange that have left the FIFO, its command not counted.*)
Gone == part - Len(rxFifo)

HostInv ==
  /\ cmd.part = 0
  /\ cmd.packets > 0 => cmd.shape \in {"full", "short", "odd"}
  /\ hpc \in {"idle", "payload", "await"}
  /\ hpc = "payload" => part < cmd.packets
  /\ hpc # "payload" => part = cmd.packets
  /\ hpc = "idle" => rxFifo = <<>> /\ ~rx_ready_for_data

(* The FIFO holds the last packets the host sent, in their order.          *)
InOrder ==
  \A i \in 1..Len(rxFifo) :
    rxFifo[i] = [n |-> cmd.n, part |-> Gone + i, packets |-> cmd.packets, shape |-> cmd.shape]

(* Once the host goes on to the next command, the response has been sent.  *)
Responded ==
  rx_ready_for_data \/ rxFifo # <<>> \/ hpc = "idle" =>
    ~txReady /\ left = 0 /\ pc \notin {"sendLoad", "sendCommit"}

(* No DMA transfer is under way.                                           *)
NoDma == dmaLeft = 0 /\ ~dma_irq

(* The command of the exchange has not been taken from the FIFO.           *)
Untaken ==
  ~rx_ready_for_data =>
    /\ pc = "poll" \/ pc \in Sending
    /\ ~receiving /\ NoDma /\ Quiet(queue)
    /\ rxFifo # <<>> => Gone = -1
    /\ rxFifo = <<>> => hpc # "payload"

(* DMA: under way; at its end, with an incomplete packet left to the       *)
(* handler; and reported.                                                  *)
Moving ==
  /\ dmaLeft > 0 /\ ~dma_irq /\ Quiet(queue)
  /\ dmaLeft + Gone = cmd.packets /\ stored = Gone
Moved ==
  /\ dmaLeft = 0 /\ Quiet(queue) /\ part = cmd.packets
  /\ Len(rxFifo) = IF cmd.shape = "full" THEN 0 ELSE 1
  /\ stored = IF cmd.shape = "odd" THEN cmd.packets - 1 ELSE cmd.packets
Complete ==
  /\ NoDma /\ rxFifo = <<>> /\ part = cmd.packets /\ stored = cmd.packets
  /\ Only(queue, Event("data", cmd.n))

(* It has been taken, and is the client's by the step it has come to.      *)
Taken ==
  rx_ready_for_data =>
    /\ hpc # "idle" /\ rx_req_buffer = cmd /\ Gone >= 0
    /\ receiving => pc = "poll" \/ pc \in Arming
    /\ pc \in {"poll", "sendWait", "sendRestore"} /\ ~receiving =>
         NoDma /\ Gone = 0 /\ Only(queue, Event("cmd", cmd.n))
    /\ pc \in {"consume", "recv", "recvConfig", "recvStart"} =>
         NoDma /\ Gone = 0 /\ Quiet(queue)
    /\ pc = "recv" => job = cmd
    /\ pc \in {"recv", "recvConfig", "recvStart"} => cmd.packets > 0
    /\ pc \in {"recvConfig", "recvStart"} => stored = 0
    /\ pc \in Arming => receiving
    /\ receiving => dma_rx = cmd /\ cmd.packets > 0
    /\ pc \in {"recvRestore", "poll"} /\ receiving => Moving \/ Moved \/ Complete
    /\ pc = "respond" => NoDma /\ rxFifo = <<>> /\ hpc = "await" /\ Quiet(queue)

NoResetIn(q) == \A i \in 1..Len(q) : q[i].kind # "reset"

RxInv ==
  /\ TxInv /\ BaseInv
  /\ NoResetIn(queue)
  /\ HostInv /\ InOrder /\ Responded /\ Untaken /\ Taken
  /\ isr.dma => dma_irq

(* Posting another event changes nothing for those of the protocol; posting*)
(* one of them to a quiet queue makes it the only one.                     *)
LEMMA QueueKept ==
  ASSUME NEW q \in Seq(AnyEvent), NEW e \in AnyEvent, NEW b, NEW x
  PROVE  /\ Quiet(q) => Only(q, x)
         /\ e.kind \notin Protocol /\ Quiet(q) => Quiet(Post(q, e)) /\ Quiet(Posts(q, e, b))
         /\ e.kind \notin Protocol /\ Only(q, x) => Only(Post(q, e), x) /\ Only(Posts(q, e, b), x)
         /\ Quiet(q) => Only(Posts(q, e, b), e)
<1>1. Quiet(q) => Only(q, x) BY DEF Quiet, Only
<1>2. ASSUME e.kind \notin Protocol, Quiet(q) PROVE Quiet(Append(q, e))
  BY <1>2 DEF Quiet
<1>3. ASSUME e.kind \notin Protocol, Only(q, x) PROVE Only(Append(q, e), x)
  BY <1>3 DEF Only
<1>4. ASSUME Quiet(q) PROVE Only(q, e) /\ Only(Append(q, e), e)
  BY <1>4 DEF Only, Quiet
<1> QED BY <1>1, <1>2, <1>3, <1>4 DEF Post, Posts

(* Taking the only event of the protocol leaves a quiet queue.             *)
LEMMA QueueTaken ==
  ASSUME NEW q \in Seq(AnyEvent), q # <<>>, NEW x
  PROVE  /\ Quiet(q) => Quiet(Tail(q)) /\ Head(q).kind \notin Protocol
         /\ Only(q, x) => Only(Tail(q), x)
         /\ Only(q, x) /\ Head(q).kind \in Protocol => Head(q) = x /\ Quiet(Tail(q))
<1>1. /\ Len(q) \in Nat /\ 1 \in 1..Len(q) /\ Head(q) = q[1]
      /\ \A i \in 1..Len(Tail(q)) : i + 1 \in 1..Len(q) /\ i + 1 # 1 /\ Tail(q)[i] = q[i + 1]
  OBVIOUS
<1>2. \A i, j \in 1..Len(Tail(q)) : i + 1 = j + 1 => i = j
  OBVIOUS
<1>3. Quiet(q) => Quiet(Tail(q)) /\ Head(q).kind \notin Protocol
  BY <1>1 DEF Quiet
<1>4. Only(q, x) => Only(Tail(q), x)
  BY <1>1, <1>2 DEF Only
<1>5. Only(q, x) /\ Head(q).kind \in Protocol => Head(q) = x /\ Quiet(Tail(q))
  BY <1>1 DEF Only, Quiet
<1> QED BY <1>3, <1>4, <1>5

(* Bus events and completions of Transfer(Tx) are not of the protocol.     *)
LEMMA BusQueueKept ==
  ASSUME queue \in Seq(AnyEvent), NEW x, NEW b
  PROVE  /\ Quiet(queue) => /\ Quiet(Post(BusQueue, Event("detach", 0)))
                            /\ Quiet(Posts(BusQueue, Event("tx", 0), b))
         /\ Only(queue, x) => /\ Only(Post(BusQueue, Event("detach", 0)), x)
                              /\ Only(Posts(BusQueue, Event("tx", 0), b), x)
<1>1. \A k \in {"resume", "suspend", "detach", "tx"} :
        Event(k, 0) \in AnyEvent /\ Event(k, 0).kind \notin Protocol
  BY DEF Event, AnyEvent, Protocol
<1> DEFINE q1 == Posts(queue, Event("resume", 0), "resume" \in isr.misc)
<1>2. q1 \in Seq(AnyEvent) /\ BusQueue \in Seq(AnyEvent)
  BY <1>1, PostType, BusQueueType
<1>3. (Quiet(queue) => Quiet(q1)) /\ (Only(queue, x) => Only(q1, x))
  BY <1>1, QueueKept
<1>4. (Quiet(queue) => Quiet(BusQueue)) /\ (Only(queue, x) => Only(BusQueue, x))
  <2>1. BusQueue = Posts(q1, Event("suspend", 0), "suspend" \in isr.misc) BY DEF BusQueue
  <2> HIDE DEF q1
  <2> QED BY <1>1, <1>2, <1>3, <2>1, QueueKept
<1> HIDE DEF q1
<1> QED BY <1>1, <1>2, <1>4, QueueKept

(* Without a bus reset there is no event of one.                           *)
LEMMA NoResetKept ==
  ASSUME NoReset, TxInv, BaseInv, NoResetIn(queue), [Next]_vars
  PROVE  NoResetIn(queue)'
<1>1. ASSUME NEW q \in Seq(AnyEvent), NEW k \in {"resume", "suspend", "detach", "tx", "cmd", "data"},
             NEW n \in Nat, NEW b, NoResetIn(q)
      PROVE  /\ Post(q, Event(k, n)) \in Seq(AnyEvent) /\ NoResetIn(Post(q, Event(k, n)))
             /\ Posts(q, Event(k, n), b) \in Seq(AnyEvent) /\ NoResetIn(Posts(q, Event(k, n), b))
  <2>1. Event(k, n) \in AnyEvent /\ Event(k, n).kind # "reset" BY DEF Event, AnyEvent
  <2>2. NoResetIn(Append(q, Event(k, n))) BY <1>1, <2>1 DEF NoResetIn
  <2> QED BY <1>1, <2>1, <2>2, PostType DEF Post, Posts
<1> DEFINE q1 == Posts(queue, Event("resume", 0), "resume" \in isr.misc)
           q2 == Posts(BusQueue, Event("tx", 0), PostsTx)
           q3 == Posts(q2, Event("cmd", rx_req_buffer'.n), TakesCommand)
<1>2. queue \in Seq(AnyEvent) BY DEF BaseInv, DataType
<1>3. q1 \in Seq(AnyEvent) /\ NoResetIn(q1) BY <1>1, <1>2
<1>4. BusQueue \in Seq(AnyEvent) /\ NoResetIn(BusQueue)
  <2>1. BusQueue = Posts(q1, Event("suspend", 0), "suspend" \in isr.misc) BY DEF BusQueue
  <2> HIDE DEF q1
  <2> QED BY <1>1, <1>3, <2>1
<1>5. CASE IsrReset BY <1>5 DEF IsrReset, TxInv, Configured
<1>6. CASE IsrDisconnect BY <1>1, <1>4, <1>6 DEF IsrDisconnect
<1>7. CASE IsrServe
  <2>1. rx_req_buffer'.n \in Nat /\ dma_rx.n \in Nat
    BY BaseStep DEF BaseInv, DataType, AnyPacket
  <2>2. q2 \in Seq(AnyEvent) /\ NoResetIn(q2) BY <1>1, <1>4
  <2> HIDE DEF q2
  <2>3. q3 \in Seq(AnyEvent) /\ NoResetIn(q3) BY <1>1, <2>1, <2>2
  <2>4. queue' = Posts(q3, Event("data", dma_rx.n), PostsData) BY <1>7 DEF IsrServe, q2
  <2> HIDE DEF q3
  <2> QED BY <1>1, <2>1, <2>3, <2>4
<1>8. CASE EventHandler
  <2>1. queue # <<>> /\ queue' = Tail(queue) BY <1>8 DEF EventHandler
  <2> QED BY <1>2, <2>1 DEF NoResetIn
<1>9. CASE queue' = queue BY <1>9
<1>10. IsrReset \/ IsrDisconnect \/ IsrServe \/ EventHandler \/ queue' = queue
  BY DEF Next, vars, hwVars, bufVars, HostCommands, HostProgress, Isr, Client, HostSendsCommand,
      HostSendsData,
         HostReads, HostConfigures, HostConfigured, BusEvent, DmaMoves, IsrSample, Consume, RecvBegin,
         RecvConfig, RecvStart, RecvRestore, SendBegin, SendLoad, SendCommit, SendWait, SendRestore
<1> QED BY <1>5, <1>6, <1>7, <1>8, <1>9, <1>10

(* The invariant says that receiving is exact.                             *)
LEMMA RxImplied == RxInv => CommandIntact /\ RxEventComplete
<1> SUFFICES ASSUME RxInv PROVE CommandIntact /\ RxEventComplete
  OBVIOUS
<1> USE DEF RxInv, BaseInv, DataType, FlagType, Untaken, Taken, Moving, Moved, Complete
<1>1. ASSUME NEW i \in 1..Len(queue), queue[i].kind = "cmd"
      PROVE  rx_req_buffer.n = queue[i].n /\ rx_req_buffer.part = 0
  <2>1. ~Quiet(queue) BY <1>1 DEF Quiet, Protocol
  <2>2. ~Only(queue, Event("data", cmd.n)) BY <1>1 DEF Only, Protocol, Event
  <2>3. rx_ready_for_data BY <2>1
  <2>4. Only(queue, Event("cmd", cmd.n))
    BY <2>1, <2>2, <2>3 DEF Steps, Sending, Arming, Responded
  <2>5. queue[i].n = cmd.n BY <2>4, <1>1 DEF Only, Protocol, Event
  <2> QED BY <2>3, <2>5 DEF HostInv
<1>2. ASSUME NEW i \in 1..Len(queue), queue[i].kind = "data"
      PROVE  stored = dma_rx.packets
  <2>1. ~Quiet(queue) BY <1>2 DEF Quiet, Protocol
  <2>2. ~Only(queue, Event("cmd", cmd.n)) BY <1>2 DEF Only, Protocol, Event
  <2>3. rx_ready_for_data BY <2>1
  <2>4. receiving /\ Complete
    BY <2>1, <2>2, <2>3 DEF Steps, Sending, Arming, Responded
  <2> QED BY <2>3, <2>4
<1> QED BY <1>1, <1>2 DEF CommandIntact, RxEventComplete

(* It holds at first, ...                                                  *)
LEMMA RxInit == Init => RxInv
<1> SUFFICES ASSUME Init PROVE RxInv
  OBVIOUS
<1>1. TxInv /\ BaseInv BY TxInit, BaseInit
<1>2. HostInv /\ InOrder /\ Responded BY DEF Init, HostInv, InOrder, Responded, NoPacket
<1>3. Untaken /\ Taken BY DEF Init, Untaken, Taken, NoDma, Quiet
<1>4. (isr.dma => dma_irq) /\ NoResetIn(queue) BY DEF Init, NoIsr, NoResetIn
<1> QED BY <1>1, <1>2, <1>3, <1>4 DEF RxInv

(* A packet of the payload, spelled out.                                   *)
LEMMA NextPart ==
  ASSUME NEW c \in AnyPacket, NEW m \in Nat
  PROVE  [c EXCEPT !.part = m] = [n |-> c.n, part |-> m, packets |-> c.packets, shape |-> c.shape]
BY DEF AnyPacket

(* A FIFO of one packet is empty without it.                               *)
LEMMA TailOfOne ==
  ASSUME NEW f \in Seq(AnyPacket), Len(f) = 1
  PROVE  f # <<>> /\ Tail(f) = <<>>
<1>1. f # <<>> OBVIOUS
<1>2. Tail(f) \in Seq(AnyPacket) /\ Len(Tail(f)) = 0 BY <1>1
<1>3. ASSUME NEW g \in Seq(AnyPacket), Len(g) = 0 PROVE g = <<>> BY <1>3
<1> QED BY ONLY <1>1, <1>2, <1>3

(* If one packet is left to come and one is here, it is the last.          *)
LEMMA LastPacket ==
  ASSUME NEW len \in Nat, NEW sent \in Nat, NEW packets \in Nat,
         len > 0, sent <= packets, (sent - len) + 1 = packets
  PROVE  sent = packets /\ len = 1
OBVIOUS

(* The actions that leave the FIFO, the queue and DMA alone.               *)
LEMMA RxAside ==
  ASSUME RxInv, TxInv', BaseInv',
         UNCHANGED <<rxFifo, queue, dmaLeft, rx_ready_for_data, rx_req_buffer, dma_rx, stored, job,
                     receiving, cmd, part, hpc>>,
         dma_irq' = dma_irq, isr'.dma => dma_irq,
         \/ pc' = pc
         \/ pc \in {"sendWait", "sendRestore"} /\ pc' \in {"poll", "sendRestore"}
         \/ pc \in Sending /\ pc' \in Sending /\ ~rx_ready_for_data /\ rxFifo = <<>> /\ hpc # "idle"
         \/ pc = "recvConfig" /\ pc' = "recvStart"
         \/ pc = "recvRestore" /\ pc' = "poll",
         Responded'
  PROVE  RxInv'
<1> USE DEF RxInv, BaseInv, FlagType, Steps, Sending, Arming, Gone, NoDma
<1>1. HostInv' /\ InOrder' BY DEF HostInv, InOrder
<1>2. Untaken' BY DEF Untaken
<1>3. Taken' BY DEF Taken, Moving, Moved, Complete
<1> QED BY <1>1, <1>2, <1>3

(* ... and every step preserves it that is no bus reset.                   *)
LEMMA RxStep ==
  ASSUME NoReset, "tail" \notin Shapes, RxInv, [Next]_vars
  PROVE  RxInv'
<1>0. TxInv' /\ BaseInv' /\ NoResetIn(queue)' BY TxStep, BaseStep, NoResetKept DEF RxInv
<1> USE <1>0, BoundAssumption, ShapeAssumption
<1> USE DEF hwVars, bufVars, fgVars, hostVars, histVars, Foreground
<1>1. ASSUME NEW packets \in Nat, NEW shape, packets > 0 => shape \in {"full", "short", "odd"},
             HostSendsCommand(packets, shape)
      PROVE  RxInv'
  <2>1. hpc = "idle" /\ rxFifo = <<>> /\ ~rx_ready_for_data
    BY <1>1 DEF HostSendsCommand, RxInv, HostInv
  <2>2. rxFifo' = <<cmd'>> /\ part' = 0 /\ Len(rxFifo') = 1 /\ rxFifo'[1] = cmd'
    BY <2>1, <1>1 DEF HostSendsCommand, Arrive
  <2>3. cmd' = [n |-> cmd.n + 1, part |-> 0, packets |-> packets, shape |-> shape]
    BY <1>1 DEF HostSendsCommand
  <2>4. HostInv' BY <2>1, <2>2, <2>3, <1>1 DEF HostSendsCommand, HostInv
  <2>5. InOrder' BY <2>2, <2>3 DEF InOrder, Gone
  <2>6. Responded' BY <2>1, <1>1 DEF HostSendsCommand, RxInv, Responded
  <2>7. Untaken' BY <2>1, <2>2, <1>1 DEF HostSendsCommand, RxInv, Untaken, NoDma, Gone
  <2>8. Taken' BY <2>1, <1>1 DEF HostSendsCommand, Taken
  <2> QED BY <2>4, <2>5, <2>6, <2>7, <2>8, <1>1 DEF HostSendsCommand, RxInv
<1>2. CASE HostSendsData
  <2>1. hpc = "payload" /\ part < cmd.packets /\ part \in Nat /\ cmd.packets \in Nat
    BY <1>2 DEF HostSendsData, RxInv, HostInv, BaseInv, DataType, AnyPacket
  <2>2. /\ rxFifo' = Append(rxFifo, [cmd EXCEPT !.part = part + 1])
        /\ part' = part + 1 /\ cmd' = cmd
    BY <1>2 DEF HostSendsData, Arrive
  <2>3. Len(rxFifo) \in Nat /\ Len(rxFifo') = Len(rxFifo) + 1 /\ Gone' = Gone /\ rxFifo' # <<>>
    BY <2>1, <2>2 DEF RxInv, BaseInv, DataType, Gone
  <2>4. HostInv' BY <2>1, <2>2, <1>2 DEF HostSendsData, RxInv, HostInv
  <2>5. InOrder'
    <3>1. SUFFICES ASSUME NEW i \in 1..Len(rxFifo')
                   PROVE  rxFifo'[i] = [n |-> cmd.n, part |-> Gone + i, packets |-> cmd.packets,
                                        shape |-> cmd.shape]
      BY <2>2, <2>3 DEF InOrder
    <3>2. CASE i \in 1..Len(rxFifo)
      <4>1. rxFifo'[i] = rxFifo[i] BY <2>2, <3>2 DEF RxInv, BaseInv, DataType
      <4> QED BY <4>1, <3>2 DEF RxInv, InOrder
    <3>3. CASE i = Len(rxFifo) + 1
      <4>1. rxFifo'[i] = [cmd EXCEPT !.part = part + 1] BY <2>2, <3>3 DEF RxInv, BaseInv, DataType
      <4>2. Gone + i = part + 1 BY <3>3, <2>1, <2>3 DEF Gone
      <4>3. [cmd EXCEPT !.part = part + 1] =
              [n |-> cmd.n, part |-> part + 1, packets |-> cmd.packets, shape |-> cmd.shape]
        <5>1. cmd \in AnyPacket /\ part + 1 \in Nat BY <2>1 DEF RxInv, BaseInv, DataType
        <5> QED BY <5>1, NextPart
      <4> QED BY <4>1, <4>2, <4>3
    <3> QED BY <3>2, <3>3, <2>3
  <2>6. Responded' BY <2>1, <1>2 DEF HostSendsData, RxInv, Responded, Untaken
  <2>7. Untaken' BY <2>1, <2>3, <1>2 DEF HostSendsData, RxInv, Untaken, NoDma
  <2>8. Taken'
    <3>1. part # cmd.packets BY <2>1
    <3>2. hpc' # "idle" BY <1>2 DEF HostSendsData
    <3>3. Moving => Moving' BY <2>2, <2>3, <1>2 DEF HostSendsData, Moving
    <3> QED BY <3>1, <3>2, <3>3, <2>1, <2>3, <1>2
            DEF HostSendsData, RxInv, Taken, NoDma, Moved, Complete
  <2> QED BY <2>4, <2>5, <2>6, <2>7, <2>8, <1>2 DEF HostSendsData, RxInv
<1>3. CASE HostReads
  <2>1. pc = "sendWait" /\ ~rx_ready_for_data /\ rxFifo = <<>> /\ hpc = "await"
    BY <1>3 DEF HostReads, RxInv, TxInv, Loading, Responded
  <2>2. HostInv' /\ InOrder' /\ Responded' /\ (isr.dma => dma_irq)'
    BY <2>1, <1>3 DEF HostReads, RxInv, HostInv, InOrder, Responded
  <2>3. Untaken' /\ Taken'
    BY <2>1, <1>3 DEF HostReads, RxInv, Untaken, Taken, NoDma, Gone, Sending
  <2> QED BY <2>2, <2>3 DEF RxInv
<1>4. CASE HostConfigures BY <1>4 DEF HostConfigures, RxInv, HostInv
<1>5. CASE HostConfigured BY <1>5 DEF HostConfigured, RxInv, HostInv
<1>6. ASSUME NEW e \in BusEvents, BusEvent(e) PROVE RxInv'
  <2>1. e # "reset" BY DEF NoReset
  <2>2. Responded' BY <2>1, <1>6 DEF BusEvent, RxInv, Responded
  <2> QED BY <2>1, <2>2, <1>6, RxAside DEF BusEvent, RxInv
<1>7. CASE DmaMoves
  <2> DEFINE p == Head(rxFifo)
             partial == p.part = p.packets /\ p.shape \in {"short", "odd"}
  <2>1. rx_ready_for_data /\ receiving /\ pc \in {"recvRestore", "poll"} /\ Moving
    BY <1>7 DEF DmaMoves, RxInv, BaseInv, FlagType, Steps, Arming, Sending, Untaken, Taken, NoDma,
        Moved,
                Complete, Responded
  <2>2. /\ dmaLeft \in Nat /\ dmaLeft > 0 /\ cmd.packets \in Nat /\ part \in Nat /\ stored \in Nat
        /\ rxFifo # <<>> /\ Len(rxFifo) \in Nat /\ Len(rxFifo) > 0
        /\ rxFifo \in Seq(AnyPacket)
    <3>1. rxFifo # <<>> /\ rxFifo \in Seq(AnyPacket) BY <1>7 DEF DmaMoves, RxInv, BaseInv, DataType
    <3>2. cmd.packets \in Nat BY DEF RxInv, BaseInv, DataType, AnyPacket
    <3>3. dmaLeft \in Nat /\ dmaLeft > 0 BY <1>7 DEF DmaMoves, RxInv, BaseInv, DataType
    <3> QED BY <3>1, <3>2, <3>3 DEF RxInv, BaseInv, DataType
  <2>3. p = [n |-> cmd.n, part |-> Gone + 1, packets |-> cmd.packets, shape |-> cmd.shape]
    <3>1. Head(rxFifo) = rxFifo[1] /\ 1 \in 1..Len(rxFifo) BY <2>2
    <3> QED BY <3>1 DEF RxInv, InOrder
  <2>4. part <= cmd.packets BY <2>2 DEF RxInv, HostInv
  <2>5. cmd.shape \in {"full", "short", "odd"}
    <3>1. dmaLeft + (part - Len(rxFifo)) = cmd.packets /\ part - Len(rxFifo) >= 0
      BY <2>1 DEF RxInv, Taken, Gone, Moving
    <3>2. cmd.packets > 0 BY <2>2, <3>1
    <3> QED BY <3>2 DEF RxInv, HostInv
  <2>6. dmaLeft' = dmaLeft - 1 /\ cmd' = cmd /\ part' = part /\ queue' = queue
    BY <1>7 DEF DmaMoves
  <2>7. CASE partial
    <3>1. rxFifo' = rxFifo /\ stored' = IF p.shape = "odd" THEN stored ELSE stored + 1
      BY <2>1, <2>7, <1>7 DEF DmaMoves
    <3>2. /\ dmaLeft = 1 /\ part = cmd.packets /\ Len(rxFifo) = 1 /\ stored = cmd.packets - 1
          /\ cmd.shape # "full"
      <4>1. /\ dmaLeft + (part - Len(rxFifo)) = cmd.packets
            /\ stored = part - Len(rxFifo)
        BY <2>1 DEF Moving, Gone
      <4>2. p.part = Gone + 1 /\ p.packets = cmd.packets /\ p.shape = cmd.shape BY <2>3
      <4>3. Gone + 1 = cmd.packets /\ cmd.shape # "full" BY <4>2, <2>7
      <4> HIDE DEF p
      <4>4. (part - Len(rxFifo)) + 1 = cmd.packets BY <4>3 DEF Gone
      <4>5. part = cmd.packets /\ Len(rxFifo) = 1 BY ONLY <4>4, <2>2, <2>4, LastPacket
      <4> QED BY <4>1, <4>3, <4>5, <2>2
    <3>3. Moved' BY <2>1, <2>2, <2>3, <2>6, <3>1, <3>2 DEF Moved, Moving
    <3>4. HostInv' /\ InOrder' /\ Responded'
      BY <3>1, <1>7 DEF DmaMoves, RxInv, HostInv, InOrder, Responded, Gone
    <3>5. Untaken' /\ Taken'
      BY <2>1, <3>1, <3>3, <1>7 DEF DmaMoves, RxInv, Untaken, Taken, Gone, NoDma, Arming
    <3> QED BY <3>4, <3>5, <1>7 DEF DmaMoves, RxInv
  <2>8. CASE ~partial
    <3>1. rxFifo' = Tail(rxFifo) /\ stored' = stored + 1
      BY <2>1, <2>8, <1>7 DEF DmaMoves
    <3>2. Len(rxFifo') = Len(rxFifo) - 1 /\ Gone' = Gone + 1
      BY <2>2, <2>6, <3>1 DEF Gone
    <3>3. ASSUME dmaLeft > 1 PROVE Moving'
      <4>1. dma_irq' <=> dma_irq \/ dmaLeft = 1 BY <1>7, Zenon DEF DmaMoves
      <4>2. ~dma_irq' BY <3>3, <2>1, <2>2, <4>1 DEF Moving
      <4> QED BY <2>1, <2>2, <2>6, <3>1, <3>2, <3>3, <4>2 DEF Moving
    <3>4. ASSUME dmaLeft = 1 PROVE Moved'
      <4>1. Gone + 1 = cmd.packets /\ part = cmd.packets /\ Len(rxFifo) = 1
        <5>1. dmaLeft + (part - Len(rxFifo)) = cmd.packets BY <2>1 DEF Moving, Gone
        <5>2. (part - Len(rxFifo)) + 1 = cmd.packets BY <5>1, <2>2, <3>4
        <5>3. part = cmd.packets /\ Len(rxFifo) = 1 BY ONLY <5>2, <2>2, <2>4, LastPacket
        <5> QED BY <5>2, <5>3 DEF Gone
      <4>2. cmd.shape = "full" BY <2>3, <2>5, <2>8, <4>1
      <4>3. Moved' BY <2>1, <2>2, <2>6, <3>1, <3>2, <3>4, <4>1, <4>2 DEF Moved, Moving
      <4> QED BY <4>3
    <3>5. Moving' \/ Moved' BY <2>2, <3>3, <3>4
    <3>6. InOrder'
      <4>1. \A i \in 1..Len(rxFifo') : rxFifo'[i] = rxFifo[i + 1] /\ i + 1 \in 1..Len(rxFifo)
                                      /\ Gone' + i = Gone + (i + 1)
        BY <2>2, <3>1, <3>2 DEF Gone
      <4> QED BY <4>1, <2>6 DEF RxInv, InOrder
    <3>7. HostInv' /\ Responded'
      BY <2>1, <3>1, <1>7 DEF DmaMoves, RxInv, HostInv, Responded
    <3>8. Gone' >= 0 BY <2>1, <2>2, <3>2 DEF Moving, RxInv, Taken, Gone
    <3>9. Untaken' /\ Taken'
      BY <2>1, <3>5, <3>8, <1>7 DEF DmaMoves, RxInv, Untaken, Taken, Arming
    <3> QED BY <3>6, <3>7, <3>9, <1>7 DEF DmaMoves, RxInv
  <2> QED BY <2>7, <2>8
<1>8. CASE IsrSample
  <2>1. Responded' BY <1>8 DEF IsrSample, RxInv, Responded
  <2> QED BY <2>1, <1>8, RxAside DEF IsrSample
<1>9. CASE IsrReset BY <1>9 DEF IsrReset, RxInv, TxInv, Configured
<1>10. CASE IsrDisconnect
  <2>1. \A x : (Quiet(queue) => Quiet(queue')) /\ (Only(queue, x) => Only(queue', x))
    BY <1>10, BusQueueKept DEF IsrDisconnect, RxInv, BaseInv, DataType
  <2>2. HostInv' /\ InOrder' /\ Responded' /\ (isr.dma => dma_irq)'
    BY <1>10 DEF IsrDisconnect, RxInv, HostInv, InOrder, Responded, Gone, NoIsr
  <2>3. Untaken' /\ Taken'
    BY <2>1, <1>10 DEF IsrDisconnect, RxInv, Untaken, Taken, NoDma, Gone, Moving, Moved, Complete
  <2> QED BY <2>2, <2>3 DEF RxInv
<1>11. CASE IsrServe
  <2> DEFINE q1 == Posts(BusQueue, Event("tx", 0), PostsTx)
  <2>1. ~SetConf /\ FifoAfterEp0 = rxFifo
    BY DEF SetConf, FifoAfterEp0, RxInv, TxInv, Configured
  <2>2. \A x : (Quiet(queue) => Quiet(q1)) /\ (Only(queue, x) => Only(q1, x))
    BY BusQueueKept DEF RxInv, BaseInv, DataType
  <2>3. q1 \in Seq(AnyEvent)
    BY EventType, PostType, BusQueueType DEF RxInv, BaseInv, DataType
  <2>4. queue' = Posts(Posts(q1, Event("cmd", rx_req_buffer'.n), TakesCommand),
                       Event("data", dma_rx.n), isr.dma)
    BY <1>11 DEF IsrServe, PostsData
  <2>5. Event("cmd", cmd.n) \in AnyEvent /\ Event("data", cmd.n) \in AnyEvent
    BY EventType DEF RxInv, BaseInv, DataType, AnyPacket
  <2>6. UNCHANGED <<dmaLeft, dma_rx, pc, left, job, receiving, hpc, cmd, part>> /\ ~dma_irq' /\ ~isr'.dma
    BY <1>11 DEF IsrServe, NoIsr
  <2>7. CASE TakesCommand
    <3>1. ~rx_ready_for_data /\ rxFifo # <<>> /\ rxFifo \in Seq(AnyPacket) /\ ~isr.dma
      BY <2>1, <2>7 DEF TakesCommand, RxInv, Untaken, NoDma, BaseInv, DataType
    <3>2. Gone = -1 /\ Quiet(queue) /\ ~receiving /\ (pc = "poll" \/ pc \in Sending)
      BY <3>1 DEF RxInv, Untaken
    <3>3. /\ rxFifo' = Tail(rxFifo) /\ rx_ready_for_data' /\ rx_req_buffer' = rxFifo[1]
      <4>1. rx_ready_for_data' BY <2>7, <1>11, Zenon DEF IsrServe
      <4>2. rxFifo' = Tail(rxFifo) BY <2>1, <2>7, <3>1, <1>11 DEF IsrServe, FifoAfterDma,
          FifoAfterRx
      <4>3. rx_req_buffer' = Head(rxFifo) BY <2>1, <2>7, <1>11 DEF IsrServe
      <4>4. Head(rxFifo) = rxFifo[1] BY <3>1
      <4> QED BY <4>1, <4>2, <4>3, <4>4
    <3>4. /\ Len(rxFifo) \in Nat /\ Len(rxFifo) > 0 /\ Len(rxFifo') = Len(rxFifo) - 1 /\ part \in Nat
          /\ cmd \in AnyPacket
      BY <3>1, <3>3 DEF RxInv, BaseInv, DataType
    <3>5. Gone' = 0 BY <2>6, <3>2, <3>4 DEF Gone
    <3>6. rx_req_buffer' = cmd
      <4>1. rxFifo[1] = [n |-> cmd.n, part |-> 0, packets |-> cmd.packets, shape |-> cmd.shape]
        BY <3>2, <3>4 DEF RxInv, InOrder
      <4>2. cmd = [n |-> cmd.n, part |-> 0, packets |-> cmd.packets, shape |-> cmd.shape]
        BY <3>4 DEF RxInv, HostInv, AnyPacket
      <4> QED BY <3>3, <4>1, <4>2
    <3>7. Only(queue', Event("cmd", cmd.n))
      <4>1. queue' = Posts(q1, Event("cmd", cmd.n), TakesCommand)
        BY <2>4, <3>1, <3>6 DEF Posts
      <4> HIDE DEF q1
      <4> QED BY <4>1, <2>2, <2>3, <2>5, <3>2, QueueKept
    <3>8. InOrder'
      <4>1. \A i \in 1..Len(rxFifo') : rxFifo'[i] = rxFifo[i + 1] /\ i + 1 \in 1..Len(rxFifo)
                                       /\ Gone' + i = Gone + (i + 1)
        BY <3>1, <3>2, <3>3, <3>4, <3>5
      <4> QED BY <4>1, <2>6 DEF RxInv, InOrder
    <3>9. HostInv' /\ Responded'
      <4>1. ~txReady /\ left = 0 /\ pc \notin {"sendLoad", "sendCommit"} /\ hpc # "idle"
        BY <3>1 DEF RxInv, Responded, HostInv
      <4> QED BY <4>1, <2>6, <1>11 DEF IsrServe, RxInv, HostInv, Responded
    <3>10. Untaken' BY <3>3 DEF Untaken
    <3>11. Taken'
      <4>1. hpc # "idle" /\ NoDma' /\ pc \in {"poll", "sendWait", "sendRestore"}
        BY <3>1, <3>2, <2>6 DEF RxInv, HostInv, Untaken, NoDma, Responded, Sending
      <4> QED BY <4>1, <2>6, <3>2, <3>5, <3>6, <3>7 DEF Taken, Arming
    <3> QED BY <2>6, <3>8, <3>9, <3>10, <3>11 DEF RxInv
  <2>8. CASE ~TakesCommand /\ isr.dma
    <3>1. rx_ready_for_data /\ receiving /\ pc \in {"recvRestore", "poll"} /\ Moved /\ dma_rx = cmd
      BY <2>8 DEF RxInv, BaseInv, FlagType, Steps, Arming, Sending, Untaken, Taken, NoDma, Moving,
                  Complete, Responded
    <3>2. rx_ready_for_data' BY <3>1, <1>11 DEF IsrServe
    <3>3. /\ cmd.packets \in Nat /\ part \in Nat /\ stored \in Nat
          /\ rxFifo \in Seq(AnyPacket) /\ Len(rxFifo) \in Nat
      BY DEF RxInv, BaseInv, DataType, AnyPacket
    <3>4. cmd.shape \in {"full", "short", "odd"}
      BY <3>1 DEF RxInv, HostInv, Taken
    <3>5. rxFifo' = <<>> /\ stored' = cmd.packets
      <4>1. FifoAfterRx = rxFifo BY <2>1, <2>8 DEF FifoAfterRx
      <4>2. /\ rxFifo' = FifoAfterDma
            /\ stored' = IF Unaligned /\ rxFifo # <<>> THEN stored + 1 ELSE stored
        BY <4>1, <2>8, <1>11 DEF IsrServe
      <4>3. CASE cmd.shape = "full"
        <5>1. rxFifo = <<>> /\ stored = cmd.packets /\ ~Unaligned
          BY <4>3, <3>1, <3>3 DEF Moved, Unaligned
        <5> QED BY <4>1, <4>2, <4>3, <5>1, <3>1, <2>8 DEF FifoAfterDma, FifoAfterTail
      <4>4. CASE cmd.shape = "short"
        <5>1. Len(rxFifo) = 1 /\ stored = cmd.packets /\ ~Unaligned
          BY <4>4, <3>1, <3>3 DEF Moved, Unaligned
        <5>2. rxFifo # <<>> /\ Tail(rxFifo) = <<>> BY <5>1, <3>3, TailOfOne
        <5> QED BY <4>1, <4>2, <4>4, <5>1, <5>2, <3>1, <2>8 DEF FifoAfterDma, FifoAfterTail, Popped
      <4>5. CASE cmd.shape = "odd"
        <5>1. Len(rxFifo) = 1 /\ stored = cmd.packets - 1 /\ Unaligned
          BY <4>5, <3>1, <3>3 DEF Moved, Unaligned
        <5>2. rxFifo # <<>> /\ Tail(rxFifo) = <<>> BY <5>1, <3>3, TailOfOne
        <5> QED BY <4>1, <4>2, <4>5, <5>1, <5>2, <3>1, <3>3, <2>8 DEF FifoAfterDma, FifoAfterTail,
            Popped
      <4> QED BY <3>4, <4>3, <4>4, <4>5
    <3>6. Only(queue', Event("data", cmd.n))
      <4>1. queue' = Posts(q1, Event("data", cmd.n), isr.dma)
        BY <2>4, <2>8, <3>1 DEF Posts
      <4>2. Quiet(q1) BY <2>2, <3>1 DEF Moved
      <4> HIDE DEF q1
      <4> QED BY <4>1, <4>2, <2>3, <2>5, QueueKept
    <3>7. Complete' BY <2>6, <3>1, <3>5, <3>6 DEF Complete, NoDma, Moved
    <3>8. HostInv' /\ InOrder' /\ Responded'
      <4>1. txReady' => txReady BY <1>11, Zenon DEF IsrServe
      <4>2. hpc # "idle" /\ Len(rxFifo') = 0 BY <3>1, <3>5 DEF RxInv, Taken
      <4> QED BY <2>6, <3>1, <3>5, <4>1, <4>2 DEF RxInv, HostInv, InOrder, Responded
    <3>9. Untaken' /\ Taken'
      <4>1. Gone' >= 0 BY <2>6, <3>3, <3>5 DEF Gone
      <4>2. rx_req_buffer' = cmd BY <2>8, <3>1, <1>11 DEF IsrServe, RxInv, Taken
      <4> QED BY <2>6, <3>1, <3>2, <3>7, <4>1, <4>2 DEF RxInv, Untaken, Taken, Arming
    <3> QED BY <2>6, <3>8, <3>9 DEF RxInv
  <2>9. CASE ~TakesCommand /\ ~isr.dma
    <3>1. /\ UNCHANGED <<rxFifo, rx_req_buffer, stored>>
          /\ rx_ready_for_data' <=> rx_ready_for_data
      <4>1. UNCHANGED <<rxFifo, rx_req_buffer, stored>>
        BY <2>1, <2>9, <1>11 DEF IsrServe, FifoAfterDma, FifoAfterRx
      <4>2. rx_ready_for_data' <=> rx_ready_for_data BY <2>9, <1>11, Zenon DEF IsrServe
      <4> QED BY <4>1, <4>2
    <3>2. queue' = q1 BY <2>4, <2>9 DEF Posts
    <3>3. \A x : (Quiet(queue) => Quiet(queue')) /\ (Only(queue, x) => Only(queue', x))
      BY <2>2, <3>2
    <3>4. HostInv' /\ InOrder' /\ Responded'
      <4>1. txReady' => txReady BY <1>11, Zenon DEF IsrServe
      <4> QED BY <2>1, <2>6, <3>1, <4>1 DEF RxInv, HostInv, InOrder, Responded, Gone
    <3>5. Untaken' /\ Taken'
      BY <2>6, <3>1, <3>3 DEF RxInv, Untaken, Taken, NoDma, Gone, Moving, Moved, Complete
    <3> QED BY <2>6, <3>4, <3>5 DEF RxInv
  <2> QED BY <2>7, <2>8, <2>9
<1>12. CASE EventHandler
  <2> DEFINE e == Head(queue)
  <2>1. queue \in Seq(AnyEvent) /\ queue # <<>> /\ queue' = Tail(queue) /\ pc = "poll"
    BY <1>12 DEF EventHandler, RxInv, BaseInv, DataType
  <2>2. \A x : /\ Quiet(queue) => Quiet(queue') /\ e.kind \notin Protocol
               /\ Only(queue, x) => Only(queue', x)
               /\ Only(queue, x) /\ e.kind \in Protocol => e = x /\ Quiet(queue')
    BY <2>1, QueueTaken
  <2>3. /\ pc' = CASE e.kind = "cmd" -> "consume"
                   [] e.kind = "data" /\ receiving -> "respond"
                   [] OTHER -> "poll"
        /\ receiving' <=> receiving /\ e.kind \notin {"reset", "data", "cmd"}
    BY <1>12 DEF EventHandler
  <2>4. UNCHANGED <<rxFifo, dma_irq, dmaLeft, rx_ready_for_data, rx_req_buffer, dma_rx, stored, job, left,
                    txReady, cmd, part, hpc, isr>>
    BY <1>12 DEF EventHandler
  <2>5. HostInv' /\ InOrder' /\ (isr.dma => dma_irq)'
    BY <2>4 DEF RxInv, HostInv, InOrder, Gone
  <2>6. CASE ~rx_ready_for_data
    <3>1. Quiet(queue) /\ ~receiving BY <2>6 DEF RxInv, Untaken
    <3>2. e.kind \notin Protocol BY <2>2, <3>1
    <3>3. pc' = "poll" /\ ~receiving' /\ Quiet(queue') BY <2>2, <2>3, <3>1, <3>2 DEF Protocol
    <3>4. Untaken' /\ Taken' /\ Responded'
      BY <2>4, <2>6, <3>3 DEF RxInv, Untaken, Taken, Responded, NoDma, Gone
    <3> QED BY <2>5, <3>4 DEF RxInv
  <2>7. CASE rx_ready_for_data /\ ~receiving
    <3>1. NoDma /\ Gone = 0 /\ Only(queue, Event("cmd", cmd.n)) BY <2>1, <2>7 DEF RxInv, Taken
    <3>2. e.kind \in Protocol => e.kind = "cmd" BY <2>2, <3>1 DEF Event
    <3>3. CASE e.kind = "cmd"
      <4>1. pc' = "consume" /\ ~receiving' /\ Quiet(queue')
        BY <2>2, <2>3, <2>7, <3>1, <3>3 DEF Protocol
      <4>2. Untaken' /\ Taken' /\ Responded'
        BY <2>4, <2>7, <3>1, <4>1 DEF RxInv, Untaken, Taken, Responded, NoDma, Gone, Arming
      <4> QED BY <2>5, <4>2 DEF RxInv
    <3>4. CASE e.kind # "cmd"
      <4>1. pc' = "poll" /\ ~receiving' /\ Only(queue', Event("cmd", cmd.n))
        BY <2>2, <2>3, <2>7, <3>1, <3>2, <3>4 DEF Protocol
      <4>2. Untaken' /\ Taken' /\ Responded'
        BY <2>4, <2>7, <3>1, <4>1 DEF RxInv, Untaken, Taken, Responded, NoDma, Gone, Arming
      <4> QED BY <2>5, <4>2 DEF RxInv
    <3> QED BY <3>3, <3>4
  <2>8. CASE rx_ready_for_data /\ receiving
    <3>1. Moving \/ Moved \/ Complete BY <2>1, <2>8 DEF RxInv, Taken
    <3>2. Only(queue, Event("data", cmd.n))
      BY <2>1, <3>1, QueueKept, EventType DEF Moving, Moved, Complete
    <3>3. e.kind \in Protocol => e.kind = "data" BY <2>2, <3>2 DEF Event
    <3>4. CASE e.kind = "data"
      <4>1. pc' = "respond" /\ ~receiving' /\ Quiet(queue')
        BY <2>2, <2>3, <2>8, <3>2, <3>4 DEF Protocol
      <4>2. Complete BY <2>2, <3>1, <3>4 DEF Moving, Moved, Protocol
      <4>3. hpc = "await" BY <4>2, <2>8 DEF Complete, RxInv, HostInv, Taken, BaseInv, DataType
      <4>4. Untaken' /\ Taken' /\ Responded'
        BY <2>4, <2>8, <4>1, <4>2, <4>3 DEF RxInv, Untaken, Taken, Responded, Complete, NoDma,
            Gone, Arming
      <4> QED BY <2>5, <4>4 DEF RxInv
    <3>5. CASE e.kind # "data"
      <4>1. pc' = "poll"
        BY <2>3, <3>3, <3>5 DEF Protocol
      <4>2. Quiet(queue) => Quiet(queue') BY <2>2
      <4>3. Only(queue', Event("data", cmd.n)) BY <2>2, <3>2
      <4>4. e.kind # "reset" BY <2>1 DEF RxInv, NoResetIn
      <4>5. receiving' BY <2>3, <2>8, <3>3, <3>5, <4>4 DEF Protocol
      <4>6. (Moving \/ Moved \/ Complete)'
        BY <2>4, <3>1, <4>2, <4>3 DEF Moving, Moved, Complete, NoDma, Gone
      <4>7. Untaken' /\ Taken' /\ Responded'
        BY <2>4, <2>8, <4>1, <4>5, <4>6 DEF RxInv, Untaken, Taken, Responded, Gone, Arming
      <4> QED BY <2>5, <4>7 DEF RxInv
    <3> QED BY <3>4, <3>5
  <2> QED BY <2>6, <2>7, <2>8
<1>13. CASE Consume
  <2>1. pc = "consume" /\ rx_ready_for_data /\ ~receiving
    BY <1>13 DEF Consume, RxInv, Untaken, Taken, Sending, Arming
  <2>2. rx_req_buffer = cmd /\ NoDma /\ Gone = 0 /\ Quiet(queue) /\ cmd.packets \in Nat
    BY <2>1 DEF RxInv, Taken, BaseInv, DataType, AnyPacket
  <2>3. UNCHANGED <<rxFifo, dma_irq, dmaLeft, rx_ready_for_data, rx_req_buffer, dma_rx, stored, left,
                    txReady, cmd, part, hpc, isr, receiving, queue>>
    BY <1>13 DEF Consume
  <2>4. HostInv' /\ InOrder' /\ (isr.dma => dma_irq)'
    BY <2>3 DEF RxInv, HostInv, InOrder, Gone
  <2>5. job' = cmd /\ pc' = IF cmd.packets > 0 THEN "recv" ELSE "respond"
    BY <2>2, <1>13 DEF Consume
  <2>6. CASE cmd.packets > 0
    <3>1. Untaken' /\ Taken' /\ Responded'
      BY <2>1, <2>2, <2>3, <2>5, <2>6 DEF RxInv, Untaken, Taken, Responded, NoDma, Gone, Arming
    <3> QED BY <2>4, <3>1 DEF RxInv
  <2>7. CASE cmd.packets = 0
    <3>1. hpc = "await" /\ part = 0
      BY <2>1, <2>7 DEF RxInv, HostInv, Taken, BaseInv, DataType
    <3>2. rxFifo = <<>>
      BY <2>2, <3>1 DEF Gone, RxInv, BaseInv, DataType
    <3>3. Untaken' /\ Taken' /\ Responded'
      BY <2>1, <2>2, <2>3, <2>5, <2>7, <3>1, <3>2
         DEF RxInv, Untaken, Taken, Responded, NoDma, Gone, Arming
    <3> QED BY <2>4, <3>3 DEF RxInv
  <2> QED BY <2>2, <2>6, <2>7
<1>14. CASE RecvBegin
  <2>1. pc = "recv" /\ rx_ready_for_data /\ job = cmd /\ cmd.packets > 0 /\ NoDma /\ Gone = 0 /\ Quiet(queue)
    BY <1>14 DEF RecvBegin, RxInv, Untaken, Taken, Sending
  <2>2. /\ UNCHANGED <<rxFifo, dma_irq, dmaLeft, rx_ready_for_data, rx_req_buffer, left, job,
                       txReady, cmd, part, hpc, isr, queue>>
        /\ dma_rx' = job /\ stored' = 0 /\ receiving' /\ pc' = "recvConfig"
    BY <1>14 DEF RecvBegin
  <2>3. HostInv' /\ InOrder' /\ (isr.dma => dma_irq)'
    BY <2>2 DEF RxInv, HostInv, InOrder, Gone
  <2>4. Untaken' /\ Taken' /\ Responded'
    BY <2>1, <2>2 DEF RxInv, Untaken, Taken, Responded, NoDma, Gone, Arming
  <2> QED BY <2>3, <2>4 DEF RxInv
<1>16. CASE RecvStart
  <2>1. /\ pc = "recvStart" /\ rx_ready_for_data /\ receiving /\ dma_rx = cmd /\ cmd.packets > 0
        /\ NoDma /\ Gone = 0 /\ Quiet(queue) /\ stored = 0
    BY <1>16 DEF RecvStart, RxInv, Untaken, Taken, Sending, Arming
  <2>2. /\ UNCHANGED <<rxFifo, dma_irq, dma_rx, stored, receiving, rx_ready_for_data, rx_req_buffer, left, job,
                       txReady, cmd, part, hpc, isr, queue>>
        /\ pc' = "recvRestore" /\ dmaLeft' = cmd.packets
    BY <2>1, <1>16 DEF RecvStart, RxInv, HostInv
  <2>3. HostInv' /\ InOrder' /\ (isr.dma => dma_irq)'
    BY <2>2 DEF RxInv, HostInv, InOrder, Gone
  <2>4. Moving'
    <3>1. cmd.packets \in Nat BY DEF RxInv, BaseInv, DataType, AnyPacket
    <3>2. Gone' = 0 BY <2>1, <2>2 DEF Gone
    <3> QED BY <2>1, <2>2, <3>1, <3>2 DEF Moving, NoDma
  <2>5. Untaken' /\ Taken' /\ Responded'
    BY <2>1, <2>2, <2>4 DEF RxInv, Untaken, Taken, Responded, Gone, Arming
  <2> QED BY <2>3, <2>5 DEF RxInv
<1>18. ASSUME NEW packets \in 1..MaxPackets, SendBegin(packets) PROVE RxInv'
  <2>1. pc = "respond" /\ rx_ready_for_data /\ NoDma /\ rxFifo = <<>> /\ hpc = "await" /\ Quiet(queue)
    BY <1>18 DEF SendBegin, RxInv, Untaken, Taken, Sending
  <2>2. /\ UNCHANGED <<rxFifo, dma_irq, dmaLeft, cmd, part, hpc, isr, queue>>
        /\ ~rx_ready_for_data' /\ ~receiving' /\ pc' = "sendLoad"
    BY <1>18 DEF SendBegin
  <2>3. HostInv' /\ InOrder' /\ (isr.dma => dma_irq)'
    BY <2>1, <2>2 DEF RxInv, HostInv, InOrder, Gone
  <2>4. Untaken' /\ Taken' /\ Responded'
    BY <2>1, <2>2 DEF RxInv, Untaken, Taken, Responded, NoDma, Sending
  <2> QED BY <2>3, <2>4 DEF RxInv
<1>15. CASE RecvConfig
  <2>1. Responded' BY <1>15 DEF RecvConfig, RxInv, Responded
  <2> QED BY <2>1, <1>15, RxAside DEF RecvConfig, RxInv
<1>17. CASE RecvRestore
  <2>1. Responded' BY <1>17 DEF RecvRestore, RxInv, Responded
  <2> QED BY <2>1, <1>17, RxAside DEF RecvRestore, RxInv
<1>19. CASE SendLoad
  <2>1. ~rx_ready_for_data /\ rxFifo = <<>> /\ hpc # "idle"
    BY <1>19 DEF SendLoad, RxInv, Responded
  <2>2. Responded' BY <2>1, <1>19 DEF SendLoad, Responded
  <2> QED BY <2>1, <2>2, <1>19, RxAside DEF SendLoad, RxInv, Sending
<1>20. CASE SendCommit
  <2>1. ~rx_ready_for_data /\ rxFifo = <<>> /\ hpc # "idle"
    BY <1>20 DEF SendCommit, RxInv, Responded
  <2>2. Responded' BY <2>1, <1>20 DEF SendCommit, Responded
  <2> QED BY <2>1, <2>2, <1>20, RxAside DEF SendCommit, RxInv, Sending
<1>21. CASE SendWait
  <2>1. CASE left = 0
    <3>1. pc' = "sendRestore" BY <2>1, <1>21 DEF SendWait
    <3>2. Responded' BY <3>1, <1>21 DEF SendWait, RxInv, Responded
    <3> QED BY <3>1, <3>2, <1>21, RxAside DEF SendWait, RxInv
  <2>2. CASE left # 0
    <3>1. ~rx_ready_for_data /\ rxFifo = <<>> /\ hpc # "idle"
      BY <2>2 DEF RxInv, Responded
    <3>2. Responded' BY <3>1, <1>21 DEF SendWait, Responded
    <3> QED BY <3>1, <3>2, <1>21, RxAside DEF SendWait, RxInv, Sending
  <2> QED BY <2>1, <2>2
<1>22. CASE SendRestore
  <2>1. Responded' BY <1>22 DEF SendRestore, RxInv, Responded
  <2> QED BY <2>1, <1>22, RxAside DEF SendRestore, RxInv
<1>23. CASE UNCHANGED vars
  <2>1. Responded' BY <1>23 DEF vars, RxInv, Responded
  <2> QED BY <2>1, <1>23, RxAside DEF vars, RxInv
<1>24. CASE HostCommands
  <2>1. ASSUME HostSendsCommand(0, CHOOSE s \in Shapes : TRUE) PROVE RxInv'
    <3>1. 0 \in Nat /\ ~(0 > 0) OBVIOUS
    <3> QED BY ONLY <3>1, <2>1, <1>1
  <2>2. ASSUME NEW packets \in 1..MaxPackets, NEW shape \in Shapes, HostSendsCommand(packets, shape)
        PROVE RxInv'
    <3>1. packets \in Nat /\ shape \in {"full", "short", "odd"} BY <2>2
    <3> QED BY ONLY <3>1, <2>2, <1>1
  <2> QED BY <1>24, <2>1, <2>2 DEF HostCommands
<1> QED BY <1>2, <1>3, <1>4, <1>5, <1>6, <1>7, <1>8, <1>9, <1>10, <1>11, <1>12, <1>13, <1>14,
           <1>15, <1>16, <1>17, <1>18, <1>19, <1>20, <1>21, <1>22, <1>23, <1>24
        DEF Next, HostProgress, Isr, Client

(* A command is intact until the client reads it (CommandIntact) when the  *)
(* bus is not reset and no payload ends with less than four bytes:         *)
(* eprx_recv_op never overwrites rx_req_buffer in between, for a queue of  *)
(* any size and whether or not the hardware moves while the handler runs.  *)
THEOREM CommandsIntact ==
  ASSUME NoReset, "tail" \notin Shapes
  PROVE  Spec => []CommandIntact
<1>1. RxInv /\ [Next]_vars => RxInv' BY RxStep
<1> QED BY <1>1, RxInit, RxImplied, PTL DEF Spec

(* Under the same assumptions the completion that __usb_recv_by_dma_isr    *)
(* posts finds the whole payload in the buffer (RxEventComplete).          *)
THEOREM PayloadsWhole ==
  ASSUME NoReset, "tail" \notin Shapes
  PROVE  Spec => []RxEventComplete
<1>1. RxInv /\ [Next]_vars => RxInv' BY RxStep
<1> QED BY <1>1, RxInit, RxImplied, PTL DEF Spec
=============================================================================
