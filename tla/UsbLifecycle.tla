---------------------------- MODULE UsbLifecycle ----------------------------
(***************************************************************************)
(* Drivers/EfiUsbFnIo: what StartController, ConfigureEnableEndpoints and  *)
(* StopController acquire and give back (EfiUsbFnIoDxe.c, SunxiUsbInit and *)
(* SunxiUsbExit of usb_base_sun50iw1p1.c, the channel table of             *)
(* usb_dma_control.c), and the transfer buffers that clients allocate.     *)
(*                                                                         *)
(* The calls come from one thread, but once the interrupt source is        *)
(* enabled sunxi_usb_irq may run between any two of their steps; it uses   *)
(* the controller's registers, both DMA channels and the command buffer.   *)
(* The steps are therefore actions of their own.                           *)
(*                                                                         *)
(* Memory is a set of buffers: malloc returns one that is not live, or     *)
(* fails.  Pins and endpoint registers are not modelled, and of a DMA      *)
(* transfer only which channel works on which buffer.  usb_dma_stop clears *)
(* the interrupt enable of a channel and leaves its start bit: what ends a *)
(* transfer under way is the reset of the whole controller, when           *)
(* usb_close_clock takes its clocks away, or the next use of its channel.  *)
(*                                                                         *)
(* A client has one Transfer(Rx) under way at a time; after a bus reset it *)
(* may give the channel another buffer.  It frees its buffer after the     *)
(* completion, after another one has taken its place, or after             *)
(* StopController returned.                                                *)
(***************************************************************************)
EXTENDS Integers

CONSTANTS SUNXI_USB_DMA_A50_MAX,  \* entries of usb_dma_used: 8; entry 0 is not used
          Buf,                    \* the buffers malloc can return
          NoBuf,                  \* NULL
          TBuf,                   \* the buffers UncachedAllocatePages can return
          Pages,                  \* the sizes clients ask for
          StopsFirst              \* the client stops the controller before it
                                  \* starts it again

ASSUME DmaMaxAssumption == SUNXI_USB_DMA_A50_MAX \in Nat /\ SUNXI_USB_DMA_A50_MAX > 2
ASSUME BufAssumption == NoBuf \notin Buf
ASSUME TBufAssumption == NoBuf \notin TBuf
ASSUME ClientAssumption == StopsFirst \in BOOLEAN

VARIABLES usb_dma_used,      \* the channels marked as used
          dma_send_channal,  \* sunxi_udc_source's channels, 0 if none
          dma_recv_channal,
          opened,            \* USBC_open_otg's handle has its register base
          rx_base_buffer,    \* sunxi_ubuf.rx_base_buffer
          live,              \* the buffers that are allocated
          irqOn,             \* AW_IRQ_USB_OTG is enabled
          started,           \* the last StartController succeeded, and no
                             \* StopController came after it
          known,             \* StartController was called: gInterrupt is set
          mPageList,         \* the list's nodes: <<buffer, pages>>
          allocated,         \* the page allocator's own view of them
          armed,             \* the channels that work, and their buffers
          outstanding,       \* the buffer of the client's Transfer(Rx), or NoBuf
          cut,               \* a bus reset came during that transfer
          pc,                \* the next step of the call in progress
          badFree,           \* history: a buffer was freed that was not live
          badAccess          \* history: a register was accessed through a
                             \* handle that was closed

vars == <<usb_dma_used, dma_send_channal, dma_recv_channal, opened, rx_base_buffer,
          live, irqOn, started, known, mPageList, allocated, armed, outstanding,
          cut, pc, badFree, badAccess>>

bufferVars == <<mPageList, allocated, armed, outstanding, cut>>

Channels == 1..(SUNXI_USB_DMA_A50_MAX - 1)

(* The first channel that is not used, or 0.                               *)
usb_dma_request ==
  IF \E i \in Channels : i \notin usb_dma_used
    THEN CHOOSE i \in Channels \ usb_dma_used :
           \A j \in Channels \ usb_dma_used : i <= j
    ELSE 0

(* free(rx_base_buffer), if it is not NULL.                                *)
FreeRxBase ==
  /\ live' = live \ {rx_base_buffer}
  /\ badFree' = (badFree \/ (rx_base_buffer # NoBuf /\ rx_base_buffer \notin live))

Init ==
  /\ usb_dma_used = {}
  /\ dma_send_channal = 0
  /\ dma_recv_channal = 0
  /\ opened = FALSE
  /\ rx_base_buffer = NoBuf
  /\ live = {}
  /\ irqOn = FALSE
  /\ started = FALSE
  /\ known = FALSE
  /\ mPageList = {}
  /\ allocated = {}
  /\ armed = {}
  /\ outstanding = NoBuf
  /\ cut = FALSE
  /\ pc = "idle"
  /\ badFree = FALSE
  /\ badAccess = FALSE

-----------------------------------------------------------------------------
(* StartController: SunxiUsbInit, and SunxiUsbExit when that fails.        *)

(* The interrupt source is switched off, sunxi_udc_source is zeroed, with  *)
(* the channels an earlier start left in it, the port is opened, and its   *)
(* clock closed.                                                           *)
StartController ==
  /\ pc = "idle"
  /\ StopsFirst => ~started
  /\ irqOn' = FALSE
  /\ dma_send_channal' = 0
  /\ dma_recv_channal' = 0
  /\ opened' = TRUE
  /\ known' = TRUE
  /\ started' = FALSE
  /\ armed' = {}
  /\ pc' = "requestSend"
  /\ UNCHANGED <<usb_dma_used, rx_base_buffer, live, badFree, badAccess, mPageList,
                 allocated, outstanding, cut>>

RequestSend ==
  /\ pc = "requestSend"
  /\ dma_send_channal' = usb_dma_request
  /\ usb_dma_used' = usb_dma_used \cup ({usb_dma_request} \ {0})
  /\ pc' = IF usb_dma_request = 0 THEN "fail" ELSE "requestRecv"
  /\ UNCHANGED <<dma_recv_channal, opened, rx_base_buffer, live, irqOn, started,
                 known, badFree, badAccess, bufferVars>>

RequestRecv ==
  /\ pc = "requestRecv"
  /\ dma_recv_channal' = usb_dma_request
  /\ usb_dma_used' = usb_dma_used \cup ({usb_dma_request} \ {0})
  /\ pc' = IF usb_dma_request = 0 THEN "fail" ELSE "malloc"
  /\ UNCHANGED <<dma_send_channal, opened, rx_base_buffer, live, irqOn, started,
                 known, badFree, badAccess, bufferVars>>

(* sunxi_ubuf is zeroed, and its command buffer allocated.                 *)
Malloc(b) ==
  /\ pc = "malloc"
  /\ b \notin live
  /\ rx_base_buffer' = b
  /\ live' = live \cup {b}
  /\ started' = TRUE
  /\ pc' = "idle"
  /\ UNCHANGED <<usb_dma_used, dma_send_channal, dma_recv_channal, opened, irqOn,
                 known, badFree, badAccess, bufferVars>>

MallocFails ==
  /\ pc = "malloc"
  /\ rx_base_buffer' = NoBuf
  /\ pc' = "fail"
  /\ UNCHANGED <<usb_dma_used, dma_send_channal, dma_recv_channal, opened, live,
                 irqOn, started, known, badFree, badAccess, bufferVars>>

(* __sunxi_usb_init_fail; StartController then calls SunxiUsbExit, which   *)
(* finds the same channels and the same buffer again.                      *)
InitFail ==
  /\ pc = "fail"
  /\ usb_dma_used' = usb_dma_used \ {dma_send_channal, dma_recv_channal}
  /\ opened' = FALSE
  /\ FreeRxBase
  /\ pc' = "exitIrq"
  /\ UNCHANGED <<dma_send_channal, dma_recv_channal, rx_base_buffer, irqOn, started,
                 known, badAccess, bufferVars>>

-----------------------------------------------------------------------------
(* ConfigureEnableEndpoints and StopController.                            *)

(* The interrupt handler is registered and its source enabled.             *)
ConfigureEnableEndpoints ==
  /\ pc = "idle"
  /\ started
  /\ irqOn' = TRUE
  /\ UNCHANGED <<usb_dma_used, dma_send_channal, dma_recv_channal, opened,
                 rx_base_buffer, live, started, known, pc, badFree, badAccess, bufferVars>>

(* A client may stop a controller that is stopped.                         *)
StopController ==
  /\ pc = "idle"
  /\ known
  /\ pc' = "exitIrq"
  /\ UNCHANGED <<usb_dma_used, dma_send_channal, dma_recv_channal, opened,
                 rx_base_buffer, live, irqOn, started, known, badFree, badAccess, bufferVars>>

-----------------------------------------------------------------------------
(* SunxiUsbExit.                                                           *)

(* Mutant of ExitIrq: the interrupt stays enabled.                          *)
MutExitIrqOn ==
  /\ pc = "exitIrq"
  /\ started' = FALSE
  /\ pc' = "exitChannels"
  /\ UNCHANGED <<usb_dma_used, dma_send_channal, dma_recv_channal, opened,
                 rx_base_buffer, live, irqOn, known, badFree, badAccess, bufferVars>>

ExitIrq ==
  /\ pc = "exitIrq"
  /\ irqOn' = FALSE
  /\ started' = FALSE
  /\ pc' = "exitChannels"
  /\ UNCHANGED <<usb_dma_used, dma_send_channal, dma_recv_channal, opened,
                 rx_base_buffer, live, known, badFree, badAccess, bufferVars>>

(* usb_dma_stop, which writes a register if the channel is used, then      *)
(* usb_dma_release, for both channels.  A transfer under way goes on.      *)
ExitChannels ==
  /\ pc = "exitChannels"
  /\ LET held == {dma_send_channal, dma_recv_channal}
     IN  /\ badAccess' = (badAccess \/ (held \cap usb_dma_used # {} /\ ~opened))
         /\ usb_dma_used' = usb_dma_used \ held
  /\ pc' = "exitBuffer"
  /\ UNCHANGED <<dma_send_channal, dma_recv_channal, opened, rx_base_buffer, live,
                 irqOn, started, known, badFree, bufferVars>>

ExitBuffer ==
  /\ pc = "exitBuffer"
  /\ FreeRxBase
  /\ pc' = "exitClose"
  /\ UNCHANGED <<usb_dma_used, dma_send_channal, dma_recv_channal, opened,
                 rx_base_buffer, irqOn, started, known, badAccess, bufferVars>>

(* Mutant of ExitClose: sunxi_ubuf is not zeroed.                           *)
MutExitKeepsPointer ==
  /\ pc = "exitClose"
  /\ opened' = FALSE
  /\ armed' = {}
  /\ outstanding' = NoBuf
  /\ cut' = FALSE
  /\ pc' = "idle"
  /\ UNCHANGED <<usb_dma_used, dma_send_channal, dma_recv_channal, rx_base_buffer,
                 live, irqOn, started, known, badFree, badAccess, mPageList, allocated>>

(* Mutant of ExitClose: the clock stays on, as if usb_dma_stop were enough. *)
MutExitClockOn ==
  /\ pc = "exitClose"
  /\ opened' = FALSE
  /\ rx_base_buffer' = NoBuf
  /\ outstanding' = NoBuf
  /\ cut' = FALSE
  /\ pc' = "idle"
  /\ UNCHANGED <<usb_dma_used, dma_send_channal, dma_recv_channal, live, irqOn,
                 started, known, badFree, badAccess, mPageList, allocated, armed>>

(* USBC_close_otg, usb_close_clock, which resets the controller and ends   *)
(* what its channels do, and the zeroing of sunxi_ubuf; StopController     *)
(* returns.                                                                *)
ExitClose ==
  /\ pc = "exitClose"
  /\ opened' = FALSE
  /\ armed' = {}
  /\ rx_base_buffer' = NoBuf
  /\ outstanding' = NoBuf
  /\ cut' = FALSE
  /\ pc' = "idle"
  /\ UNCHANGED <<usb_dma_used, dma_send_channal, dma_recv_channal, live, irqOn,
                 started, known, badFree, badAccess, mPageList, allocated>>

-----------------------------------------------------------------------------
(* Transfer buffers.                                                       *)

HasPages(t) == \E x \in allocated : x[1] = t

AllocateTransferBuffer(t, p) ==
  /\ pc = "idle"
  /\ ~HasPages(t)
  /\ allocated' = allocated \cup {<<t, p>>}
  /\ mPageList' = mPageList \cup {<<t, p>>}
  /\ UNCHANGED <<usb_dma_used, dma_send_channal, dma_recv_channal, opened,
                 rx_base_buffer, live, irqOn, started, known, armed, outstanding, cut,
                 pc, badFree, badAccess>>

(* A failed allocation leaves a node for NULL, which no call removes.      *)
AllocateTransferBufferFails(p) ==
  /\ pc = "idle"
  /\ mPageList' = mPageList \cup {<<NoBuf, p>>}
  /\ UNCHANGED <<usb_dma_used, dma_send_channal, dma_recv_channal, opened,
                 rx_base_buffer, live, irqOn, started, known, allocated, armed,
                 outstanding, cut, pc, badFree, badAccess>>

(* The list without the buffer's node.                                     *)
RemoveUsbBufferPagesFromList(t) == {x \in mPageList : x[1] # t}

(* Freed are the pages that the list has for the buffer.                   *)
FreeTransferBuffer(t) ==
  /\ pc = "idle"
  /\ HasPages(t)
  /\ outstanding # t
  /\ allocated' = {x \in allocated : ~(x[1] = t /\ x \in mPageList)}
  /\ mPageList' = RemoveUsbBufferPagesFromList(t)
  /\ UNCHANGED <<usb_dma_used, dma_send_channal, dma_recv_channal, opened,
                 rx_base_buffer, live, irqOn, started, known, armed, outstanding, cut,
                 pc, badFree, badAccess>>

(* Transfer(Rx) sets up the receive channel, if usb_dma_start finds it     *)
(* used: what the channel did before is over.                              *)
Transfer(t) ==
  /\ pc = "idle"
  /\ started
  /\ irqOn
  /\ HasPages(t)
  /\ outstanding = NoBuf \/ cut
  /\ outstanding' = t
  /\ cut' = FALSE
  /\ armed' = {x \in armed : x[1] # dma_recv_channal}
                 \cup {<<c, t>> : c \in {dma_recv_channal} \cap usb_dma_used}
  /\ UNCHANGED <<usb_dma_used, dma_send_channal, dma_recv_channal, opened,
                 rx_base_buffer, live, irqOn, started, known, mPageList, allocated, pc,
                 badFree, badAccess>>

(* The RESET branch of sunxi_usb_irq: usb_dma_stop on both channels.       *)
BusReset ==
  /\ irqOn
  /\ outstanding # NoBuf
  /\ cut' = TRUE
  /\ UNCHANGED <<usb_dma_used, dma_send_channal, dma_recv_channal, opened,
                 rx_base_buffer, live, irqOn, started, known, mPageList, allocated,
                 armed, outstanding, pc, badFree, badAccess>>

(* A transfer completes; sunxi_usb_irq reports it to the client only if it *)
(* may run and the channel has the number it tests for, and then may lose  *)
(* it (UsbBulk).                                                           *)
DmaCompletes(x) ==
  /\ x \in armed
  /\ armed' = armed \ {x}
  /\ \/ outstanding' = outstanding
     \/ irqOn /\ x = <<2, outstanding>> /\ outstanding' = NoBuf
  /\ cut' = (cut /\ outstanding' # NoBuf)
  /\ UNCHANGED <<usb_dma_used, dma_send_channal, dma_recv_channal, opened,
                 rx_base_buffer, live, irqOn, started, known, mPageList, allocated, pc,
                 badFree, badAccess>>

Next ==
  \/ StartController
  \/ RequestSend
  \/ RequestRecv
  \/ \E b \in Buf : Malloc(b)
  \/ MallocFails
  \/ InitFail
  \/ ConfigureEnableEndpoints
  \/ StopController
  \/ ExitIrq
  \/ ExitChannels
  \/ ExitBuffer
  \/ ExitClose
  \/ \E t \in TBuf :
       \/ \E p \in Pages : AllocateTransferBuffer(t, p)
       \/ FreeTransferBuffer(t)
       \/ Transfer(t)
  \/ \E p \in Pages : AllocateTransferBufferFails(p)
  \/ BusReset
  \/ \E x \in armed : DmaCompletes(x)

Spec == Init /\ [][Next]_vars

-----------------------------------------------------------------------------
(* Properties.                                                             *)

(* Type correctness.                                                       *)
TypeOK ==
  /\ usb_dma_used \in SUBSET Channels
  /\ dma_send_channal \in Channels \cup {0}
  /\ dma_recv_channal \in Channels \cup {0}
  /\ opened \in BOOLEAN
  /\ rx_base_buffer \in Buf \cup {NoBuf}
  /\ live \in SUBSET Buf
  /\ irqOn \in BOOLEAN
  /\ started \in BOOLEAN
  /\ known \in BOOLEAN
  /\ mPageList \in SUBSET ((TBuf \cup {NoBuf}) \X Pages)
  /\ allocated \in SUBSET (TBuf \X Pages)
  /\ armed \in SUBSET (Channels \X TBuf)
  /\ outstanding \in TBuf \cup {NoBuf}
  /\ cut \in BOOLEAN
  /\ pc \in {"idle", "requestSend", "requestRecv", "malloc", "fail", "exitIrq",
             "exitChannels", "exitBuffer", "exitClose"}
  /\ badFree \in BOOLEAN
  /\ badAccess \in BOOLEAN

(* Whenever sunxi_usb_irq may run, also in the middle of a start or a stop,*)
(* what it uses is there: the port is open, the command buffer is live and *)
(* the two DMA channels are the driver's.                                  *)
IsrSafe ==
  irqOn => /\ opened
           /\ rx_base_buffer \in live
           /\ {dma_send_channal, dma_recv_channal} \subseteq usb_dma_used

(* Between two calls the driver holds exactly what a started controller    *)
(* needs, whatever starts failed and stops were repeated before.           *)
NoLeak ==
  pc = "idle" =>
    /\ live = IF started THEN {rx_base_buffer} ELSE {}
    /\ usb_dma_used = IF started THEN {dma_send_channal, dma_recv_channal} ELSE {}

(* No buffer is freed twice, although a failed start and the exit after it *)
(* both free it, and no register is accessed after the port was closed.    *)
ReleasedOnce == ~badFree /\ ~badAccess

(* What StartController acquires and SunxiUsbInit, when it fails, and      *)
(* SunxiUsbExit give back is given back, and once.                         *)
ResourcesReturned == NoLeak /\ ReleasedOnce

(* sunxi_usb_irq tests bits 1 and 2 of the DMA status, the numbers of the  *)
(* endpoints, where the hardware sets the bit of the channel: the channels *)
(* of a started controller must have the endpoints' numbers.               *)
ChannelsMatchIsr ==
  started => dma_send_channal = 1 /\ dma_recv_channal = 2

(* The DMA controller never writes to a buffer the client may have freed,  *)
(* although usb_dma_stop leaves it running through a bus reset and through *)
(* most of SunxiUsbExit: the only buffer it works on is the one of the     *)
(* client's transfer, and that buffer is allocated.                        *)
DmaIntoOwned ==
  \A x \in armed : x[2] = outstanding /\ HasPages(x[2])

(* The driver's list knows every transfer buffer with the size it was      *)
(* allocated with, and no other: each is freed whole.                      *)
ListMatchesPages == {x \in mPageList : x[1] # NoBuf} = allocated
=============================================================================
