------------------------------ MODULE UsbRegs -------------------------------
(***************************************************************************)
(* Include/usb.h: the registers of the USB controller and the layout of    *)
(* the ones whose bits the driver tells apart, and the shape of an access. *)
(*                                                                         *)
(* A register is the set of its bits that are 1.  The registers in Banked  *)
(* exist once for each endpoint; the register EPIND selects which of them  *)
(* an access is for.  CSR0 is TXCSR of endpoint 0, at the same address, and*)
(* likewise EP0TYPE is TXTYPE, NAKLIMIT0 is TXINTERVAL, COUNT0 is RXCOUNT. *)
(***************************************************************************)
EXTENDS Integers, Sequences, FiniteSetsExt, SequencesExt

POWER_D ==
  [ISO_UPDATE_EN |-> 7, SOFT_CONNECT |-> 6, HIGH_SPEED_EN |-> 5,
   HIGH_SPEED_FLAG |-> 4, RESET_FLAG |-> 3, RESUME |-> 2, SUSPEND |-> 1,
   ENABLE_SUSPENDM |-> 0]

POWER_H ==
  [HIGH_SPEED_EN |-> 5, HIGH_SPEED_FLAG |-> 4, RESET |-> 3, RESUME |-> 2,
   SUSPEND |-> 1, SUEPEND_EN |-> 0]

INTUSB ==
  [VBUS_ERROR |-> 7, SESSION_REQ |-> 6, DISCONNECT |-> 5, CONNECT |-> 4,
   SOF |-> 3, RESET |-> 2, RESUME |-> 1, SUSPEND |-> 0]

TMCTL ==
  [FORCE_HOST |-> 7, FIFO_ACCESS |-> 6, FORCE_FS |-> 5, FORCE_HS |-> 4,
   TEST_PACKET |-> 3, TEST_K |-> 2, TEST_J |-> 1, TEST_SE0_NAK |-> 0]

CSR0_H ==
  [DisPing |-> 11, FlushFIFO |-> 8, NAK_Timeout |-> 7, StatusPkt |-> 6,
   ReqPkt |-> 5, Error |-> 4, SetupPkt |-> 3, RxStall |-> 2, TxPkRdy |-> 1,
   RxPkRdy |-> 0]

CSR0_D ==
  [FLUSH_FIFO |-> 8, SERVICED_SETUP_END |-> 7, SERVICED_RX_PKT_READY |-> 6,
   SEND_STALL |-> 5, SETUP_END |-> 4, DATA_END |-> 3, SENT_STALL |-> 2,
   TX_PKT_READY |-> 1, RX_PKT_READY |-> 0]

TXCSR_H ==
  [AUTOSET |-> 15, RESERVED |-> 14, MODE |-> 13, DMA_REQ_EN |-> 12,
   FORCE_DATA_TOGGLE |-> 11, DMA_REQ_MODE |-> 10, DATA_TOGGLE_WR_EN |-> 9,
   DATA_TOGGLE |-> 8, NAK_TIMEOUT |-> 7, CLEAR_DATA_TOGGLE |-> 6,
   TX_STALL |-> 5, FLUSH_FIFO |-> 3, ERROR |-> 2, FIFO_NOT_EMPTY |-> 1,
   TX_READY |-> 0]

TXCSR_D ==
  [AUTOSET |-> 15, ISO |-> 14, MODE |-> 13, DMA_REQ_EN |-> 12,
   FORCE_DATA_TOGGLE |-> 11, DMA_REQ_MODE |-> 10, INCOMPLETE |-> 7,
   CLEAR_DATA_TOGGLE |-> 6, SENT_STALL |-> 5, SEND_STALL |-> 4,
   FLUSH_FIFO |-> 3, UNDER_RUN |-> 2, FIFO_NOT_EMPTY |-> 1, TX_READY |-> 0]

RXCSR_H ==
  [AUTO_CLEAR |-> 15, AUTO_REQ |-> 14, DMA_REQ_EN |-> 13, DISNYET |-> 12,
   PID_ERROR |-> 12, DMA_REQ_MODE |-> 11, DATA_TOGGLE_WR_EN |-> 10,
   DATA_TOGGLE |-> 9, INCOMPLETE |-> 8, CLEAR_DATA_TOGGLE |-> 7,
   RX_STALL |-> 6, REQ_PACKET |-> 5, FLUSH_FIFO |-> 4, DATA_ERR |-> 3,
   NAK_TIMEOUT |-> 3, ERROR |-> 2, FIFO_FULL |-> 1, RX_PKT_READY |-> 0]

RXCSR_D ==
  [AUTO_CLEAR |-> 15, ISO |-> 14, DMA_REQ_EN |-> 13, DISABLE_NYET |-> 12,
   DMA_REQ_MODE |-> 11, INCOMPLETE |-> 8, CLEAR_DATA_TOGGLE |-> 7,
   SENT_STALL |-> 6, SEND_STALL |-> 5, FLUSH_FIFO |-> 4, DATA_ERROR |-> 3,
   OVERRUN |-> 2, FIFO_FULL |-> 1, RX_PKT_READY |-> 0]

DEVCTL ==
  [B_DEVICE |-> 7, FS_DEV |-> 6, LS_DEV |-> 5, VBUS |-> 3, HOST_MODE |-> 2,
   HOST_REQ |-> 1, SESSION |-> 0]

VEND0 ==
  [DRQ_SEL |-> 1, BUS_SEL |-> 0]

ISCR ==
  [VBUS_VALID_FROM_DATA |-> 30, VBUS_VALID_FROM_VBUS |-> 29,
   EXT_ID_STATUS |-> 28, EXT_DM_STATUS |-> 27, EXT_DP_STATUS |-> 26,
   MERGED_VBUS_STATUS |-> 25, MERGED_ID_STATUS |-> 24, ID_PULLUP_EN |-> 17,
   DPDM_PULLUP_EN |-> 16, FORCE_ID |-> 14, FORCE_VBUS_VALID |-> 12,
   VBUS_VALID_SRC |-> 10, HOSC_EN |-> 7, VBUS_CHANGE_DETECT |-> 6,
   ID_CHANGE_DETECT |-> 5, DPDM_CHANGE_DETECT |-> 4, IRQ_ENABLE |-> 3,
   VBUS_CHANGE_DETECT_EN |-> 2, ID_CHANGE_DETECT_EN |-> 1,
   DPDM_CHANGE_DETECT_EN |-> 0]

CSR0 == "TXCSR"
EP0TYPE == "TXTYPE"
NAKLIMIT0 == "TXINTERVAL"

Banked == {"TXMAXP", "TXCSR", "RXMAXP", "RXCSR", "TXTYPE", "TXINTERVAL", "RXTYPE",
           "RXINTERVAL", "TXFIFOSZ", "RXFIFOSZ", "TXFIFOAD", "RXFIFOAD"}

(* Registers with an address of their own for each endpoint.               *)
Addressed == {"TXFADDR", "TXHADDR", "TXHPORT", "RXFADDR", "RXHADDR", "RXHPORT", "RPCOUNT"}

Common == {"FADDR", "PCTL", "INTTx", "INTRx", "INTTxE", "INTRxE", "INTUSB", "INTUSBE",
           "TMCTL", "DEVCTL", "EPIND", "VEND0", "ISCR"}

Bits(n) == {i \in 0..15 : (n \div 2^i) % 2 = 1}

(* The number that the bits b of a field of at most 16 bits stand for.     *)
Value(b) ==
  LET low[n \in 0..16] == IF n = 0 THEN 0 ELSE low[n - 1] + (IF n - 1 \in b THEN 2^(n - 1) ELSE 0)
  IN  low[16]

(* An access: bits to clear, then bits to set, in the register of endpoint *)
(* ep, or of the selected one for Here.                                    *)
Here == -1
All == 0..31
Update(reg, clr, set) == [reg |-> reg, ep |-> Here, clr |-> clr, set |-> set]

set_bit(reg, b) == Update(reg, {}, {b})
clear_bit(reg, b) == Update(reg, {b}, {})
Write(reg, set) == Update(reg, All, set)
WriteAt(reg, ep, set) == [reg |-> reg, ep |-> ep, clr |-> All, set |-> set]

(* The `switch (ep_type)' of most functions: nothing for other types.      *)
Switch(ep_type, ep0, tx, rx) ==
  CASE ep_type = "EP0" -> ep0 [] ep_type = "TX" -> tx [] ep_type = "RX" -> rx
    [] OTHER -> <<>>

-----------------------------------------------------------------------------
(* What the USB controller makes of the accesses of UsbRegs.  The          *)
(* controller is hardware: its behaviour is taken from the way the driver  *)
(* uses it and from the *_WZC_BITS masks and comments of Include/usb.h.    *)
(*                                                                         *)
(*   - the pending registers and the change bits of ISCR are cleared by    *)
(*     writing 1;                                                          *)
(*   - the status bits of a CSR are cleared by writing 0 and cannot be set *)
(*     by the driver; its command bits act and read as 0;                  *)
(*   - TX_READY can be set, and is cleared by the controller or a flush.   *)

CONSTANT Eps     \* the endpoints: 0 and the ones of the data path

Cleared1 == {"INTTx", "INTRx", "INTUSB"}
Changes == {ISCR.VBUS_CHANGE_DETECT, ISCR.ID_CHANGE_DETECT, ISCR.DPDM_CHANGE_DETECT}

(* The bits of a CSR: ready (set-only), status, commands, and the status   *)
(* bits that a command clears.                                             *)
DeviceCsr ==
  [EP0 |-> [ready |-> {CSR0_D.TX_PKT_READY}, status |-> {CSR0_D.SENT_STALL},
            fixed |-> {CSR0_D.RX_PKT_READY, CSR0_D.SETUP_END},
            command |-> {CSR0_D.FLUSH_FIFO, CSR0_D.SERVICED_SETUP_END, CSR0_D.DATA_END,
                         CSR0_D.SERVICED_RX_PKT_READY},
            flush |-> CSR0_D.FLUSH_FIFO],
   TX  |-> [ready |-> {TXCSR_D.TX_READY}, status |-> {TXCSR_D.SENT_STALL, TXCSR_D.UNDER_RUN},
            fixed |-> {},
            command |-> {TXCSR_D.FLUSH_FIFO, TXCSR_D.CLEAR_DATA_TOGGLE},
            flush |-> TXCSR_D.FLUSH_FIFO],
   RX  |-> [ready |-> {}, status |-> {RXCSR_D.RX_PKT_READY, RXCSR_D.SENT_STALL, RXCSR_D.OVERRUN},
            fixed |-> {},
            command |-> {RXCSR_D.FLUSH_FIFO, RXCSR_D.CLEAR_DATA_TOGGLE},
            flush |-> RXCSR_D.FLUSH_FIFO]]

HostCsr ==
  [EP0 |-> [ready |-> {CSR0_H.TxPkRdy},
            status |-> {CSR0_H.RxPkRdy, CSR0_H.RxStall, CSR0_H.Error, CSR0_H.NAK_Timeout},
            fixed |-> {}, command |-> {CSR0_H.FlushFIFO}, flush |-> CSR0_H.FlushFIFO],
   TX  |-> [ready |-> {TXCSR_H.TX_READY},
            status |-> {TXCSR_H.TX_STALL, TXCSR_H.ERROR, TXCSR_H.NAK_TIMEOUT},
            fixed |-> {}, command |-> {TXCSR_H.FLUSH_FIFO, TXCSR_H.CLEAR_DATA_TOGGLE},
            flush |-> TXCSR_H.FLUSH_FIFO],
   RX  |-> [ready |-> {},
            status |-> {RXCSR_H.RX_PKT_READY, RXCSR_H.RX_STALL, RXCSR_H.ERROR, RXCSR_H.NAK_TIMEOUT},
            fixed |-> {}, command |-> {RXCSR_H.FLUSH_FIFO, RXCSR_H.CLEAR_DATA_TOGGLE},
            flush |-> RXCSR_H.FLUSH_FIFO]]

Csr(host) == IF host THEN HostCsr ELSE DeviceCsr

(* The status bits that the SERVICED commands of endpoint 0 clear.         *)
Serviced(v) ==
       (IF CSR0_D.SERVICED_RX_PKT_READY \in v THEN {CSR0_D.RX_PKT_READY} ELSE {})
  \cup (IF CSR0_D.SERVICED_SETUP_END \in v THEN {CSR0_D.SETUP_END} ELSE {})

LandCsr(k, old, v) ==
  LET kept == (old \cap k.fixed) \cup (old \cap k.status \cap v)
              \cup ((old \cup v) \cap k.ready)
      rest == v \ (k.fixed \cup k.status \cup k.ready \cup k.command)
  IN  (kept \ ((IF k.flush \in v THEN k.status \cup k.ready \cup k.fixed ELSE {})
               \cup (IF k.fixed = {} THEN {} ELSE Serviced(v)))) \cup rest

CsrKind(reg, ep) == IF reg = "RXCSR" THEN "RX" ELSE IF ep = 0 THEN "EP0" ELSE "TX"

(* The value of a register that held old after v is written to it.         *)
Land(host, reg, ep, old, v) ==
  IF reg \in Cleared1 THEN old \ v
  ELSE IF reg = "ISCR" THEN (v \ Changes) \cup ((old \cap Changes) \ v)
  ELSE IF reg \in {"TXCSR", "RXCSR"} THEN LandCsr(Csr(host)[CsrKind(reg, ep)], old, v)
  ELSE v

(* The registers: Common, and one of each other kind for each endpoint.    *)
Blank == [c |-> [r \in Common |-> {}], e |-> [r \in Banked \cup Addressed |-> [e \in Eps |-> {}]]]

Selected(R, o) == IF o.ep # Here THEN o.ep ELSE Value(R.c["EPIND"])

Get(R, o) == IF o.reg \in Common THEN R.c[o.reg] ELSE R.e[o.reg][Selected(R, o)]

(* The write of access o, whose read returned v.                           *)
Put(host, R, o, v) ==
  LET ep == Selected(R, o)
      new == Land(host, o.reg, ep, Get(R, o), (v \ o.clr) \cup o.set)
  IN  IF o.reg \in Common THEN [R EXCEPT !.c[o.reg] = new] ELSE [R EXCEPT !.e[o.reg][ep] = new]

Access(host, R, o) == Put(host, R, o, Get(R, o))

(* A sequence of accesses that nothing disturbs.                           *)
Perform(host, R, prog) ==
  LET after[n \in 0..Len(prog)] == IF n = 0 THEN R ELSE Access(host, after[n - 1], prog[n])
  IN  after[Len(prog)]
=============================================================================
