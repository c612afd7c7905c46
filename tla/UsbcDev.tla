------------------------------- MODULE UsbcDev -------------------------------
(***************************************************************************)
(* Drivers/EfiUsbFnIo/usbc_dev.c: the register accesses of the device side,*)
(* each a sequence of updates (UsbRegs), and its queries on a register     *)
(* value.  A dispatcher that does not know the type returns -1 and changes *)
(* nothing: the empty sequence.                                            *)
(*                                                                         *)
(* USBC_Dev_IsEpStall calls the test and drops its result: it returns 0    *)
(* for every known type.                                                   *)
(***************************************************************************)
EXTENDS UsbRegs

USBC_Dev_TsType_Iso == <<set_bit("PCTL", POWER_D.ISO_UPDATE_EN)>>
USBC_Dev_TsType_Ctrl == <<clear_bit("PCTL", POWER_D.ISO_UPDATE_EN)>>
USBC_Dev_TsType_Int == <<clear_bit("PCTL", POWER_D.ISO_UPDATE_EN)>>
USBC_Dev_TsType_Bulk == <<clear_bit("PCTL", POWER_D.ISO_UPDATE_EN)>>
USBC_Dev_TsType_default == <<clear_bit("PCTL", POWER_D.ISO_UPDATE_EN)>>
USBC_Dev_TsMode_Hs == <<set_bit("PCTL", POWER_D.HIGH_SPEED_EN)>>
USBC_Dev_TsMode_Fs == <<clear_bit("PCTL", POWER_D.HIGH_SPEED_EN)>>
USBC_Dev_TsMode_Ls == USBC_Dev_TsMode_Fs
USBC_Dev_TsMode_default == <<clear_bit("PCTL", POWER_D.HIGH_SPEED_EN)>>

USBC_Dev_ep0_ConfigEp0 == <<Write(CSR0, {CSR0_D.FLUSH_FIFO})>>
USBC_Dev_ep0_ConfigEp0_Default == <<Write(CSR0, {CSR0_D.FLUSH_FIFO})>>
USBC_Dev_ep0_FlushFifo == <<Write(CSR0, {CSR0_D.FLUSH_FIFO})>>
USBC_Dev_ep0_IsReadDataReady(r) == CSR0_D.RX_PKT_READY \in r
USBC_Dev_ep0_IsWriteDataReady(r) == CSR0_D.TX_PKT_READY \in r
USBC_Dev_ep0_ReadDataHalf == <<Write(CSR0, {CSR0_D.SERVICED_RX_PKT_READY})>>
USBC_Dev_ep0_ReadDataComplete ==
  <<Write(CSR0, {CSR0_D.SERVICED_RX_PKT_READY, CSR0_D.DATA_END})>>
USBC_Dev_ep0_WriteDataHalf == <<Write(CSR0, {CSR0_D.TX_PKT_READY})>>
USBC_Dev_ep0_WriteDataComplete == <<Write(CSR0, {CSR0_D.TX_PKT_READY, CSR0_D.DATA_END})>>
USBC_Dev_ep0_IsEpStall(r) == CSR0_D.SENT_STALL \in r
USBC_Dev_ep0_SendStall == <<set_bit(CSR0, CSR0_D.SEND_STALL)>>
USBC_Dev_ep0_ClearStall ==
  <<clear_bit(CSR0, CSR0_D.SEND_STALL), clear_bit(CSR0, CSR0_D.SENT_STALL)>>
USBC_Dev_ep0_IsSetupEnd(r) == CSR0_D.SETUP_END \in r
USBC_Dev_ep0_ClearSetupEnd == <<set_bit(CSR0, CSR0_D.SERVICED_SETUP_END)>>

(* The maximal packet: the low eleven bits of the argument.                *)
MaxPkt(n) == Bits(n % 2^11)

USBC_Dev_Tx_EnableIsoEp == <<set_bit("TXCSR", TXCSR_D.ISO)>>
USBC_Dev_Tx_EnableIntEp == <<clear_bit("TXCSR", TXCSR_D.ISO)>>
USBC_Dev_Tx_EnableBulkEp == <<clear_bit("TXCSR", TXCSR_D.ISO)>>
USBC_Dev_Tx_ConfigEp_Default == <<Write("TXCSR", {}), Write("TXMAXP", {})>>

USBC_Dev_Tx_ConfigEp(ts_type, is_double_fifo, ep_MaxPkt) ==
  LET csr == Write("TXCSR", {TXCSR_D.MODE, TXCSR_D.CLEAR_DATA_TOGGLE, TXCSR_D.FLUSH_FIFO})
  IN  <<csr>> \o (IF is_double_fifo THEN <<csr>> ELSE <<>>)
        \o <<Update("TXMAXP", 0..12, MaxPkt(ep_MaxPkt))>>
        \o (IF ts_type = "ISO" THEN USBC_Dev_Tx_EnableIsoEp
            ELSE IF ts_type = "INT" THEN USBC_Dev_Tx_EnableIntEp
            ELSE USBC_Dev_Tx_EnableBulkEp)

USBC_Dev_Tx_ConfigEpDma ==
  <<Update("TXCSR", {}, {TXCSR_D.AUTOSET, TXCSR_D.MODE, TXCSR_D.DMA_REQ_EN,
                         TXCSR_D.DMA_REQ_MODE})>>
(* In two steps: the mode bit last.                                        *)
USBC_Dev_Tx_ClearEpDma ==
  <<Update("TXCSR", {TXCSR_D.AUTOSET, TXCSR_D.DMA_REQ_EN}, {}),
    clear_bit("TXCSR", TXCSR_D.DMA_REQ_MODE)>>
USBC_Dev_Tx_IsWriteDataReady(r) == r \cap {TXCSR_D.TX_READY, TXCSR_D.FIFO_NOT_EMPTY} # {}
USBC_Dev_Tx_IsWriteDataReady_FifoEmpty(r) ==
  r \cap {TXCSR_D.TX_READY, TXCSR_D.FIFO_NOT_EMPTY} # {}
USBC_Dev_Tx_WriteDataHalf == <<Update("TXCSR", {TXCSR_D.UNDER_RUN}, {TXCSR_D.TX_READY})>>
USBC_Dev_Tx_WriteDataComplete == <<Update("TXCSR", {TXCSR_D.UNDER_RUN}, {TXCSR_D.TX_READY})>>
USBC_Dev_Tx_SendStall == <<set_bit("TXCSR", TXCSR_D.SEND_STALL)>>
USBC_Dev_Tx_IsEpStall(r) == TXCSR_D.SENT_STALL \in r
USBC_Dev_Tx_ClearStall == <<Update("TXCSR", {TXCSR_D.SENT_STALL, TXCSR_D.SEND_STALL}, {})>>
USBC_Dev_Tx_FlushFifo == <<Write("TXCSR", {TXCSR_D.CLEAR_DATA_TOGGLE, TXCSR_D.FLUSH_FIFO})>>

USBC_Dev_Rx_EnableIsoEp == <<set_bit("RXCSR", RXCSR_D.ISO)>>
USBC_Dev_Rx_EnableIntEp == <<clear_bit("RXCSR", RXCSR_D.ISO)>>
USBC_Dev_Rx_EnableBulkEp == <<clear_bit("RXCSR", RXCSR_D.ISO)>>
USBC_Dev_Rx_ConfigEp_Default == <<Write("RXCSR", {}), Write("RXMAXP", {})>>
USBC_Dev_Rx_ConfigEp(ts_type, is_double_fifo, ep_MaxPkt) ==
  LET csr == Write("RXCSR", {RXCSR_D.CLEAR_DATA_TOGGLE, RXCSR_D.FLUSH_FIFO})
  IN  <<csr>> \o (IF is_double_fifo THEN <<csr>> ELSE <<>>)
        \o <<Update("RXMAXP", 0..12, MaxPkt(ep_MaxPkt))>>
        \o (IF ts_type = "ISO" THEN USBC_Dev_Rx_EnableIsoEp
            ELSE IF ts_type = "INT" THEN USBC_Dev_Rx_EnableIntEp
            ELSE USBC_Dev_Rx_EnableBulkEp)
USBC_Dev_Rx_ConfigEpDma ==
  <<Update("RXCSR", {RXCSR_D.DMA_REQ_MODE}, {RXCSR_D.AUTO_CLEAR, RXCSR_D.DMA_REQ_EN})>>
USBC_Dev_Rx_ClearEpDma ==
  <<Update("RXCSR", {RXCSR_D.AUTO_CLEAR, RXCSR_D.DMA_REQ_MODE, RXCSR_D.DMA_REQ_EN}, {})>>
USBC_Dev_Rx_IsReadDataReady(r) == RXCSR_D.RX_PKT_READY \in r
USBC_Dev_Rx_ReadDataHalf ==
  <<Update("RXCSR", {RXCSR_D.RX_PKT_READY, RXCSR_D.OVERRUN, RXCSR_D.DATA_ERROR}, {})>>
USBC_Dev_Rx_ReadDataComplete ==
  <<Update("RXCSR", {RXCSR_D.RX_PKT_READY, RXCSR_D.OVERRUN, RXCSR_D.DATA_ERROR}, {})>>
USBC_Dev_Rx_SendStall == <<set_bit("RXCSR", RXCSR_D.SEND_STALL)>>
USBC_Dev_Rx_IsEpStall(r) == RXCSR_D.SENT_STALL \in r
USBC_Dev_Rx_ClearStall ==
  <<clear_bit("RXCSR", RXCSR_D.SEND_STALL), clear_bit("RXCSR", RXCSR_D.SENT_STALL)>>
USBC_Dev_Rx_FlushFifo == <<Write("RXCSR", {RXCSR_D.CLEAR_DATA_TOGGLE, RXCSR_D.FLUSH_FIFO})>>

(* A 32-bit access at PCTL: bit 24 is bit 0 of VEND0, and PCTL, DEVCTL and *)
(* EPIND are written back as they were read.                               *)
USBC_Dev_ConfigDma_Trans == <<set_bit("VEND0", VEND0.BUS_SEL)>>
USBC_Dev_ClearDma_Trans == <<clear_bit("VEND0", VEND0.BUS_SEL)>>

-----------------------------------------------------------------------------
USBC_Dev_SetAddress_default == <<Write("FADDR", {})>>
USBC_Dev_SetAddress(address) == <<Write("FADDR", Bits(address))>>
USBC_Dev_QueryTransferMode(r) == IF POWER_D.HIGH_SPEED_FLAG \in r THEN "HS" ELSE "FS"
USBC_Dev_ConfigTransferMode(ts_type, speed_mode) ==
     (CASE ts_type = "CTRL" -> USBC_Dev_TsType_Ctrl
        [] ts_type = "ISO" -> USBC_Dev_TsType_Iso
        [] ts_type = "INT" -> USBC_Dev_TsType_Int
        [] ts_type = "BULK" -> USBC_Dev_TsType_Bulk
        [] OTHER -> USBC_Dev_TsType_default)
  \o (CASE speed_mode = "HS" -> USBC_Dev_TsMode_Hs
        [] speed_mode = "FS" -> USBC_Dev_TsMode_Fs
        [] speed_mode = "LS" -> USBC_Dev_TsMode_Ls
        [] OTHER -> USBC_Dev_TsMode_default)
USBC_Dev_ConectSwitch(is_on) ==
  IF is_on THEN <<set_bit("PCTL", POWER_D.SOFT_CONNECT)>>
           ELSE <<clear_bit("PCTL", POWER_D.SOFT_CONNECT)>>
USBC_Dev_QueryPowerStatus(r) == r \cap 0..3
USBC_Dev_ConfigEp(ts_type, ep_type, is_double_fifo, ep_MaxPkt) ==
  Switch(ep_type, USBC_Dev_ep0_ConfigEp0,
         USBC_Dev_Tx_ConfigEp(ts_type, is_double_fifo, ep_MaxPkt),
         USBC_Dev_Rx_ConfigEp(ts_type, is_double_fifo, ep_MaxPkt))
USBC_Dev_ConfigEp_Default(ep_type) ==
  Switch(ep_type, USBC_Dev_ep0_ConfigEp0_Default, USBC_Dev_Tx_ConfigEp_Default,
         USBC_Dev_Rx_ConfigEp_Default)
USBC_Dev_ConfigEpDma(ep_type) ==
  Switch(ep_type, <<>>, USBC_Dev_Tx_ConfigEpDma \o USBC_Dev_ConfigDma_Trans,
         USBC_Dev_Rx_ConfigEpDma \o USBC_Dev_ConfigDma_Trans)

USBC_Dev_ClearEpDma(ep_type) ==
  Switch(ep_type, <<>>, USBC_Dev_Tx_ClearEpDma \o USBC_Dev_ClearDma_Trans,
         USBC_Dev_Rx_ClearEpDma \o USBC_Dev_ClearDma_Trans)
USBC_Dev_IsEpStall(ep_type) == IF ep_type \in {"EP0", "TX", "RX"} THEN 0 ELSE -1
USBC_Dev_EpSendStall(ep_type) ==
  Switch(ep_type, USBC_Dev_ep0_SendStall, USBC_Dev_Tx_SendStall, USBC_Dev_Rx_SendStall)
USBC_Dev_EpClearStall(ep_type) ==
  Switch(ep_type, USBC_Dev_ep0_ClearStall, USBC_Dev_Tx_ClearStall, USBC_Dev_Rx_ClearStall)
USBC_Dev_Ctrl_IsSetupEnd(r) == USBC_Dev_ep0_IsSetupEnd(r)
USBC_Dev_Ctrl_ClearSetupEnd == USBC_Dev_ep0_ClearSetupEnd
USBC_Dev_WriteDataHalf(ep_type) ==
  Switch(ep_type, USBC_Dev_ep0_WriteDataHalf, USBC_Dev_Tx_WriteDataHalf, <<>>)
USBC_Dev_WriteDataComplete(ep_type) ==
  Switch(ep_type, USBC_Dev_ep0_WriteDataComplete, USBC_Dev_Tx_WriteDataComplete, <<>>)
USBC_Dev_ReadDataHalf(ep_type) ==
  Switch(ep_type, USBC_Dev_ep0_ReadDataHalf, <<>>, USBC_Dev_Rx_ReadDataHalf)
USBC_Dev_ReadDataComplete(ep_type) ==
  Switch(ep_type, USBC_Dev_ep0_ReadDataComplete, <<>>, USBC_Dev_Rx_ReadDataComplete)
USBC_Dev_WriteDataStatus(ep_type, complete) ==
  IF complete THEN USBC_Dev_WriteDataComplete(ep_type) ELSE USBC_Dev_WriteDataHalf(ep_type)
USBC_Dev_ReadDataStatus(ep_type, complete) ==
  IF complete THEN USBC_Dev_ReadDataComplete(ep_type) ELSE USBC_Dev_ReadDataHalf(ep_type)
USBC_Dev_IsReadDataReady(ep_type, tx, rx) ==
  CASE ep_type = "EP0" -> USBC_Dev_ep0_IsReadDataReady(tx)
    [] ep_type = "RX" -> USBC_Dev_Rx_IsReadDataReady(rx)
    [] OTHER -> FALSE
USBC_Dev_IsWriteDataReady(ep_type, tx) ==
  CASE ep_type = "EP0" -> USBC_Dev_ep0_IsWriteDataReady(tx)
    [] ep_type = "TX" -> USBC_Dev_Tx_IsWriteDataReady(tx)
    [] OTHER -> FALSE
USBC_Dev_IsWriteDataReady_FifoEmpty(ep_type, tx) ==
  CASE ep_type = "EP0" -> USBC_Dev_ep0_IsWriteDataReady(tx)
    [] ep_type = "TX" -> USBC_Dev_Tx_IsWriteDataReady_FifoEmpty(tx)
    [] OTHER -> FALSE
USBC_Dev_IsoUpdateEnable == USBC_Dev_TsType_Iso

(* Mutant: a `break' is missing, so that TX falls through to RX.           *)
MutFlushFifo(ep_type) ==
  Switch(ep_type, USBC_Dev_ep0_FlushFifo, USBC_Dev_Tx_FlushFifo \o USBC_Dev_Rx_FlushFifo,
         USBC_Dev_Rx_FlushFifo)

USBC_Dev_FlushFifo(ep_type) ==
  Switch(ep_type, USBC_Dev_ep0_FlushFifo, USBC_Dev_Tx_FlushFifo, USBC_Dev_Rx_FlushFifo)
=============================================================================
