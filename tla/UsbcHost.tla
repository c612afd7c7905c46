------------------------------ MODULE UsbcHost -------------------------------
(***************************************************************************)
(* Drivers/EfiUsbFnIo/usbc_host.c: the register accesses of the host side, *)
(* in the form of UsbcDev.  The functions that configure an endpoint OR    *)
(* the maximal packet into what the register holds.                        *)
(*                                                                         *)
(* Drivers/EfiUsbFnIo/usbc.c: the accesses both sides use.  A handle that  *)
(* is NULL changes nothing and is left out.                                *)
(***************************************************************************)
EXTENDS UsbRegs

USBC_Host_TsMode_Hs == <<set_bit("PCTL", POWER_H.HIGH_SPEED_EN)>>
USBC_Host_TsMode_Fs == <<clear_bit("PCTL", POWER_H.HIGH_SPEED_EN)>>
USBC_Host_TsMode_Ls == <<clear_bit("PCTL", POWER_H.HIGH_SPEED_EN)>>
USBC_Host_TsMode_Default == <<clear_bit("PCTL", POWER_H.HIGH_SPEED_EN)>>

(* The speed field of a type register, and its protocol field.             *)
Speed(ts_mode) ==
  CASE ts_mode = "HS" -> {6} [] ts_mode = "FS" -> {7} [] ts_mode = "LS" -> {6, 7} [] OTHER -> {}
Protocol(ts_type) ==
  CASE ts_type = "ISO" -> {4} [] ts_type = "BULK" -> {5} [] ts_type = "INT" -> {4, 5} [] OTHER -> {}

USBC_Host_ep0_EnablePing == <<clear_bit(CSR0, CSR0_H.DisPing)>>
USBC_Host_ep0_DisablePing == <<set_bit(CSR0, CSR0_H.DisPing)>>
USBC_Host_ep0_IsNakTimeOut(r) == CSR0_H.NAK_Timeout \in r
USBC_Host_ep0_ClearNakTimeOut == <<clear_bit(CSR0, CSR0_H.NAK_Timeout)>>
USBC_Host_ep0_IsError(r) == CSR0_H.Error \in r
USBC_Host_ep0_ClearError == <<clear_bit(CSR0, CSR0_H.Error)>>
USBC_Host_ep0_EpType(ts_mode) == <<Write(EP0TYPE, Speed(ts_mode))>>
USBC_Host_ep0_FlushFifo == <<Write(CSR0, {CSR0_H.FlushFIFO})>>
USBC_Host_ep0_ConfigEp_Default ==
  <<Write(CSR0, {CSR0_H.FlushFIFO}), Write("TXINTERVAL", {}), Write(EP0TYPE, {})>>
USBC_Host_ep0_ConfigEp(ts_mode, interval) ==
  <<Write(CSR0, {CSR0_H.FlushFIFO}), Write(NAKLIMIT0, Bits(interval))>>
    \o USBC_Host_ep0_EpType(ts_mode)
USBC_Host_ep0_IsReadDataReady(r) == CSR0_H.RxPkRdy \in r
USBC_Host_ep0_IsWriteDataReady(r) == CSR0_H.TxPkRdy \in r
USBC_Host_ep0_ReadDataHalf == <<clear_bit(CSR0, CSR0_H.RxPkRdy)>>
USBC_Host_ep0_ReadDataComplete == <<clear_bit(CSR0, CSR0_H.RxPkRdy)>>
USBC_Host_ep0_WriteDataHalf == <<set_bit(CSR0, CSR0_H.TxPkRdy)>>
USBC_Host_ep0_WriteDataComplete == <<set_bit(CSR0, CSR0_H.TxPkRdy)>>
USBC_Host_ep0_IsStall(r) == CSR0_H.RxStall \in r
USBC_Host_ep0_ClearStall == <<clear_bit(CSR0, CSR0_H.RxStall)>>
USBC_Host_ep0_ClearCSR == <<Write(CSR0, {})>>
USBC_Host_ep0_IsReqPktSet(r) == CSR0_H.ReqPkt \in r
USBC_Host_ep0_StartInToken == <<set_bit(CSR0, CSR0_H.ReqPkt)>>
USBC_Host_ep0_StopInToken == <<clear_bit(CSR0, CSR0_H.ReqPkt)>>
USBC_Host_ep0_StatusAfterIn == <<Update(CSR0, {}, {CSR0_H.TxPkRdy, CSR0_H.StatusPkt})>>
USBC_Host_ep0_StatusAfterOut == <<Update(CSR0, {}, {CSR0_H.ReqPkt, CSR0_H.StatusPkt})>>
USBC_Host_ep0_SendSetupPkt == <<Update(CSR0, {}, {CSR0_H.SetupPkt, CSR0_H.TxPkRdy})>>

USBC_Host_Tx_EpType(ep_index, ts_mode, ts_type) ==
  <<Write("TXTYPE", Speed(ts_mode) \cup Protocol(ts_type) \cup Bits(ep_index))>>
USBC_Host_Tx_FlushFifo == <<Write("TXCSR", {TXCSR_H.CLEAR_DATA_TOGGLE, TXCSR_H.FLUSH_FIFO})>>
USBC_Host_Tx_ConfigEp_Default ==
  <<Write("TXCSR", {TXCSR_H.CLEAR_DATA_TOGGLE, TXCSR_H.FLUSH_FIFO}), Write("TXCSR", {}),
    Write("TXMAXP", {}), Write("TXTYPE", {}), Write("TXINTERVAL", {})>>
USBC_Host_Tx_ConfigEp(ep_index, ts_mode, ts_type, is_double_fifo, ep_MaxPkt, interval) ==
  LET csr == Write("TXCSR", {TXCSR_H.MODE, TXCSR_H.CLEAR_DATA_TOGGLE, TXCSR_H.FLUSH_FIFO})
  IN  <<csr>> \o (IF is_double_fifo THEN <<csr>> ELSE <<>>)
        \o <<Update("TXMAXP", {}, Bits(ep_MaxPkt % 2^11))>>
        \o USBC_Host_Tx_EpType(ep_index, ts_mode, ts_type)
        \o <<Write("TXINTERVAL", Bits(interval))>>
USBC_Host_Tx_ConfigEpDma ==
  <<Update("TXCSR", {}, {TXCSR_H.AUTOSET, TXCSR_H.MODE, TXCSR_H.DMA_REQ_EN,
                         TXCSR_H.DMA_REQ_MODE})>>
USBC_Host_Tx_ClearEpDma ==
  <<Update("TXCSR", {TXCSR_H.AUTOSET, TXCSR_H.DMA_REQ_EN}, {}),
    clear_bit("TXCSR", TXCSR_H.DMA_REQ_MODE)>>
USBC_Host_Tx_IsWriteDataReady(r) == r \cap {TXCSR_H.TX_READY, TXCSR_H.FIFO_NOT_EMPTY} # {}
USBC_Host_Tx_WriteDataHalf == <<set_bit("TXCSR", TXCSR_H.TX_READY)>>
USBC_Host_Tx_WriteDataComplete == <<set_bit("TXCSR", TXCSR_H.TX_READY)>>
USBC_Host_Tx_IsNakTimeOut(r) == TXCSR_H.NAK_TIMEOUT \in r
USBC_Host_Tx_ClearNakTimeOut == <<clear_bit("TXCSR", TXCSR_H.NAK_TIMEOUT)>>
USBC_Host_Tx_IsError(r) == TXCSR_H.ERROR \in r
USBC_Host_Tx_ClearError == <<clear_bit("TXCSR", TXCSR_H.ERROR)>>
USBC_Host_Tx_IsStall(r) == TXCSR_H.TX_STALL \in r
USBC_Host_Tx_ClearStall == <<clear_bit("TXCSR", TXCSR_H.TX_STALL)>>
USBC_Host_Tx_ClearCSR == <<Write("TXCSR", {})>>

USBC_Host_Rx_EpType(ep_index, ts_mode, ts_type) ==
  <<Write("RXTYPE", Speed(ts_mode) \cup Protocol(ts_type) \cup Bits(ep_index))>>
USBC_Host_Rx_FlushFifo == <<Write("RXCSR", {RXCSR_H.CLEAR_DATA_TOGGLE, RXCSR_H.FLUSH_FIFO})>>
USBC_Host_Rx_ConfigEp_Default ==
  <<Write("RXCSR", {RXCSR_H.CLEAR_DATA_TOGGLE, RXCSR_H.FLUSH_FIFO}), Write("RXCSR", {}),
    Write("RXMAXP", {}), Write("RXTYPE", {}), Write("RXINTERVAL", {})>>
USBC_Host_Rx_ConfigEp(ep_index, ts_mode, ts_type, is_double_fifo, ep_MaxPkt, interval) ==
  LET csr == Write("RXCSR", {RXCSR_H.CLEAR_DATA_TOGGLE, RXCSR_H.FLUSH_FIFO})
  IN  <<csr>> \o (IF is_double_fifo THEN <<csr>> ELSE <<>>)
        \o <<Update("RXMAXP", {}, Bits(ep_MaxPkt % 2^11))>>
        \o USBC_Host_Rx_EpType(ep_index, ts_mode, ts_type)
        \o <<Write("RXINTERVAL", Bits(interval))>>
USBC_Host_Rx_ConfigEpDma ==
  <<Update("RXCSR", {}, {RXCSR_H.AUTO_CLEAR, RXCSR_H.AUTO_REQ, RXCSR_H.DMA_REQ_MODE,
                         RXCSR_H.DMA_REQ_EN})>>
USBC_Host_Rx_ClearEpDma ==
  <<Update("RXCSR", {RXCSR_H.AUTO_CLEAR, RXCSR_H.AUTO_REQ, RXCSR_H.DMA_REQ_MODE,
                     RXCSR_H.DMA_REQ_EN}, {})>>
USBC_Host_Rx_IsReadDataReady(r) == RXCSR_H.RX_PKT_READY \in r
USBC_Host_Rx_ReadDataHalf == <<clear_bit("RXCSR", RXCSR_H.RX_PKT_READY)>>
USBC_Host_Rx_ReadDataComplete == <<clear_bit("RXCSR", RXCSR_H.RX_PKT_READY)>>
USBC_Host_Rx_IsNakTimeOut(r) == RXCSR_H.NAK_TIMEOUT \in r
USBC_Host_Rx_ClearNakTimeOut == <<clear_bit("RXCSR", RXCSR_H.NAK_TIMEOUT)>>
USBC_Host_Rx_IsError(r) == RXCSR_H.ERROR \in r
USBC_Host_Rx_ClearError == <<clear_bit("RXCSR", RXCSR_H.ERROR)>>
USBC_Host_Rx_IsStall(r) == RXCSR_H.RX_STALL \in r
USBC_Host_Rx_ClearStall == <<clear_bit("RXCSR", RXCSR_H.RX_STALL)>>
USBC_Host_Rx_ClearCSR == <<Write("RXCSR", {})>>
USBC_Host_Rx_IsReqPktSet(r) == RXCSR_H.REQ_PACKET \in r

USBC_Host_Rx_StartInToken == <<set_bit("RXCSR", RXCSR_H.REQ_PACKET)>>
USBC_Host_Rx_StopInToken == <<clear_bit("RXCSR", RXCSR_H.REQ_PACKET)>>

-----------------------------------------------------------------------------
USBC_Host_SetFunctionAddress(EpType, EpIndex, FunctionAdress, MultiTT, HubAddress, HubPortNumber) ==
  LET hub == Bits(HubAddress) \cup (IF MultiTT THEN {7} ELSE {})
  IN  Switch(EpType, <<>>,
        <<WriteAt("TXFADDR", EpIndex, Bits(FunctionAdress)), WriteAt("TXHADDR", EpIndex, hub),
          WriteAt("TXHPORT", EpIndex, Bits(HubPortNumber))>>,
        <<WriteAt("RXFADDR", EpIndex, Bits(FunctionAdress)), WriteAt("RXHADDR", EpIndex, hub),
          WriteAt("RXHPORT", EpIndex, Bits(HubPortNumber))>>)
USBC_Host_SetFunctionAddress_Deafult(ep_type, ep_index) ==
  Switch(ep_type, <<>>,
    <<WriteAt("TXFADDR", ep_index, {}), WriteAt("TXHADDR", ep_index, {}), WriteAt("TXHPORT", ep_index, {})>>,
    <<WriteAt("RXFADDR", ep_index, {}), WriteAt("RXHADDR", ep_index, {}), WriteAt("RXHPORT", ep_index, {})>>)
USBC_Host_SetHubAddress_Deafult(ep_type, ep_index) ==
  Switch(ep_type, <<>>, <<WriteAt("TXHADDR", ep_index, {})>>, <<WriteAt("RXHADDR", ep_index, {})>>)
USBC_Host_SetHubAddress(ep_type, ep_index, is_mutli_tt, address) ==
  LET hub == Bits(address) \cup (IF is_mutli_tt THEN {7} ELSE {})
  IN  Switch(ep_type, <<>>, <<WriteAt("TXHADDR", ep_index, hub)>>, <<WriteAt("RXHADDR", ep_index, hub)>>)
USBC_Host_SetHPortAddress_Deafult(ep_type, ep_index) ==
  Switch(ep_type, <<>>, <<WriteAt("TXHPORT", ep_index, {})>>, <<WriteAt("RXHPORT", ep_index, {})>>)
USBC_Host_SetHPortAddress(ep_type, ep_index, address) ==
  Switch(ep_type, <<>>, <<WriteAt("TXHPORT", ep_index, Bits(address))>>,
         <<WriteAt("RXHPORT", ep_index, Bits(address))>>)
USBC_Host_QueryTransferMode(r) == IF POWER_H.HIGH_SPEED_FLAG \in r THEN "HS" ELSE "FS"
USBC_Host_ConfigTransferMode(speed_mode) ==
  CASE speed_mode = "HS" -> USBC_Host_TsMode_Hs
    [] speed_mode = "FS" -> USBC_Host_TsMode_Fs
    [] speed_mode = "LS" -> USBC_Host_TsMode_Ls
    [] OTHER -> USBC_Host_TsMode_Default
USBC_Host_ResetPort == <<set_bit("PCTL", POWER_H.RESET)>>
USBC_Host_ClearResetPortFlag == <<clear_bit("PCTL", POWER_H.RESET)>>
USBC_Host_RusumePort == <<set_bit("PCTL", POWER_H.RESUME)>>
USBC_Host_ClearRusumePortFlag == <<clear_bit("PCTL", POWER_H.RESUME)>>
USBC_Host_SuspendPort == <<set_bit("PCTL", POWER_H.SUSPEND)>>
USBC_Host_QueryPowerStatus(r) == r
USBC_Host_StartSession == <<set_bit("DEVCTL", DEVCTL.SESSION)>>
USBC_Host_EndSession == <<clear_bit("DEVCTL", DEVCTL.SESSION)>>
USBC_Host_PeripheralType(r) == IF DEVCTL.FS_DEV \in r THEN "FSDEV" ELSE "LSDEV"
USBC_Host_FlushFifo(ep_type) ==
  Switch(ep_type, USBC_Host_ep0_FlushFifo, USBC_Host_Tx_FlushFifo, USBC_Host_Rx_FlushFifo)
USBC_Host_ConfigEp_Default(ep_type) ==
  Switch(ep_type, USBC_Host_ep0_ConfigEp_Default, USBC_Host_Tx_ConfigEp_Default,
         USBC_Host_Rx_ConfigEp_Default)
USBC_Host_ConfigEp(ep_type, ep_index, ts_mode, ts_type, is_double_fifo, ep_MaxPkt, interval) ==
  Switch(ep_type, USBC_Host_ep0_ConfigEp(ts_mode, interval),
         USBC_Host_Tx_ConfigEp(ep_index, ts_mode, ts_type, is_double_fifo, ep_MaxPkt, interval),
         USBC_Host_Rx_ConfigEp(ep_index, ts_mode, ts_type, is_double_fifo, ep_MaxPkt, interval))
USBC_Host_ConfigEpDma(ep_type) ==
  Switch(ep_type, <<>>, USBC_Host_Tx_ConfigEpDma, USBC_Host_Rx_ConfigEpDma)
USBC_Host_ClearEpDma(ep_type) ==
  Switch(ep_type, <<>>, USBC_Host_Tx_ClearEpDma, USBC_Host_Rx_ClearEpDma)

(* A query of the register of its type.                                    *)
Query(ep_type, ep0, tx, rx) ==
  CASE ep_type = "EP0" -> ep0 [] ep_type = "TX" -> tx [] ep_type = "RX" -> rx [] OTHER -> FALSE

USBC_Host_IsEpNakTimeOut(t, tx, rx) ==
  Query(t, USBC_Host_ep0_IsNakTimeOut(tx), USBC_Host_Tx_IsNakTimeOut(tx), USBC_Host_Rx_IsNakTimeOut(rx))
USBC_Host_ClearEpNakTimeOut(ep_type) ==
  Switch(ep_type, USBC_Host_ep0_ClearNakTimeOut, USBC_Host_Tx_ClearNakTimeOut, USBC_Host_Rx_ClearNakTimeOut)
USBC_Host_IsEpError(t, tx, rx) ==
  Query(t, USBC_Host_ep0_IsError(tx), USBC_Host_Tx_IsError(tx), USBC_Host_Rx_IsError(rx))
USBC_Host_ClearEpError(ep_type) ==
  Switch(ep_type, USBC_Host_ep0_ClearError, USBC_Host_Tx_ClearError, USBC_Host_Rx_ClearError)
USBC_Host_IsEpStall(t, tx, rx) ==
  Query(t, USBC_Host_ep0_IsStall(tx), USBC_Host_Tx_IsStall(tx), USBC_Host_Rx_IsStall(rx))
USBC_Host_ClearEpStall(ep_type) ==
  Switch(ep_type, USBC_Host_ep0_ClearStall, USBC_Host_Tx_ClearStall, USBC_Host_Rx_ClearStall)
USBC_Host_ClearEpCSR(ep_type) ==
  Switch(ep_type, USBC_Host_ep0_ClearCSR, USBC_Host_Tx_ClearCSR, USBC_Host_Rx_ClearCSR)
USBC_Host_ReadDataHalf(ep_type) ==
  Switch(ep_type, USBC_Host_ep0_ReadDataHalf, <<>>, USBC_Host_Rx_ReadDataHalf)
USBC_Host_ReadDataComplete(ep_type) ==
  Switch(ep_type, USBC_Host_ep0_ReadDataComplete, <<>>, USBC_Host_Rx_ReadDataComplete)
USBC_Host_WriteDataHalf(ep_type) ==
  Switch(ep_type, USBC_Host_ep0_WriteDataHalf, USBC_Host_Tx_WriteDataHalf, <<>>)
USBC_Host_WriteDataComplete(ep_type) ==
  Switch(ep_type, USBC_Host_ep0_WriteDataComplete, USBC_Host_Tx_WriteDataComplete, <<>>)
USBC_Host_IsReadDataReady(t, tx, rx) ==
  Query(t, USBC_Host_ep0_IsReadDataReady(tx), FALSE, USBC_Host_Rx_IsReadDataReady(rx))
USBC_Host_IsWriteDataReady(t, tx, rx) ==
  Query(t, USBC_Host_ep0_IsWriteDataReady(tx), USBC_Host_Tx_IsWriteDataReady(tx), FALSE)
USBC_Host_ReadDataStatus(ep_type, complete) ==
  IF complete THEN USBC_Host_ReadDataComplete(ep_type) ELSE USBC_Host_ReadDataHalf(ep_type)
USBC_Host_WriteDataStatus(ep_type, complete) ==
  IF complete THEN USBC_Host_WriteDataComplete(ep_type) ELSE USBC_Host_WriteDataHalf(ep_type)
USBC_Host_IsReqPktSet(t, tx, rx) ==
  Query(t, USBC_Host_ep0_IsReqPktSet(tx), FALSE, USBC_Host_Rx_IsReqPktSet(rx))
USBC_Host_StartInToken(ep_type) ==
  Switch(ep_type, USBC_Host_ep0_StartInToken, <<>>, USBC_Host_Rx_StartInToken)
USBC_Host_StopInToken(ep_type) ==
  Switch(ep_type, USBC_Host_ep0_StopInToken, <<>>, USBC_Host_Rx_StopInToken)
USBC_Host_ConfigRqPktCount(ep_index, RqPktCount) == <<WriteAt("RPCOUNT", ep_index, Bits(RqPktCount))>>
USBC_Host_ClearRqPktCount(ep_index) == <<WriteAt("RPCOUNT", ep_index, {})>>
USBC_Host_EnablePing == USBC_Host_ep0_EnablePing
USBC_Host_DisablePing == USBC_Host_ep0_DisablePing
USBC_Host_SendCtrlStatus(is_after_in) ==
  IF is_after_in THEN USBC_Host_ep0_StatusAfterIn ELSE USBC_Host_ep0_StatusAfterOut
USBC_Host_SendSetupPkt == USBC_Host_ep0_SendSetupPkt

-----------------------------------------------------------------------------
(* usbc.c.                                                                 *)
USBC_GetVbusStatus(r) == Value({b - 3 : b \in r \cap {3, 4}})
USBC_ReadLenFromFifo(ep_type, count) == IF ep_type \in {"EP0", "RX"} THEN count ELSE 0

(* The size code for a FIFO: a multiple of 512 bytes is shifted right by   *)
(* four and its bits are counted.                                          *)
BitLength(n) == Cardinality({i \in 0..30 : n \div 2^i > 0})
SizeCode(fifo_size) == BitLength((((fifo_size + 511) \div 512) * 512) \div 16) % 16

USBC_ConfigFifo_TxEp_Default == <<Write("TXFIFOAD", {}), Write("TXFIFOSZ", {})>>
USBC_ConfigFifo_TxEp(is_double_fifo, fifo_size, fifo_addr) ==
  <<Write("TXFIFOAD", Bits(fifo_addr \div 8)), Write("TXFIFOSZ", Bits(SizeCode(fifo_size)))>>
    \o (IF is_double_fifo THEN <<set_bit("TXFIFOSZ", 4)>> ELSE <<>>)
USBC_ConfigFifo_RxEp_Default == <<Write("RXFIFOAD", {}), Write("RXFIFOSZ", {})>>
USBC_ConfigFifo_RxEp(is_double_fifo, fifo_size, fifo_addr) ==
  <<Write("RXFIFOAD", Bits(fifo_addr \div 8)), Write("RXFIFOSZ", Bits(SizeCode(fifo_size)))>>
    \o (IF is_double_fifo THEN <<set_bit("RXFIFOSZ", 4)>> ELSE <<>>)
USBC_ConfigFifo_Default(ep_type) ==
  Switch(ep_type, <<>>, USBC_ConfigFifo_TxEp_Default, USBC_ConfigFifo_RxEp_Default)
USBC_ConfigFifo(ep_type, is_double_fifo, fifo_size, fifo_addr) ==
  Switch(ep_type, <<>>, USBC_ConfigFifo_TxEp(is_double_fifo, fifo_size, fifo_addr),
         USBC_ConfigFifo_RxEp(is_double_fifo, fifo_size, fifo_addr))

USBC_GetStatus_Dp(r) == IF ISCR.EXT_DP_STATUS \in r THEN 1 ELSE 0
USBC_GetStatus_Dm(r) == IF ISCR.EXT_DM_STATUS \in r THEN 1 ELSE 0
USBC_GetStatus_DpDm(r) == 2 * USBC_GetStatus_Dp(r) + USBC_GetStatus_Dm(r)
USBC_GetOtgMode_Form_ID(r) == IF ISCR.MERGED_ID_STATUS \in r THEN "DEVICE" ELSE "HOST"
USBC_GetOtgMode_Form_BDevice(r) == IF DEVCTL.B_DEVICE \in r THEN "DEVICE" ELSE "HOST"

(* The selection of a DMA request is ORed into the register: only a switch *)
(* to programmed I/O clears it.                                            *)
USBC_SelectBus(io_type, ep_type, ep_index) ==
  IF io_type = "DMA"
    THEN <<Update("VEND0", {},
             {0} \cup {b + 1 : b \in Bits(IF ep_type = "TX" THEN (ep_index - 1) * 2
                                          ELSE ep_index * 2 - 1)})>>
    ELSE <<Write("VEND0", {})>>

USBC_INT_TxPending(r) == r
USBC_INT_RxPending(r) == r
USBC_INT_ClearTxPending(ep_index) == <<Write("INTTx", {ep_index})>>
USBC_INT_ClearTxPendingAll == <<Write("INTTx", 0..15)>>
USBC_INT_ClearRxPending(ep_index) == <<Write("INTRx", {ep_index})>>
USBC_INT_ClearRxPendingAll == <<Write("INTRx", 0..15)>>
USBC_INT_EnableTxEp(ep_index) == <<set_bit("INTTxE", ep_index)>>
USBC_INT_EnableRxEp(ep_index) == <<set_bit("INTRxE", ep_index)>>
USBC_INT_DisableTxEp(ep_index) == <<clear_bit("INTTxE", ep_index)>>
USBC_INT_DisableRxEp(ep_index) == <<clear_bit("INTRxE", ep_index)>>
USBC_INT_DisableTxAll == <<Write("INTTxE", {})>>
USBC_INT_DisableRxAll == <<Write("INTRxE", {})>>
USBC_INT_EpPending(ep_type, tx, rx) ==
  CASE ep_type \in {"EP0", "TX"} -> USBC_INT_TxPending(tx)
    [] ep_type = "RX" -> USBC_INT_RxPending(rx)
    [] OTHER -> {}
USBC_INT_ClearEpPending(ep_type, ep_index) ==
  Switch(ep_type, USBC_INT_ClearTxPending(ep_index), USBC_INT_ClearTxPending(ep_index),
         USBC_INT_ClearRxPending(ep_index))
USBC_INT_ClearEpPendingAll(ep_type) ==
  Switch(ep_type, USBC_INT_ClearTxPendingAll, USBC_INT_ClearTxPendingAll,
         USBC_INT_ClearRxPendingAll)
USBC_INT_ClearMiscPending(mask) == <<Write("INTUSB", mask)>>
USBC_INT_ClearMiscPendingAll == <<Write("INTUSB", 0..7)>>
USBC_INT_EnableEp(ep_type, ep_index) ==
  Switch(ep_type, <<>>, USBC_INT_EnableTxEp(ep_index), USBC_INT_EnableRxEp(ep_index))
USBC_INT_EnableUsbMiscUint(mask) == <<Update("INTUSBE", {}, mask)>>
USBC_INT_DisableEp(ep_type, ep_index) ==
  Switch(ep_type, <<>>, USBC_INT_DisableTxEp(ep_index), USBC_INT_DisableRxEp(ep_index))
USBC_INT_DisableUsbMiscUint(mask) == <<Update("INTUSBE", mask, {})>>
USBC_INT_DisableEpAll(ep_type) == Switch(ep_type, <<>>, USBC_INT_DisableTxAll, USBC_INT_DisableRxAll)
USBC_INT_DisableUsbMiscAll == <<Write("INTUSBE", {})>>

USBC_GetActiveEp(r) == Value(r)
USBC_SelectActiveEp(ep_index) == <<Write("EPIND", Bits(ep_index))>>

USBC_EnterMode_TestPacket == <<set_bit("TMCTL", TMCTL.TEST_PACKET)>>
USBC_EnterMode_Test_K == <<set_bit("TMCTL", TMCTL.TEST_K)>>
USBC_EnterMode_Test_J == <<set_bit("TMCTL", TMCTL.TEST_J)>>
USBC_EnterMode_Test_SE0_NAK == <<set_bit("TMCTL", TMCTL.TEST_SE0_NAK)>>
USBC_EnterMode_Idle ==
  <<clear_bit("TMCTL", TMCTL.TEST_PACKET), clear_bit("TMCTL", TMCTL.TEST_K),
    clear_bit("TMCTL", TMCTL.TEST_J), clear_bit("TMCTL", TMCTL.TEST_SE0_NAK)>>

-----------------------------------------------------------------------------
(* The interface status: writing 1 to a change bit clears it, so that the  *)
(* functions write 0 there, but for the one that a query is about.         *)
ChangeBits == {ISCR.VBUS_CHANGE_DETECT, ISCR.ID_CHANGE_DETECT, ISCR.DPDM_CHANGE_DETECT}

(* Mutant: one of the bits is written as it was read.                      *)
MutClearChangeDetect(clr, set) == Update("ISCR", clr \cup (ChangeBits \ {ISCR.ID_CHANGE_DETECT}), set)
USBC_WakeUp_ClearChangeDetect(clr, set) == Update("ISCR", clr \cup ChangeBits, set)

USBC_EnableIdPullUp == <<USBC_WakeUp_ClearChangeDetect({}, {ISCR.ID_PULLUP_EN})>>
USBC_DisableIdPullUp == <<USBC_WakeUp_ClearChangeDetect({ISCR.ID_PULLUP_EN}, {})>>
USBC_EnableDpDmPullUp == <<USBC_WakeUp_ClearChangeDetect({}, {ISCR.DPDM_PULLUP_EN})>>
USBC_DisableDpDmPullUp == <<USBC_WakeUp_ClearChangeDetect({ISCR.DPDM_PULLUP_EN}, {})>>
USBC_ForceIdDisable == <<USBC_WakeUp_ClearChangeDetect({14, 15}, {})>>
USBC_ForceIdToLow == <<USBC_WakeUp_ClearChangeDetect({14, 15}, {15})>>
USBC_ForceIdToHigh == <<USBC_WakeUp_ClearChangeDetect({}, {14, 15})>>
USBC_ForceId(id_type) ==
  CASE id_type = "HOST" -> USBC_ForceIdToLow [] id_type = "DEVICE" -> USBC_ForceIdToHigh
    [] OTHER -> USBC_ForceIdDisable
USBC_ForceVbusValidDisable == <<USBC_WakeUp_ClearChangeDetect({12, 13}, {})>>
USBC_ForceVbusValidToLow == <<USBC_WakeUp_ClearChangeDetect({12, 13}, {13})>>
USBC_ForceVbusValidToHigh == <<USBC_WakeUp_ClearChangeDetect({}, {12, 13})>>
USBC_ForceVbusValid(vbus_type) ==
  CASE vbus_type = "LOW" -> USBC_ForceVbusValidToLow
    [] vbus_type = "HIGH" -> USBC_ForceVbusValidToHigh
    [] OTHER -> USBC_ForceVbusValidDisable
USBC_EnableHosc == <<USBC_WakeUp_ClearChangeDetect({}, {ISCR.HOSC_EN})>>
USBC_DisableHosc == <<USBC_WakeUp_ClearChangeDetect({ISCR.HOSC_EN}, {})>>
USBC_IsVbusChange == <<USBC_WakeUp_ClearChangeDetect({}, {ISCR.VBUS_CHANGE_DETECT})>>
USBC_IsIdChange == <<USBC_WakeUp_ClearChangeDetect({}, {ISCR.ID_CHANGE_DETECT})>>
USBC_IsDpDmChange == <<USBC_WakeUp_ClearChangeDetect({}, {ISCR.DPDM_CHANGE_DETECT})>>
USBC_DisableWakeIrq == <<USBC_WakeUp_ClearChangeDetect({ISCR.IRQ_ENABLE}, {})>>
USBC_DisableVbusChange == <<USBC_WakeUp_ClearChangeDetect({ISCR.VBUS_CHANGE_DETECT_EN}, {})>>
USBC_DisableIdChange == <<USBC_WakeUp_ClearChangeDetect({ISCR.ID_CHANGE_DETECT_EN}, {})>>
USBC_DisableDpDmChange == <<USBC_WakeUp_ClearChangeDetect({ISCR.DPDM_CHANGE_DETECT_EN}, {})>>
USBC_EnableWakeIrq == <<USBC_WakeUp_ClearChangeDetect({}, {ISCR.IRQ_ENABLE})>>
USBC_EnableVbusChange == <<USBC_WakeUp_ClearChangeDetect({}, {ISCR.VBUS_CHANGE_DETECT_EN})>>
USBC_EnableIdChange == <<USBC_WakeUp_ClearChangeDetect({}, {ISCR.ID_CHANGE_DETECT_EN})>>
USBC_EnableDpDmChange == <<USBC_WakeUp_ClearChangeDetect({}, {ISCR.DPDM_CHANGE_DETECT_EN})>>
=============================================================================
