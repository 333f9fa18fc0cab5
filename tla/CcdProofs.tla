------------------------------- MODULE CcdProofs -------------------------------
(***************************************************************************)
(* Proofs about the CCD model, for every board (HasApUsb) and whether or   *)
(* not console commands preempt configure_ccd() (ConsolePreempts): every   *)
(* step keeps the variables in their types, and the AP UART TX pin is only *)
(* connected while CCD is enabled.                                         *)
(***************************************************************************)
EXTENDS Ccd, TLAPS

\* The strengthening of ApTxNeedsCcd: configure_ccd(0) has disconnected the
\* AP pin once past its UART steps (dis_flags, dis_mode), before it
\* disables CCD.
IInv ==
    /\ TypeOK
    /\ ApTxNeedsCcd
    /\ hk \in {"dis_flags", "dis_mode"} => ~tx["AP"]

-----------------------------------------------------------------------------
\* uartn_tx_connect() leaves the pins a function from the UARTs to BOOLEAN.
LEMMA TxConnectedType ==
    ASSUME TypeOK, NEW u \in Uarts, NEW e \in BOOLEAN
    PROVE  TxConnected(u, e) \in [Uarts -> BOOLEAN]
BY DEF TypeOK, TxConnected

\* After uartn_tx_connect(u) a pin is connected only if it already was, or
\* it is u's and CCD is enabled.
LEMMA TxConnectedNeedsCcd ==
    ASSUME TypeOK, NEW u \in Uarts, NEW e \in BOOLEAN, NEW v \in Uarts,
           TxConnected(u, e)[v]
    PROVE  tx[v] \/ (v = u /\ ccd_mode)
BY DEF TypeOK, TxConnected

\* Every step keeps the variables in their types.
LEMMA TypeStep == TypeOK /\ [Next]_vars => TypeOK'
<1> SUFFICES ASSUME TypeOK, [Next]_vars PROVE TypeOK'
  OBVIOUS
<1>1. CASE CcdModePinChanged
  BY <1>1 DEF CcdModePinChanged, TypeOK, HookPcs, PinLow
<1>2. CASE ConfigureEnableMode
  BY <1>2 DEF ConfigureEnableMode, TypeOK, HookPcs
<1>3. CASE ConfigureEnableUart
  BY <1>3, TxConnectedType DEF ConfigureEnableUart, TypeOK, HookPcs, Uarts
<1>4. CASE ConfigureEnableI2c
  BY <1>4 DEF ConfigureEnableI2c, TypeOK, HookPcs
<1>5. CASE ConfigureDisableEc
  BY <1>5 DEF ConfigureDisableEc, TxDisconnect, TypeOK, HookPcs, Uarts
<1>6. CASE ConfigureDisableAp
  BY <1>6 DEF ConfigureDisableAp, TxDisconnect, TypeOK, HookPcs, Uarts
<1>7. CASE ConfigureDisableFlags
  BY <1>7, ConstantsAssumption DEF ConfigureDisableFlags, TypeOK, HookPcs
<1>8. CASE ConfigureDisableMode
  BY <1>8 DEF ConfigureDisableMode, TypeOK, HookPcs
<1>9. CASE RddChange
  BY <1>9 DEF RddChange, TypeOK
<1>10. CASE ChipsetChange
  BY <1>10 DEF ChipsetChange, TypeOK, Devices
<1>11. CASE DeviceChange
  BY <1>11 DEF DeviceChange, TypeOK, Devices
<1>12. CASE CcdPhyInit
  BY <1>12 DEF CcdPhyInit, TypeOK
<1>13. CASE ExtDrive
  BY <1>13 DEF ExtDrive, TypeOK
<1>14. CASE CmdUart
  <2>1. PICK val \in BOOLEAN :
          IF val THEN /\ ec_uart_enabled' = TRUE
                      /\ tx' = TxConnected("EC", TRUE)
                 ELSE TxDisconnect("EC", FALSE)
    BY <1>14 DEF CmdUart
  <2>2. tx' \in [Uarts -> BOOLEAN] /\ ec_uart_enabled' \in BOOLEAN
    BY <2>1, TxConnectedType DEF TxDisconnect, TypeOK, Uarts
  <2>3. UNCHANGED <<ccd_mode, keep_ccd_enabled, enable_usb_wakeup,
                    usb_is_initialized, i2c_on, pin_driven, ext_low,
                    seen_low, dev, usb_running, hk>>
    BY <1>14 DEF CmdUart
  <2> QED
    BY <2>2, <2>3 DEF TypeOK
<1>15. CASE CmdI2c
  BY <1>15 DEF CmdI2c, TypeOK
<1>16. CASE CmdKeepalive
  BY <1>16 DEF CmdKeepalive, KeepalivePin, TypeOK
<1>17. CASE CmdCcd
  BY <1>17 DEF CmdCcd, TypeOK
<1>18. CASE UNCHANGED vars
  BY <1>18 DEF vars, TypeOK
<1> QED
  BY <1>1, <1>2, <1>3, <1>4, <1>5, <1>6, <1>7, <1>8, <1>9, <1>10, <1>11,
     <1>12, <1>13, <1>14, <1>15, <1>16, <1>17, <1>18
  DEF Next, HooksStep

\* Every step of the CCD code keeps the variables in their types, whatever
\* the board and the task priorities.
THEOREM TypeCorrect == Spec => []TypeOK
<1>1. Init => TypeOK
  BY DEF Init, TypeOK, Uarts, Devices, HookPcs
<1>2. TypeOK /\ [Next]_vars => TypeOK'
  BY TypeStep
<1> QED
  BY <1>1, <1>2, PTL DEF Spec

\* IInv holds initially: nothing is connected at boot.
LEMMA IInvInit == Init => IInv
BY DEF Init, IInv, TypeOK, ApTxNeedsCcd, Uarts, Devices, HookPcs

\* Every step keeps IInv, console commands inside configure_ccd() included:
\* "ccd uart" only touches the EC pin, and only configure_ccd() touches the
\* AP pin and the mode, in its own order.
LEMMA IInvStep == IInv /\ [Next]_vars => IInv'
<1> SUFFICES ASSUME IInv, [Next]_vars PROVE IInv'
  OBVIOUS
<1> USE DEF IInv
<1>0. TypeOK'
  BY TypeStep
<1> DEFINE Same == tx' = tx /\ ccd_mode' = ccd_mode /\ hk' = hk
\* A step that leaves the pins, the mode and configure_ccd() alone.
<1>1. Same => IInv'
  BY <1>0 DEF ApTxNeedsCcd
<1>2. CASE CcdModePinChanged
  <2>1. hk' \in {"idle", "en_mode", "dis_ec"} /\ tx' = tx /\ ccd_mode' = ccd_mode
    BY <1>2 DEF CcdModePinChanged
  <2> QED
    BY <2>1, <1>0 DEF ApTxNeedsCcd
<1>3. CASE ConfigureEnableMode
  BY <1>3, <1>0 DEF ConfigureEnableMode, ApTxNeedsCcd
<1>4. CASE ConfigureEnableUart
  <2>1. tx'["AP"] => tx["AP"] \/ ccd_mode
    <3>1. tx' = TxConnected("AP", ec_uart_enabled)
      BY <1>4 DEF ConfigureEnableUart
    <3>2. "AP" \in Uarts /\ ec_uart_enabled \in BOOLEAN
      BY DEF Uarts, TypeOK
    <3> QED
      BY <3>1, <3>2, TxConnectedNeedsCcd
  <2> QED
    BY <2>1, <1>4, <1>0 DEF ConfigureEnableUart, ApTxNeedsCcd
<1>5. CASE ConfigureEnableI2c
  BY <1>5, <1>0 DEF ConfigureEnableI2c, ApTxNeedsCcd
<1>6. CASE ConfigureDisableEc
  BY <1>6, <1>0 DEF ConfigureDisableEc, TxDisconnect, ApTxNeedsCcd, TypeOK, Uarts
<1>7. CASE ConfigureDisableAp
  BY <1>7, <1>0 DEF ConfigureDisableAp, TxDisconnect, ApTxNeedsCcd, TypeOK, Uarts
<1>8. CASE ConfigureDisableFlags
  BY <1>8, <1>0 DEF ConfigureDisableFlags, ApTxNeedsCcd
<1>9. CASE ConfigureDisableMode
  BY <1>9, <1>0 DEF ConfigureDisableMode, ApTxNeedsCcd
<1>10. CASE RddChange \/ ChipsetChange \/ DeviceChange \/ CcdPhyInit \/ ExtDrive
  BY <1>10, <1>1 DEF RddChange, ChipsetChange, DeviceChange, CcdPhyInit, ExtDrive
<1>11. CASE CmdI2c \/ CmdKeepalive \/ CmdCcd \/ UNCHANGED vars
  BY <1>11, <1>1 DEF CmdI2c, CmdKeepalive, CmdCcd, vars
<1>12. CASE CmdUart
  <2>1. hk' = hk /\ ccd_mode' = ccd_mode
    BY <1>12 DEF CmdUart
  <2>2. tx'["AP"] = tx["AP"]
    <3>1. PICK val \in BOOLEAN :
            IF val THEN /\ ec_uart_enabled' = TRUE
                        /\ tx' = TxConnected("EC", TRUE)
                   ELSE TxDisconnect("EC", FALSE)
      BY <1>12 DEF CmdUart
    <3>2. CASE val
      BY <3>1, <3>2 DEF TxConnected, TypeOK, Uarts
    <3>3. CASE ~val
      BY <3>1, <3>3 DEF TxDisconnect, TypeOK, Uarts
    <3> QED
      BY <3>2, <3>3
  <2> QED
    BY <2>1, <2>2, <1>0 DEF ApTxNeedsCcd
<1> QED
  BY <1>2, <1>3, <1>4, <1>5, <1>6, <1>7, <1>8, <1>9, <1>10, <1>11, <1>12
  DEF Next, HooksStep

\* The AP UART TX pin is never connected while CCD is disabled
\* (ApTxNeedsCcd), on every board and even when the console task runs
\* "ccd uart" in the middle of configure_ccd(): configure_ccd(0)
\* disconnects the AP pin before it disables CCD, and uartn_tx_connect()
\* checks ccd_is_enabled().  (For the EC pin the same does not hold: the
\* race of MCCcdRace.cfg.)
THEOREM ApTxNeedsCcdSafe == Spec => []ApTxNeedsCcd
<1>1. Init => IInv
  BY IInvInit
<1>2. IInv /\ [Next]_vars => IInv'
  BY IInvStep
<1>3. IInv => ApTxNeedsCcd
  BY DEF IInv
<1> QED
  BY <1>1, <1>2, <1>3, PTL DEF Spec
================================================================================
