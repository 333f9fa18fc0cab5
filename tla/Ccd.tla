-------------------------------- MODULE Ccd --------------------------------
(***************************************************************************)
(* Case-closed debug on cr50, board/cr50/rdd.c: the CCD mode, the AP and  *)
(* EC UART TX pins, the USB-I2C bridge, the CCD_MODE_L pin and the USB     *)
(* controller flags.                                                       *)
(*                                                                         *)
(* Two tasks run this code.  The hooks task runs ccd_mode_pin_changed()    *)
(* (and configure_ccd()) when CCD_MODE_L changes, the debug-accessory      *)
(* detection (rdd_attached / rdd_detached), the chipset hooks and          *)
(* ccd_phy_init().  The console task runs the "ccd" command.  On cr50 the  *)
(* console task has the higher priority, so a console command can run      *)
(* between two statements of configure_ccd(); ConsolePreempts says whether *)
(* the model lets it.  configure_ccd() is split at each statement that     *)
(* touches state the console command also touches; a console command and  *)
(* every other hooks-task call are one step each.                          *)
(***************************************************************************)
EXTENDS Naturals

CONSTANTS
    HasApUsb,         \* board_has_ap_usb()
    ConsolePreempts   \* the console task may run inside configure_ccd()

ASSUME ConstantsAssumption == {HasApUsb, ConsolePreempts} \subseteq BOOLEAN

Uarts == {"AP", "EC"}                 \* UART_AP, UART_EC
Devices == {"AP", "EC", "SERVO"}      \* DEVICE_AP, DEVICE_EC, DEVICE_SERVO

VARIABLES
    ccd_mode,            \* ccd_get_mode() == CCD_MODE_ENABLED
    keep_ccd_enabled,
    ec_uart_enabled,
    enable_usb_wakeup,
    usb_is_initialized,
    tx,                  \* uartn_enabled(u): the TX pinmux select is non-zero
    i2c_on,              \* usb_i2c_board_enable() / _disable()
    pin_driven,          \* CCD_MODE_L is an output driven low by cr50
    ext_low,             \* something outside cr50 pulls CCD_MODE_L low
    seen_low,            \* the pin level ccd_mode_pin_changed() last handled
    dev,                 \* device_get_state(d) == DEVICE_STATE_ON
    usb_running,         \* usb_init() ran and usb_release() has not since
    hk                   \* the hooks task inside configure_ccd()

vars == <<ccd_mode, keep_ccd_enabled, ec_uart_enabled, enable_usb_wakeup,
          usb_is_initialized, tx, i2c_on, pin_driven, ext_low, seen_low, dev,
          usb_running, hk>>

HookPcs == {"idle", "en_mode", "en_uart", "en_i2c",
            "dis_ec", "dis_ap", "dis_flags", "dis_mode"}

TypeOK ==
    /\ {ccd_mode, keep_ccd_enabled, ec_uart_enabled, enable_usb_wakeup,
        usb_is_initialized, i2c_on, pin_driven, ext_low, seen_low,
        usb_running} \subseteq BOOLEAN
    /\ tx \in [Uarts -> BOOLEAN]
    /\ dev \in [Devices -> BOOLEAN]
    /\ hk \in HookPcs

\* The level of CCD_MODE_L (active low).
PinLow == pin_driven \/ ext_low

-----------------------------------------------------------------------------
(***************************************************************************)
(* uartn_tx_connect / uartn_tx_disconnect.                                 *)
(***************************************************************************)

\* Variant: CCD not checked before the pin is connected.
TxConnectedNoCcdCheck(u, ecEnabled) ==
    IF (u = "EC" /\ ~ecEnabled) \/ dev["SERVO"] \/ ~dev[u]
    THEN tx ELSE [tx EXCEPT ![u] = TRUE]

\* The TX pins after uartn_tx_connect(u): nothing for the EC UART unless it
\* is enabled, nothing unless CCD is enabled, nothing while servo is
\* attached, and the pin is connected only if the device is powered.
TxConnected(u, ecEnabled) ==
    IF (u = "EC" /\ ~ecEnabled) \/ ~ccd_mode \/ dev["SERVO"] \/ ~dev[u]
    THEN tx ELSE [tx EXCEPT ![u] = TRUE]

\* uartn_tx_disconnect(u): servo attached clears ec_uart_enabled; the pin
\* is disconnected.
TxDisconnect(u, ecEnabled) ==
    /\ tx' = [tx EXCEPT ![u] = FALSE]
    /\ ec_uart_enabled' = (ecEnabled /\ ~dev["SERVO"])

-----------------------------------------------------------------------------
(***************************************************************************)
(* The hooks task: ccd_mode_pin_changed() and configure_ccd().             *)
(***************************************************************************)

\* Variant: the keepalive test without "!enable".
KeepsCcdAnyEdge(enable) == keep_ccd_enabled

\* ccd_mode_pin_changed() returns early: CCD is forced on and the pin asks
\* for it to be disabled.
KeepsCcd(enable) == ~enable /\ keep_ccd_enabled

\* The pin has changed since it was last handled: ccd_mode_pin_changed()
\* with enable = the pin is low, then the first test of configure_ccd().
CcdModePinChanged ==
    /\ hk = "idle"
    /\ PinLow # seen_low
    /\ seen_low' = PinLow
    /\ hk' = CASE KeepsCcd(PinLow) -> "idle"
               [] PinLow /\ ccd_mode -> "idle"
               [] PinLow -> "en_mode"
               [] OTHER -> "dis_ec"
    /\ UNCHANGED <<ccd_mode, keep_ccd_enabled, ec_uart_enabled,
                   enable_usb_wakeup, usb_is_initialized, tx, i2c_on,
                   pin_driven, ext_low, dev, usb_running>>

\* configure_ccd(1): ccd_set_mode(CCD_MODE_ENABLED); enable_usb_wakeup = 1.
ConfigureEnableMode ==
    /\ hk = "en_mode"
    /\ ccd_mode' = TRUE
    /\ enable_usb_wakeup' = TRUE
    /\ hk' = "en_uart"
    /\ UNCHANGED <<keep_ccd_enabled, ec_uart_enabled, usb_is_initialized, tx,
                   i2c_on, pin_driven, ext_low, seen_low, dev, usb_running>>

\* configure_ccd(1): uartn_tx_connect(UART_AP).
ConfigureEnableUart ==
    /\ hk = "en_uart"
    /\ tx' = TxConnected("AP", ec_uart_enabled)
    /\ hk' = "en_i2c"
    /\ UNCHANGED <<ccd_mode, keep_ccd_enabled, ec_uart_enabled,
                   enable_usb_wakeup, usb_is_initialized, i2c_on, pin_driven,
                   ext_low, seen_low, dev, usb_running>>

\* configure_ccd(1): usb_i2c_board_enable().
ConfigureEnableI2c ==
    /\ hk = "en_i2c"
    /\ i2c_on' = TRUE
    /\ hk' = "idle"
    /\ UNCHANGED <<ccd_mode, keep_ccd_enabled, ec_uart_enabled,
                   enable_usb_wakeup, usb_is_initialized, tx, pin_driven,
                   ext_low, seen_low, dev, usb_running>>

\* configure_ccd(0): uartn_tx_disconnect(UART_EC), then (UART_AP).
ConfigureDisableEc ==
    /\ hk = "dis_ec"
    /\ TxDisconnect("EC", ec_uart_enabled)
    /\ hk' = "dis_ap"
    /\ UNCHANGED <<ccd_mode, keep_ccd_enabled, enable_usb_wakeup,
                   usb_is_initialized, i2c_on, pin_driven, ext_low, seen_low,
                   dev, usb_running>>

ConfigureDisableAp ==
    /\ hk = "dis_ap"
    /\ TxDisconnect("AP", ec_uart_enabled)
    /\ hk' = "dis_flags"
    /\ UNCHANGED <<ccd_mode, keep_ccd_enabled, enable_usb_wakeup,
                   usb_is_initialized, i2c_on, pin_driven, ext_low, seen_low,
                   dev, usb_running>>

\* configure_ccd(0): enable_usb_wakeup = board_has_ap_usb();
\* ec_uart_enabled = 0.
ConfigureDisableFlags ==
    /\ hk = "dis_flags"
    /\ enable_usb_wakeup' = HasApUsb
    /\ ec_uart_enabled' = FALSE
    /\ hk' = "dis_mode"
    /\ UNCHANGED <<ccd_mode, keep_ccd_enabled, usb_is_initialized, tx, i2c_on,
                   pin_driven, ext_low, seen_low, dev, usb_running>>

\* configure_ccd(0): ccd_set_mode(CCD_MODE_DISABLED); usb_i2c_board_disable().
ConfigureDisableMode ==
    /\ hk = "dis_mode"
    /\ ccd_mode' = FALSE
    /\ i2c_on' = FALSE
    /\ hk' = "idle"
    /\ UNCHANGED <<keep_ccd_enabled, ec_uart_enabled, enable_usb_wakeup,
                   usb_is_initialized, tx, pin_driven, ext_low, seen_low, dev,
                   usb_running>>

(***************************************************************************)
(* The other calls the hooks task makes into this file.                    *)
(***************************************************************************)

\* The debug accessory is attached or detached: rdd_attached() drives
\* CCD_MODE_L low, rdd_detached() releases it unless CCD is forced on.
RddChange ==
    /\ hk = "idle"
    /\ \E attached \in BOOLEAN :
         pin_driven' = (attached \/ (pin_driven /\ keep_ccd_enabled))
    /\ UNCHANGED <<ccd_mode, keep_ccd_enabled, ec_uart_enabled,
                   enable_usb_wakeup, usb_is_initialized, tx, i2c_on, ext_low,
                   seen_low, dev, usb_running, hk>>

\* The AP powers down (HOOK_CHIPSET_SHUTDOWN: disable_ap_usb releases USB
\* if it is initialized) or up (HOOK_CHIPSET_RESUME: enable_ap_usb
\* initializes it if it is not); either only without CCD, on a board with
\* AP USB.
ChipsetChange ==
    /\ hk = "idle"
    /\ dev' = [dev EXCEPT !["AP"] = ~@]
    /\ IF HasApUsb /\ ~ccd_mode /\ dev["AP"] = usb_is_initialized
       THEN /\ usb_is_initialized' = ~dev["AP"]
            /\ usb_running' = ~dev["AP"]
       ELSE UNCHANGED <<usb_is_initialized, usb_running>>
    /\ UNCHANGED <<ccd_mode, keep_ccd_enabled, ec_uart_enabled,
                   enable_usb_wakeup, tx, i2c_on, pin_driven, ext_low,
                   seen_low, hk>>

\* The device-state module records the EC or servo turning on or off.
DeviceChange ==
    /\ hk = "idle"
    /\ \E d \in Devices \ {"AP"} : dev' = [dev EXCEPT ![d] = ~@]
    /\ UNCHANGED <<ccd_mode, keep_ccd_enabled, ec_uart_enabled,
                   enable_usb_wakeup, usb_is_initialized, tx, i2c_on,
                   pin_driven, ext_low, seen_low, usb_running, hk>>

\* ccd_phy_init(enable_ccd): with the AP PHY selected and the AP off, USB
\* is left for HOOK_CHIPSET_RESUME; otherwise usb_init() runs if the PHY is
\* used.
CcdPhyInit ==
    /\ hk = "idle"
    /\ \E enable_ccd \in BOOLEAN :
         IF ~enable_ccd /\ ~dev["AP"]
         THEN /\ usb_is_initialized' = FALSE
              /\ UNCHANGED usb_running
         ELSE IF HasApUsb \/ enable_ccd
         THEN /\ usb_is_initialized' = TRUE
              /\ usb_running' = TRUE
         ELSE UNCHANGED <<usb_is_initialized, usb_running>>
    /\ UNCHANGED <<ccd_mode, keep_ccd_enabled, ec_uart_enabled,
                   enable_usb_wakeup, tx, i2c_on, pin_driven, ext_low,
                   seen_low, dev, hk>>

\* Something outside cr50 (the debug accessory's own driver) pulls
\* CCD_MODE_L low or lets it go.
ExtDrive ==
    /\ ext_low' = ~ext_low
    /\ UNCHANGED <<ccd_mode, keep_ccd_enabled, ec_uart_enabled,
                   enable_usb_wakeup, usb_is_initialized, tx, i2c_on,
                   pin_driven, seen_low, dev, usb_running, hk>>

-----------------------------------------------------------------------------
(***************************************************************************)
(* The console task: command_ccd(), one step per command.                  *)
(***************************************************************************)

ConsoleMayRun == hk = "idle" \/ ConsolePreempts

\* "ccd uart <bool>".
CmdUart ==
    /\ ConsoleMayRun
    /\ \E val \in BOOLEAN :
         IF val THEN /\ ec_uart_enabled' = TRUE
                     /\ tx' = TxConnected("EC", TRUE)
                ELSE TxDisconnect("EC", FALSE)
    /\ UNCHANGED <<ccd_mode, keep_ccd_enabled, enable_usb_wakeup,
                   usb_is_initialized, i2c_on, pin_driven, ext_low, seen_low,
                   dev, usb_running, hk>>

\* "ccd i2c <bool>".
CmdI2c ==
    /\ ConsoleMayRun
    /\ \E val \in BOOLEAN : i2c_on' = val
    /\ UNCHANGED <<ccd_mode, keep_ccd_enabled, ec_uart_enabled,
                   enable_usb_wakeup, usb_is_initialized, tx, pin_driven,
                   ext_low, seen_low, dev, usb_running, hk>>

\* Variant: "ccd keepalive 1" does not attach.
KeepalivePinNoAttach(val) == pin_driven

\* "ccd keepalive 1" drives CCD_MODE_L (rdd_attached) unless CCD is enabled.
KeepalivePin(val) == pin_driven \/ (val /\ ~ccd_mode)

\* "ccd keepalive <bool>".
CmdKeepalive ==
    /\ ConsoleMayRun
    /\ \E val \in BOOLEAN :
         /\ pin_driven' = KeepalivePin(val)
         /\ keep_ccd_enabled' = val
    /\ UNCHANGED <<ccd_mode, ec_uart_enabled, enable_usb_wakeup,
                   usb_is_initialized, tx, i2c_on, ext_low, seen_low, dev,
                   usb_running, hk>>

\* "ccd <bool>": rdd_attached(), or clear the keepalive and rdd_detached().
CmdCcd ==
    /\ ConsoleMayRun
    /\ \E val \in BOOLEAN :
         /\ pin_driven' = val
         /\ keep_ccd_enabled' = (keep_ccd_enabled /\ val)
    /\ UNCHANGED <<ccd_mode, ec_uart_enabled, enable_usb_wakeup,
                   usb_is_initialized, tx, i2c_on, ext_low, seen_low, dev,
                   usb_running, hk>>

-----------------------------------------------------------------------------
\* Boot: CCD disabled, the statics zero, the pins disconnected, the USB
\* controller not initialized; the devices and the external driver as found.
Init ==
    /\ ccd_mode = FALSE
    /\ keep_ccd_enabled = FALSE
    /\ ec_uart_enabled = FALSE
    /\ enable_usb_wakeup = FALSE
    /\ usb_is_initialized = FALSE
    /\ tx = [u \in Uarts |-> FALSE]
    /\ i2c_on = FALSE
    /\ pin_driven = FALSE
    /\ ext_low \in BOOLEAN
    /\ seen_low = FALSE
    /\ dev \in [Devices -> BOOLEAN]
    /\ usb_running = FALSE
    /\ hk = "idle"

HooksStep ==
    \/ CcdModePinChanged
    \/ ConfigureEnableMode \/ ConfigureEnableUart \/ ConfigureEnableI2c
    \/ ConfigureDisableEc \/ ConfigureDisableAp \/ ConfigureDisableFlags
    \/ ConfigureDisableMode

Next ==
    \/ HooksStep
    \/ RddChange \/ ChipsetChange \/ DeviceChange \/ CcdPhyInit \/ ExtDrive
    \/ CmdUart \/ CmdI2c \/ CmdKeepalive \/ CmdCcd

\* The hooks task handles every pin change and finishes configure_ccd().
Spec == Init /\ [][Next]_vars /\ WF_vars(HooksStep)

-----------------------------------------------------------------------------
\* A UART TX pin is only ever connected while CCD is enabled: configure_ccd(0)
\* disconnects both before it disables CCD, and every uartn_tx_connect()
\* checks ccd_is_enabled().
TxNeedsCcd == \A u \in Uarts : tx[u] => ccd_mode

\* The AP UART TX pin is only ever connected while CCD is enabled, even when
\* console commands preempt configure_ccd(): only configure_ccd(1) connects
\* it, after enabling CCD, and configure_ccd(0) disconnects it before it
\* disables CCD.
ApTxNeedsCcd == tx["AP"] => ccd_mode

\* While CCD_MODE_L stays low, CCD ends up enabled and stays so.
PinLowEnablesCcd == <>[]PinLow => <>[]ccd_mode

\* While "ccd keepalive" is in force, CCD ends up enabled and stays so (the
\* command's "CCD will remain enabled until it is explicitly disabled").
KeepaliveHoldsCcd == <>[]keep_ccd_enabled => <>[]ccd_mode

\* Once nothing drives CCD_MODE_L low and no keepalive is in force, CCD ends
\* up disabled: "ccd 0" and "ccd keepalive 0" release it.
CcdReleased == <>[](~PinLow /\ ~keep_ccd_enabled) => <>[]~ccd_mode

\* usb_is_initialized says whether the USB controller is initialized, as
\* disable_ap_usb() and enable_ap_usb() take it to.
UsbFlagTracksController == usb_is_initialized = usb_running
=============================================================================
