--------------------------- MODULE FchResetDefaults ---------------------------
(***************************************************************************)
(* The default FCH settings of the AGESA Yangtze (family 16h, Kabini)      *)
(* InitReset phase, src/src/vendorcode/amd/agesa/f16kb/Proc/Fch/Interface/ *)
(* Family/Yangtze/ResetDefYangtze.c.                                       *)
(*                                                                         *)
(* The file holds two constant tables and no code: FchResetInterfaceDefault*)
(* (the six controller switches a platform passes in) and                  *)
(* InitResetCfgDefault, the "failsafe" data block, whose FchReset member   *)
(* holds the same six switches.  Both are C positional initialisers: a     *)
(* value means the member its position names, here the name of the comment *)
(* beside it; FCH_RESET_INTERFACE and FCH_RESET_DATA_BLOCK are declared in *)
(* FchPlatform.h, which is not in this repository.                         *)
(***************************************************************************)
EXTENDS Integers, TLAPS

(* FCH_RESET_INTERFACE: the six switches, in the order of lines 65-70,    *)
(* which is the order the values of FchReset (lines 80-85) take.           *)
ResetSwitches(umi, sata, ide, gpp, xhci0, xhci1) ==
    [UmiGen2 |-> umi, SataEnable |-> sata, IdeEnable |-> ide,
     GppEnable |-> gpp, Xhci0Enable |-> xhci0, Xhci1Enable |-> xhci1]

FchResetInterfaceDefault == ResetSwitches(TRUE, TRUE, TRUE, TRUE, TRUE, TRUE)

(* FCH_GPP_PORT_CONFIG: every port of the failsafe block is absent.        *)
GppPortOff ==
    [PortPresent |-> FALSE, PortDetected |-> FALSE, PortIsGen2 |-> FALSE,
     PortHotPlug |-> FALSE, PortMisc |-> 0]

InitResetCfgDefault ==
    [StdHeader |-> "NULL",
     FchReset |-> ResetSwitches(TRUE, TRUE, FALSE, FALSE, TRUE, TRUE),
     FastSpeed |-> 1, WriteSpeed |-> 3, Mode |-> 5, AutoMode |-> 0,
     BurstWrite |-> 0, SataIdeCombMdPriSecOpt |-> FALSE, Cg2Pll |-> 0,
     EcKbd |-> FALSE, LegacyFree |-> FALSE, SataSetMaxGen2 |-> FALSE,
     SataClkMode |-> 1, SataModeReg |-> 0, SataInternal100Spread |-> FALSE,
     SpiSpeed |-> 2, Reg20_0 |-> 1, EcChannel0 |-> FALSE,
     Gpp |->
       [PortCfg |-> [p \in 1..4 |-> GppPortOff],
        GppLinkConfig |-> "PortA1B1C1D1", GppFunctionEnable |-> FALSE,
        GppToggleReset |-> FALSE, GppHotPlugGeventNum |-> 0,
        GppFoundGfxDev |-> 0, GppGen2 |-> FALSE, GppGen2Strap |-> 0,
        GppMemWrImprove |-> FALSE, GppUnhidePorts |-> FALSE,
        GppPortAspm |-> 0, GppLaneReversal |-> FALSE,
        GppPhyPllPowerDown |-> FALSE, GppDynamicPowerSaving |-> FALSE,
        PcieAer |-> FALSE, PcieRas |-> FALSE, PcieCompliance |-> FALSE,
        PcieSoftwareDownGrade |-> FALSE, UmiPhyPllPowerDown |-> FALSE,
        SerialDebugBusEnable |-> FALSE, GppHardwareDownGrade |-> 0,
        GppL1ImmediateAck |-> 0, NewGppAlgorithm |-> FALSE,
        HotPlugPortsStatus |-> 0, FailPortsStatus |-> 0,
        GppPortMinPollingTime |-> 40, IsCapsuleMode |-> FALSE],
     Spi |->
       [LpcMsiEnable |-> FALSE, LpcSsid |-> 0, RomBaseAddress |-> 0,
        Speed |-> 0, FastSpeed |-> 0, WriteSpeed |-> 0, Mode |-> 0,
        AutoMode |-> 0, BurstWrite |-> 0, LpcClk0 |-> TRUE, LpcClk1 |-> TRUE,
        SPI100_Enable |-> 0,
        SpiDeviceProfile |-> 0],   \* {0}: the whole member zero-filled
     QeEnabled |-> FALSE,
     OemResetProgrammingTablePtr |-> "NULL"]
-----------------------------------------------------------------------------
Switches ==
    {"UmiGen2", "SataEnable", "IdeEnable", "GppEnable", "Xhci0Enable",
     "Xhci1Enable"}

(* The failsafe data block turns on no controller that the default         *)
(* interface leaves off: every switch of InitResetCfgDefault.FchReset that *)
(* is TRUE is TRUE in FchResetInterfaceDefault.  The two disagree on IDE   *)
(* and GPP, which the failsafe block leaves off; which one takes effect    *)
(* depends on the code that copies the interface into the block.          *)
THEOREM FailsafeWithinInterface ==
    /\ \A f \in Switches :
         InitResetCfgDefault.FchReset[f] => FchResetInterfaceDefault[f]
    /\ {f \in Switches : InitResetCfgDefault.FchReset[f]
                           # FchResetInterfaceDefault[f]}
         = {"IdeEnable", "GppEnable"}
<1>1. \A f \in Switches : FchResetInterfaceDefault[f] = TRUE
  BY DEF FchResetInterfaceDefault, ResetSwitches, Switches
<1>2. InitResetCfgDefault.FchReset
        = ResetSwitches(TRUE, TRUE, FALSE, FALSE, TRUE, TRUE)
  BY DEF InitResetCfgDefault
<1>3. /\ InitResetCfgDefault.FchReset["UmiGen2"] = TRUE
      /\ InitResetCfgDefault.FchReset["SataEnable"] = TRUE
      /\ InitResetCfgDefault.FchReset["IdeEnable"] = FALSE
      /\ InitResetCfgDefault.FchReset["GppEnable"] = FALSE
      /\ InitResetCfgDefault.FchReset["Xhci0Enable"] = TRUE
      /\ InitResetCfgDefault.FchReset["Xhci1Enable"] = TRUE
  BY <1>2 DEF ResetSwitches
<1> QED
  BY <1>1, <1>3, Zenon DEF Switches

(* The failsafe block keeps the general-purpose PCIe ports (GPP) off       *)
(* throughout: with GppEnable off, the GPP function is disabled, no port   *)
(* is present or hot-pluggable, no hot-plug GEVENT is assigned and no port *)
(* is reported hot-plugged or failed, so nothing later in InitReset trains *)
(* a link behind a disabled controller.                                    *)
THEOREM FailsafeGppOff ==
    LET g == InitResetCfgDefault.Gpp IN
    /\ InitResetCfgDefault.FchReset["GppEnable"] = FALSE
    /\ g.GppFunctionEnable = FALSE
    /\ \A p \in 1..4 : ~g.PortCfg[p].PortPresent /\ ~g.PortCfg[p].PortHotPlug
    /\ g.GppHotPlugGeventNum = 0
    /\ g.HotPlugPortsStatus = 0 /\ g.FailPortsStatus = 0
<1>1. InitResetCfgDefault.FchReset["GppEnable"] = FALSE
  BY DEF InitResetCfgDefault, ResetSwitches
<1> QED
  BY <1>1 DEF InitResetCfgDefault, GppPortOff
=============================================================================
