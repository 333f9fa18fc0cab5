------------------------------ MODULE Charger ------------------------------
(***************************************************************************)
(* The ISL-9237/8 charger driver, driver/charger/isl923x.c, at the level   *)
(* of its I2C register transactions.  Three EC tasks call into it: the     *)
(* charger task (charger_set_mode, charger_discharge_on_ac,                *)
(* charger_set_hw_ramp, charger_post_init, the current and voltage         *)
(* setters), the hooks task (the PSYS hooks on chipset startup and         *)
(* shutdown, CONFIG_CHARGER_PSYS) and the console task (amonbmon,          *)
(* CONFIG_CMD_CHARGER_ADC_AMON_BMON).  Each i2c_read / i2c_write is atomic *)
(* (the port is locked for the transaction) and may fail; a task can be    *)
(* preempted between two of its transactions.                              *)
(*                                                                         *)
(* Registers are kept as the sets of the control bits the driver touches;  *)
(* the value registers hold a member of a small set of values.             *)
(***************************************************************************)
EXTENDS Integers

CONSTANTS
    HasPsys,       \* CONFIG_CHARGER_PSYS
    HasAmonBmon,   \* CONFIG_CMD_CHARGER_ADC_AMON_BMON
    HwRamp,        \* CONFIG_CHARGE_RAMP_HW
    Isl9237,       \* CONFIG_ISL9237 (otherwise the ISL9238)
    I2cFails,      \* whether an I2C transaction may fail
    Values,        \* the values written to the current/voltage registers
    InitControl1   \* the CONTROL1 values the EC may find at boot

ASSUME ConfigAssumption ==
    {HasPsys, HasAmonBmon, HwRamp, Isl9237, I2cFails} \subseteq BOOLEAN
ASSUME ValuesAssumption == Values \subseteq Nat /\ 0 \notin Values

\* The bits of CONTROL0, CONTROL1 and CONTROL2 the driver reads or writes.
DISABLE_VREG   == "C0_DISABLE_VREG"
VREG_REF_4200  == "C0_VREG_REF_4200"
LEARN_ENABLE   == "C1_LEARN_MODE_ENABLE"
LEARN_AUTOEXIT == "C1_LEARN_MODE_AUTOEXIT"
ENABLE_PSYS    == "C1_ENABLE_PSYS"
SELECT_BMON    == "C1_SELECT_BMON"
DISABLE_MON    == "C1_DISABLE_MON"
PROCHOT_DEB    == "C2_PROCHOT_DEBOUNCE_1000"
ADAPTER_DEB    == "C2_ADAPTER_DEBOUNCE_150"

C0Bits == {DISABLE_VREG, VREG_REF_4200}
C1Bits == {LEARN_ENABLE, LEARN_AUTOEXIT, ENABLE_PSYS, SELECT_BMON, DISABLE_MON}
C2Bits == {PROCHOT_DEB, ADAPTER_DEB}

ASSUME InitControl1Assumption == InitControl1 \subseteq SUBSET C1Bits

\* bi->voltage_min, the battery's minimum voltage.
VoltageMin == CHOOSE v \in Values : \A w \in Values : v <= w

VARIABLES
    control0, control1, control2,   \* ISL923X_REG_CONTROL0..2
    chg_current,                    \* ISL923X_REG_CHG_CURRENT
    sys_voltage_max,                \* ISL923X_REG_SYS_VOLTAGE_MAX
    adapter_current,                \* ADAPTER_CURRENT1 and 2, as a pair
    learn_mode,                     \* static int learn_mode
    chg,                            \* the charger task: where it is, locals
    hook,                           \* the hooks task in a PSYS hook
    con,                            \* the console task in print_amon_bmon
    chipset_on                      \* the AP power state the hooks follow

vars == <<control0, control1, control2, chg_current, sys_voltage_max,
          adapter_current, learn_mode, chg, hook, con, chipset_on>>

ChgPcs == {"idle", "doa_read", "doa_write", "pi_write2",
           "opt_read0", "opt_read1", "opt_write0", "opt_write1",
           "ic_write2"}

TypeOK ==
    /\ control0 \subseteq C0Bits
    /\ control1 \subseteq C1Bits
    /\ control2 \subseteq C2Bits
    /\ chg_current \in Values
    /\ sys_voltage_max \in Values
    /\ adapter_current \in Values \X Values
    /\ learn_mode \in BOOLEAN
    /\ chg \in [pc : ChgPcs, op : {"none", "ramp_on", "ramp_off", "post_init"},
                enable : BOOLEAN, val : {0} \cup Values, c0 : SUBSET C0Bits, c1 : SUBSET C1Bits, c2 : SUBSET C2Bits]
    /\ hook \in [pc : {"idle", "read", "write"}, on : BOOLEAN, val : SUBSET C1Bits]
    /\ con \in [pc : {"idle", "read", "write"}, amon : BOOLEAN, val : SUBSET C1Bits]
    /\ chipset_on \in BOOLEAN

\* An I2C transaction's outcome: TRUE when it succeeds.
I2cOutcomes == IF I2cFails THEN BOOLEAN ELSE {TRUE}

ChgIdle == [pc |-> "idle", op |-> "none", enable |-> FALSE, val |-> 0,
            c0 |-> {}, c1 |-> {}, c2 |-> {}]

-----------------------------------------------------------------------------
(***************************************************************************)
(* The charger task.  Each action is one I2C transaction, or one call that *)
(* makes none.                                                             *)
(***************************************************************************)

\* Variant: the request written as it is.
VoltageWrittenUncapped(v) == v

\* charger_set_voltage: a request of 0 (from the charge state machine) is
\* raised to the battery's minimum, the charger cannot regulate below it.
VoltageWritten(v) == IF v = 0 THEN VoltageMin ELSE v

\* charger_set_current / isl9237_set_current: one write.
SetCurrent ==
    /\ chg.pc = "idle"
    /\ \E v \in Values, ok \in I2cOutcomes :
         chg_current' = IF ok THEN v ELSE chg_current
    /\ UNCHANGED <<control0, control1, control2, sys_voltage_max,
                   adapter_current, learn_mode, chg, hook, con, chipset_on>>

\* charger_set_voltage / isl9237_set_voltage: one write.
SetVoltage ==
    /\ chg.pc = "idle"
    /\ \E v \in Values \cup {0}, ok \in I2cOutcomes :
         sys_voltage_max' = IF ok THEN VoltageWritten(v) ELSE sys_voltage_max
    /\ UNCHANGED <<control0, control1, control2, chg_current,
                   adapter_current, learn_mode, chg, hook, con, chipset_on>>

\* charger_set_input_current: ADAPTER_CURRENT1, then ADAPTER_CURRENT2 unless
\* the first write failed.
SetInputCurrent ==
    /\ chg.pc = "idle"
    /\ \E v \in Values, ok \in I2cOutcomes :
         IF ok THEN /\ adapter_current' = <<v, adapter_current[2]>>
                    /\ chg' = [ChgIdle EXCEPT !.pc = "ic_write2", !.val = v]
               ELSE UNCHANGED <<adapter_current, chg>>
    /\ UNCHANGED <<control0, control1, control2, chg_current, sys_voltage_max,
                   learn_mode, hook, con, chipset_on>>

SetInputCurrent2 ==
    /\ chg.pc = "ic_write2"
    /\ \E ok \in I2cOutcomes :
         adapter_current' = IF ok THEN <<adapter_current[1], chg.val>>
                            ELSE adapter_current
    /\ chg' = ChgIdle
    /\ UNCHANGED <<control0, control1, control2, chg_current, sys_voltage_max,
                   learn_mode, hook, con, chipset_on>>

\* charger_discharge_on_ac(enable) is entered.
DischargeOnAc ==
    /\ chg.pc = "idle"
    /\ \E e \in BOOLEAN : chg' = [ChgIdle EXCEPT !.pc = "doa_read", !.enable = e]
    /\ UNCHANGED <<control0, control1, control2, chg_current, sys_voltage_max,
                   adapter_current, learn_mode, hook, con, chipset_on>>

\* charger_set_mode: learn mode is switched off unless it was set on purpose
\* (crosbug.com/p/51196); the inhibit mode itself is not supported.
SetMode ==
    /\ chg.pc = "idle"
    /\ chg' = IF learn_mode THEN chg
              ELSE [ChgIdle EXCEPT !.pc = "doa_read", !.enable = FALSE]
    /\ UNCHANGED <<control0, control1, control2, chg_current, sys_voltage_max,
                   adapter_current, learn_mode, hook, con, chipset_on>>

\* charger_discharge_on_ac: read CONTROL1; on an error, return it.
DischargeRead ==
    /\ chg.pc = "doa_read"
    /\ \E ok \in I2cOutcomes :
         chg' = IF ok THEN [chg EXCEPT !.pc = "doa_write", !.c1 = control1]
                ELSE ChgIdle
    /\ UNCHANGED <<control0, control1, control2, chg_current, sys_voltage_max,
                   adapter_current, learn_mode, hook, con, chipset_on>>

\* Variant: the flag set whatever the write returned.
LearnModeAfterIgnoringError(ok, enable) == enable

\* The CONTROL1 value charger_discharge_on_ac writes back.
LearnControl1(c1, enable) ==
    (c1 \ {LEARN_AUTOEXIT, LEARN_ENABLE}) \cup (IF enable THEN {LEARN_ENABLE} ELSE {})

\* learn_mode = !rv && enable.
LearnModeAfter(ok, enable) == ok /\ enable

\* charger_discharge_on_ac: write CONTROL1 and record the outcome.
DischargeWrite ==
    /\ chg.pc = "doa_write"
    /\ \E ok \in I2cOutcomes :
         /\ control1' = IF ok THEN LearnControl1(chg.c1, chg.enable) ELSE control1
         /\ learn_mode' = LearnModeAfter(ok, chg.enable)
    /\ chg' = ChgIdle
    /\ UNCHANGED <<control0, control2, chg_current, sys_voltage_max,
                   adapter_current, hook, con, chipset_on>>

\* charger_post_init: read CONTROL2 (an error is returned).
PostInit ==
    /\ chg.pc = "idle"
    /\ \E ok \in I2cOutcomes :
         chg' = IF ok THEN [ChgIdle EXCEPT !.pc = "pi_write2", !.op = "post_init",
                                           !.c2 = control2]
                ELSE ChgIdle
    /\ UNCHANGED <<control0, control1, control2, chg_current, sys_voltage_max,
                   adapter_current, learn_mode, hook, con, chipset_on>>

\* charger_post_init: write CONTROL2 with the PROCHOT# and adapter debounce
\* times, then go on to charger_get_option, except on an ISL9238 with the
\* hardware ramp, whose default input regulation reference is kept.
PostInitWrite ==
    /\ chg.pc = "pi_write2"
    /\ \E ok \in I2cOutcomes :
         /\ control2' = IF ok THEN chg.c2 \cup {PROCHOT_DEB, ADAPTER_DEB}
                        ELSE control2
         /\ chg' = IF ok /\ (Isl9237 \/ ~HwRamp)
                   THEN [chg EXCEPT !.pc = "opt_read0", !.c2 = {}]
                   ELSE ChgIdle
    /\ UNCHANGED <<control0, control1, chg_current, sys_voltage_max,
                   adapter_current, learn_mode, hook, con, chipset_on>>

\* charger_set_hw_ramp(enable) is entered (CONFIG_CHARGE_RAMP_HW).
SetHwRamp ==
    /\ HwRamp
    /\ chg.pc = "idle"
    /\ \E e \in BOOLEAN :
         chg' = [ChgIdle EXCEPT !.pc = "opt_read0",
                                !.op = IF e THEN "ramp_on" ELSE "ramp_off"]
    /\ UNCHANGED <<control0, control1, control2, chg_current, sys_voltage_max,
                   adapter_current, learn_mode, hook, con, chipset_on>>

\* charger_get_option: CONTROL0 (8-bit read), then CONTROL1; an error of
\* either is returned.
GetOption0 ==
    /\ chg.pc = "opt_read0"
    /\ \E ok \in I2cOutcomes :
         chg' = IF ok THEN [chg EXCEPT !.pc = "opt_read1", !.c0 = control0]
                ELSE ChgIdle
    /\ UNCHANGED <<control0, control1, control2, chg_current, sys_voltage_max,
                   adapter_current, learn_mode, hook, con, chipset_on>>

\* How the caller of charger_get_option changes the CONTROL0 half.
NewControl0(op, c0) ==
    CASE op = "ramp_on" -> c0 \ {DISABLE_VREG}
      [] op = "ramp_off" -> c0 \cup {DISABLE_VREG}
      [] op = "post_init" /\ HwRamp -> c0 \cup {VREG_REF_4200}
      [] op = "post_init" /\ ~HwRamp -> c0 \cup {DISABLE_VREG}

GetOption1 ==
    /\ chg.pc = "opt_read1"
    /\ \E ok \in I2cOutcomes :
         chg' = IF ok THEN [chg EXCEPT !.pc = "opt_write0", !.c1 = control1,
                                       !.c0 = NewControl0(chg.op, chg.c0)]
                ELSE ChgIdle
    /\ UNCHANGED <<control0, control1, control2, chg_current, sys_voltage_max,
                   adapter_current, learn_mode, hook, con, chipset_on>>

\* charger_set_option: CONTROL0 (an error is returned), then CONTROL1.
SetOption0 ==
    /\ chg.pc = "opt_write0"
    /\ \E ok \in I2cOutcomes :
         /\ control0' = IF ok THEN chg.c0 ELSE control0
         /\ chg' = IF ok THEN [chg EXCEPT !.pc = "opt_write1"] ELSE ChgIdle
    /\ UNCHANGED <<control1, control2, chg_current, sys_voltage_max,
                   adapter_current, learn_mode, hook, con, chipset_on>>

SetOption1 ==
    /\ chg.pc = "opt_write1"
    /\ \E ok \in I2cOutcomes :
         control1' = IF ok THEN chg.c1 ELSE control1
    /\ chg' = ChgIdle
    /\ UNCHANGED <<control0, control2, chg_current, sys_voltage_max,
                   adapter_current, learn_mode, hook, con, chipset_on>>

-----------------------------------------------------------------------------
(***************************************************************************)
(* The hooks task: HOOK_CHIPSET_STARTUP runs charger_enable_psys,          *)
(* HOOK_CHIPSET_SHUTDOWN charger_disable_psys, each a read and a write of  *)
(* CONTROL1 (the write only if the read succeeded; its error is ignored).  *)
(***************************************************************************)
ChipsetChange ==
    /\ hook.pc = "idle"
    /\ chipset_on' = ~chipset_on
    /\ hook' = IF HasPsys THEN [hook EXCEPT !.pc = "read", !.on = ~chipset_on]
               ELSE hook
    /\ UNCHANGED <<control0, control1, control2, chg_current, sys_voltage_max,
                   adapter_current, learn_mode, chg, con>>

PsysRead ==
    /\ hook.pc = "read"
    /\ \E ok \in I2cOutcomes :
         hook' = IF ok THEN [hook EXCEPT !.pc = "write", !.val = control1]
                 ELSE [hook EXCEPT !.pc = "idle"]
    /\ UNCHANGED <<control0, control1, control2, chg_current, sys_voltage_max,
                   adapter_current, learn_mode, chg, con, chipset_on>>

PsysWrite ==
    /\ hook.pc = "write"
    /\ \E ok \in I2cOutcomes :
         control1' = IF ~ok THEN control1
                     ELSE IF hook.on THEN hook.val \cup {ENABLE_PSYS}
                     ELSE hook.val \ {ENABLE_PSYS}
    /\ hook' = [hook EXCEPT !.pc = "idle", !.val = {}]
    /\ UNCHANGED <<control0, control2, chg_current, sys_voltage_max,
                   adapter_current, learn_mode, chg, con, chipset_on>>

(***************************************************************************)
(* The console task: print_amon_bmon selects AMON or BMON and enables the  *)
(* monitor with a read and a write of CONTROL1; either error is returned.  *)
(***************************************************************************)
AmonBmon ==
    /\ HasAmonBmon
    /\ con.pc = "idle"
    /\ \E amon \in BOOLEAN : con' = [con EXCEPT !.pc = "read", !.amon = amon]
    /\ UNCHANGED <<control0, control1, control2, chg_current, sys_voltage_max,
                   adapter_current, learn_mode, chg, hook, chipset_on>>

AmonBmonRead ==
    /\ con.pc = "read"
    /\ \E ok \in I2cOutcomes :
         con' = IF ok THEN [con EXCEPT !.pc = "write", !.val = control1]
                ELSE [con EXCEPT !.pc = "idle"]
    /\ UNCHANGED <<control0, control1, control2, chg_current, sys_voltage_max,
                   adapter_current, learn_mode, chg, hook, chipset_on>>

AmonBmonWrite ==
    /\ con.pc = "write"
    /\ \E ok \in I2cOutcomes :
         control1' = IF ~ok THEN control1
                     ELSE (IF con.amon THEN con.val \ {SELECT_BMON}
                           ELSE con.val \cup {SELECT_BMON}) \ {DISABLE_MON}
    /\ con' = [con EXCEPT !.pc = "idle", !.val = {}]
    /\ UNCHANGED <<control0, control2, chg_current, sys_voltage_max,
                   adapter_current, learn_mode, chg, hook, chipset_on>>

\* The charger leaves learn mode by itself when LEARN_MODE_AUTOEXIT is set
\* (the battery ran low); the driver clears that bit so that it does not.
ChipAutoExit ==
    /\ {LEARN_ENABLE, LEARN_AUTOEXIT} \subseteq control1
    /\ control1' = control1 \ {LEARN_ENABLE}
    /\ UNCHANGED <<control0, control2, chg_current, sys_voltage_max,
                   adapter_current, learn_mode, chg, hook, con, chipset_on>>

-----------------------------------------------------------------------------
\* The EC boots with the charger's registers as it finds them (the charger
\* keeps them across an EC reset) and learn_mode cleared.
Init ==
    /\ control0 \in SUBSET C0Bits
    /\ control1 \in InitControl1
    /\ control2 \in SUBSET C2Bits
    /\ chg_current \in Values
    /\ sys_voltage_max \in Values
    /\ adapter_current \in Values \X Values
    /\ learn_mode = FALSE
    /\ chg = ChgIdle
    /\ hook = [pc |-> "idle", on |-> FALSE, val |-> {}]
    /\ con = [pc |-> "idle", amon |-> FALSE, val |-> {}]
    /\ chipset_on = FALSE

Next ==
    \/ SetCurrent \/ SetVoltage \/ SetInputCurrent \/ SetInputCurrent2
    \/ DischargeOnAc \/ SetMode \/ DischargeRead \/ DischargeWrite
    \/ PostInit \/ PostInitWrite \/ SetHwRamp
    \/ GetOption0 \/ GetOption1 \/ SetOption0 \/ SetOption1
    \/ ChipsetChange \/ PsysRead \/ PsysWrite
    \/ AmonBmon \/ AmonBmonRead \/ AmonBmonWrite
    \/ ChipAutoExit

Spec == Init /\ [][Next]_vars

-----------------------------------------------------------------------------
\* While learn_mode says that learn mode was set on purpose (so that
\* charger_set_mode leaves it alone), the charger really is in learn mode
\* and will not leave it by itself: no other write of CONTROL1 and no failed
\* I2C transaction makes the driver's flag and the chip disagree.
LearnModeConsistent ==
    learn_mode => LEARN_ENABLE \in control1 /\ LEARN_AUTOEXIT \notin control1
=============================================================================
