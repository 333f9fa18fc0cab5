---------------------------- MODULE ChargerProofs ----------------------------
(***************************************************************************)
(* Proofs about the isl923x charger model: every step keeps the registers  *)
(* and the tasks' locals in their types, and, when the charger task is the *)
(* only writer of CONTROL1 (neither CONFIG_CHARGER_PSYS nor                *)
(* CONFIG_CMD_CHARGER_ADC_AMON_BMON), learn_mode never disagrees with the  *)
(* chip, whatever the values, the boot-time CONTROL1 and the I2C failures. *)
(***************************************************************************)
EXTENDS Charger, WellFoundedInduction, TLAPS

\* The values are naturals, so a nonempty set of them has a least member:
\* bi->voltage_min exists as soon as one value does.
LEMMA VoltageMinType ==
    ASSUME Values # {}
    PROVE  VoltageMin \in Values
<1>1. \E x \in Values : \A y \in Values : ~(<<y, x>> \in OpToRel(<, Nat))
  BY WFMin, NatLessThanWellFounded, ValuesAssumption
<1>2. ASSUME NEW x \in Nat, NEW y \in Nat, ~(<<y, x>> \in OpToRel(<, Nat))
      PROVE  x <= y
  <2>1. ~(y < x)
    BY <1>2, Zenon DEF OpToRel
  <2> QED
    BY <2>1
<1>3. \E x \in Values : \A y \in Values : x <= y
  BY <1>1, <1>2, ValuesAssumption
<1> QED
  BY <1>3 DEF VoltageMin

\* charger_get_option is only reached from charger_set_hw_ramp or
\* charger_post_init, so the caller that changes the CONTROL0 half is known.
OptOp ==
    chg.pc \in {"pi_write2", "opt_read0", "opt_read1", "opt_write0",
               "opt_write1"} =>
        chg.op \in {"ramp_on", "ramp_off", "post_init"}

\* Without the PSYS hooks and the amonbmon command, their tasks never leave
\* idle.
TasksIdle ==
    /\ ~HasPsys => hook.pc = "idle"
    /\ ~HasAmonBmon => con.pc = "idle"

\* Between charger_get_option's read of CONTROL1 and charger_set_option's
\* write of it, CONTROL1 does not change while learn mode is on: the write
\* puts back the value read.
OptionC1Current ==
    learn_mode /\ chg.pc \in {"opt_write0", "opt_write1"} => chg.c1 = control1

\* charger_set_input_current only goes on to ADAPTER_CURRENT2 with the
\* value it was called with.
IcVal == chg.pc = "ic_write2" => chg.val \in Values

\* The type invariant, made inductive, for every configuration.
TypeInv == TypeOK /\ OptOp /\ IcVal

\* The inductive invariant of learn mode, for a charger task that is the
\* only writer of CONTROL1.
LearnInv == TasksIdle /\ OptionC1Current /\ LearnModeConsistent

IInv == TypeInv /\ LearnInv

\* The types of the three tasks' records.
ChgRec ==
    [pc : ChgPcs, op : {"none", "ramp_on", "ramp_off", "post_init"},
     enable : BOOLEAN, val : {0} \cup Values, c0 : SUBSET C0Bits,
     c1 : SUBSET C1Bits, c2 : SUBSET C2Bits]
HookRec == [pc : {"idle", "read", "write"}, on : BOOLEAN, val : SUBSET C1Bits]
ConRec == [pc : {"idle", "read", "write"}, amon : BOOLEAN, val : SUBSET C1Bits]

\* The charger task's record at rest is well typed.
LEMMA ChgIdleType == ChgIdle \in ChgRec
BY DEF ChgIdle, ChgRec, ChgPcs

\* The steps of the charger task keep its record well typed and, inside
\* charger_get_option, its caller known.
LEMMA ChgStep ==
    ASSUME TypeInv, Next
    PROVE  chg' \in ChgRec /\ OptOp' /\ IcVal'
<1> USE DEF TypeInv, TypeOK, OptOp, IcVal
<1>0. I2cOutcomes \subseteq BOOLEAN
  BY ConfigAssumption DEF I2cOutcomes
<1>1. CASE SetInputCurrent
  <2>1. \A v \in Values :
          /\ [ChgIdle EXCEPT !.pc = "ic_write2", !.val = v] \in ChgRec
          /\ [ChgIdle EXCEPT !.pc = "ic_write2", !.val = v].pc = "ic_write2"
          /\ [ChgIdle EXCEPT !.pc = "ic_write2", !.val = v].val = v
    BY DEF ChgIdle, ChgRec, ChgPcs
  <2>2. PICK v \in Values, ok \in I2cOutcomes :
          IF ok THEN chg' = [ChgIdle EXCEPT !.pc = "ic_write2", !.val = v]
                ELSE chg' = chg
    BY <1>1 DEF SetInputCurrent
  <2>3. CASE ok
    <3>1. chg' = [ChgIdle EXCEPT !.pc = "ic_write2", !.val = v]
      BY <2>2, <2>3
    <3> QED
      BY <2>1, <3>1
  <2>4. CASE ~ok
    BY <1>1, <2>2, <2>4 DEF SetInputCurrent, ChgRec
  <2> QED
    BY <2>3, <2>4
<1>2. CASE DischargeOnAc
  <2>1. \A e \in BOOLEAN :
          /\ [ChgIdle EXCEPT !.pc = "doa_read", !.enable = e] \in ChgRec
          /\ [ChgIdle EXCEPT !.pc = "doa_read", !.enable = e].pc = "doa_read"
    BY DEF ChgIdle, ChgRec, ChgPcs
  <2> QED
    BY <1>2, <2>1 DEF DischargeOnAc
<1>3. CASE SetMode
  <2>1. /\ [ChgIdle EXCEPT !.pc = "doa_read", !.enable = FALSE] \in ChgRec
        /\ [ChgIdle EXCEPT !.pc = "doa_read", !.enable = FALSE].pc = "doa_read"
    BY DEF ChgIdle, ChgRec, ChgPcs
  <2> QED
    BY <1>3, <2>1 DEF SetMode, ChgRec
<1>4. CASE DischargeRead
  <2>1. /\ [chg EXCEPT !.pc = "doa_write", !.c1 = control1] \in ChgRec
        /\ [chg EXCEPT !.pc = "doa_write", !.c1 = control1].pc = "doa_write"
    BY DEF ChgRec, ChgPcs
  <2> QED
    BY <1>4, <1>0, <2>1, ChgIdleType DEF DischargeRead, ChgIdle, ChgRec
<1>5. CASE PostInit
  <2>1. LET X == [ChgIdle EXCEPT !.pc = "pi_write2", !.op = "post_init",
                                 !.c2 = control2]
        IN  X \in ChgRec /\ X.op = "post_init" /\ X.pc = "pi_write2"
    BY DEF ChgIdle, ChgRec, ChgPcs
  <2> QED
    BY <1>5, <1>0, <2>1, ChgIdleType DEF PostInit, ChgIdle, ChgRec
<1>6. CASE PostInitWrite
  <2>1. LET X == [chg EXCEPT !.pc = "opt_read0", !.c2 = {}]
        IN  X \in ChgRec /\ X.op = chg.op /\ X.pc = "opt_read0"
    BY DEF ChgRec, ChgPcs
  <2> QED
    BY <1>6, <1>0, <2>1, ChgIdleType DEF PostInitWrite, ChgIdle, ChgRec
<1>7. CASE SetHwRamp
  <2>1. \A e \in BOOLEAN :
          LET X == [ChgIdle EXCEPT !.pc = "opt_read0",
                                   !.op = IF e THEN "ramp_on" ELSE "ramp_off"]
          IN  X \in ChgRec /\ X.op \in {"ramp_on", "ramp_off"}
              /\ X.pc = "opt_read0"
    BY DEF ChgIdle, ChgRec, ChgPcs
  <2> QED
    BY <1>7, <2>1 DEF SetHwRamp
<1>8. CASE GetOption0
  <2>1. LET X == [chg EXCEPT !.pc = "opt_read1", !.c0 = control0]
        IN  X \in ChgRec /\ X.op = chg.op /\ X.pc = "opt_read1"
    BY DEF ChgRec, ChgPcs
  <2> QED
    BY <1>8, <1>0, <2>1, ChgIdleType DEF GetOption0, ChgIdle, ChgRec
<1>9. CASE GetOption1
  <2>1. NewControl0(chg.op, chg.c0) \subseteq C0Bits
    BY <1>9, ConfigAssumption DEF GetOption1, NewControl0, C0Bits, ChgRec
  <2>2. LET X == [chg EXCEPT !.pc = "opt_write0", !.c1 = control1,
                             !.c0 = NewControl0(chg.op, chg.c0)]
        IN  X \in ChgRec /\ X.op = chg.op /\ X.pc = "opt_write0"
    BY <2>1 DEF ChgRec, ChgPcs
  <2> QED
    BY <1>9, <1>0, <2>2, ChgIdleType DEF GetOption1, ChgIdle, ChgRec
<1>10. CASE SetOption0
  <2>1. LET X == [chg EXCEPT !.pc = "opt_write1"]
        IN  X \in ChgRec /\ X.op = chg.op /\ X.pc = "opt_write1"
    BY DEF ChgRec, ChgPcs
  <2> QED
    BY <1>10, <1>0, <2>1, ChgIdleType DEF SetOption0, ChgIdle, ChgRec
<1>11. CASE SetInputCurrent2 \/ DischargeWrite \/ SetOption1
  <2>1. ChgIdle.pc = "idle"
    BY DEF ChgIdle
  <2> QED
    BY <1>11, <2>1, ChgIdleType DEF SetInputCurrent2, DischargeWrite, SetOption1
<1>12. CASE \/ SetCurrent \/ SetVoltage \/ ChipsetChange \/ PsysRead
            \/ PsysWrite \/ AmonBmon \/ AmonBmonRead \/ AmonBmonWrite
            \/ ChipAutoExit
  BY <1>12 DEF SetCurrent, SetVoltage, ChipsetChange, PsysRead, PsysWrite,
     AmonBmon, AmonBmonRead, AmonBmonWrite, ChipAutoExit, ChgRec
<1> QED
  BY <1>1, <1>2, <1>3, <1>4, <1>5, <1>6, <1>7, <1>8, <1>9, <1>10, <1>11,
     <1>12 DEF Next

\* The PSYS hooks keep their record well typed.
LEMMA HookStep ==
    ASSUME TypeInv, Next
    PROVE  hook' \in HookRec
<1> USE DEF TypeInv, TypeOK
<1>0. I2cOutcomes \subseteq BOOLEAN
  BY ConfigAssumption DEF I2cOutcomes
<1>1. CASE ChipsetChange
  <2>1. [hook EXCEPT !.pc = "read", !.on = ~chipset_on] \in HookRec
    BY DEF HookRec
  <2> QED
    BY <1>1, <2>1 DEF ChipsetChange, HookRec
<1>2. CASE PsysRead
  <2>1. /\ [hook EXCEPT !.pc = "write", !.val = control1] \in HookRec
        /\ [hook EXCEPT !.pc = "idle"] \in HookRec
    BY DEF HookRec
  <2> QED
    BY <1>2, <1>0, <2>1 DEF PsysRead
<1>3. CASE PsysWrite
  <2>1. [hook EXCEPT !.pc = "idle", !.val = {}] \in HookRec
    BY DEF HookRec
  <2> QED
    BY <1>3, <2>1 DEF PsysWrite
<1>4. CASE ~ChipsetChange /\ ~PsysRead /\ ~PsysWrite
  BY <1>4 DEF Next, SetCurrent, SetVoltage, SetInputCurrent, SetInputCurrent2,
     DischargeOnAc, SetMode, DischargeRead, DischargeWrite, PostInit,
     PostInitWrite, SetHwRamp, GetOption0, GetOption1, SetOption0, SetOption1,
     AmonBmon, AmonBmonRead, AmonBmonWrite, ChipAutoExit, HookRec
<1> QED
  BY <1>1, <1>2, <1>3, <1>4

\* The amonbmon command keeps its record well typed.
LEMMA ConStep ==
    ASSUME TypeInv, Next
    PROVE  con' \in ConRec
<1> USE DEF TypeInv, TypeOK
<1>0. I2cOutcomes \subseteq BOOLEAN
  BY ConfigAssumption DEF I2cOutcomes
<1>1. CASE AmonBmon
  <2>1. \A amon \in BOOLEAN : [con EXCEPT !.pc = "read", !.amon = amon] \in ConRec
    BY DEF ConRec
  <2> QED
    BY <1>1, <2>1 DEF AmonBmon
<1>2. CASE AmonBmonRead
  <2>1. /\ [con EXCEPT !.pc = "write", !.val = control1] \in ConRec
        /\ [con EXCEPT !.pc = "idle"] \in ConRec
    BY DEF ConRec
  <2> QED
    BY <1>2, <1>0, <2>1 DEF AmonBmonRead
<1>3. CASE AmonBmonWrite
  <2>1. [con EXCEPT !.pc = "idle", !.val = {}] \in ConRec
    BY DEF ConRec
  <2> QED
    BY <1>3, <2>1 DEF AmonBmonWrite
<1>4. CASE ~AmonBmon /\ ~AmonBmonRead /\ ~AmonBmonWrite
  BY <1>4 DEF Next, SetCurrent, SetVoltage, SetInputCurrent, SetInputCurrent2,
     DischargeOnAc, SetMode, DischargeRead, DischargeWrite, PostInit,
     PostInitWrite, SetHwRamp, GetOption0, GetOption1, SetOption0, SetOption1,
     ChipsetChange, PsysRead, PsysWrite, ChipAutoExit, ConRec
<1> QED
  BY <1>1, <1>2, <1>3, <1>4

\* The register and flag values stay in their types: every write puts a
\* value, or a set of control bits, the register can hold.
LEMMA RegStep ==
    ASSUME TypeInv, Next
    PROVE  /\ control0' \subseteq C0Bits
           /\ control1' \subseteq C1Bits
           /\ control2' \subseteq C2Bits
           /\ chg_current' \in Values
           /\ sys_voltage_max' \in Values
           /\ adapter_current' \in Values \X Values
           /\ learn_mode' \in BOOLEAN
           /\ chipset_on' \in BOOLEAN
<1> USE DEF TypeInv, TypeOK, IcVal
<1>0. I2cOutcomes \subseteq BOOLEAN
  BY ConfigAssumption DEF I2cOutcomes
<1>1. CASE SetCurrent
  BY <1>1 DEF SetCurrent
<1>2. CASE SetVoltage
  <2>1. VoltageMin \in Values
    BY VoltageMinType
  <2> QED
    BY <1>2, <2>1 DEF SetVoltage, VoltageWritten
<1>3. CASE SetInputCurrent
  BY <1>3 DEF SetInputCurrent
<1>4. CASE SetInputCurrent2
  BY <1>4 DEF SetInputCurrent2
<1>5. CASE DischargeWrite
  BY <1>5, <1>0 DEF DischargeWrite, LearnControl1, LearnModeAfter, C1Bits
<1>6. CASE PostInitWrite
  BY <1>6 DEF PostInitWrite, C2Bits
<1>7. CASE SetOption0 \/ SetOption1
  BY <1>7 DEF SetOption0, SetOption1
<1>8. CASE ChipsetChange
  BY <1>8 DEF ChipsetChange
<1>9. CASE PsysWrite \/ AmonBmonWrite
  BY <1>9 DEF PsysWrite, AmonBmonWrite, C1Bits
<1>10. CASE ChipAutoExit
  BY <1>10 DEF ChipAutoExit
<1>11. CASE \/ DischargeOnAc \/ SetMode \/ DischargeRead \/ PostInit
            \/ SetHwRamp \/ GetOption0 \/ GetOption1 \/ PsysRead
            \/ AmonBmon \/ AmonBmonRead
  BY <1>11 DEF DischargeOnAc, SetMode, DischargeRead, PostInit, SetHwRamp,
     GetOption0, GetOption1, PsysRead, AmonBmon, AmonBmonRead
<1> QED
  BY <1>1, <1>2, <1>3, <1>4, <1>5, <1>6, <1>7, <1>8, <1>9, <1>10, <1>11
     DEF Next

\* TypeInv holds at boot, whatever the registers the EC finds.
LEMMA TypeInit ==
    ASSUME Init
    PROVE  TypeInv
<1>1. ChgIdle.pc = "idle"
  BY DEF ChgIdle
<1> QED
  BY <1>1, ChgIdleType, InitControl1Assumption
     DEF Init, TypeInv, TypeOK, OptOp, IcVal, ChgRec

\* TypeInv is kept by every step.
LEMMA TypeInvStep ==
    ASSUME TypeInv, [Next]_vars
    PROVE  TypeInv'
<1>1. CASE Next
  BY <1>1, ChgStep, HookStep, ConStep, RegStep
     DEF TypeInv, TypeOK, ChgRec, HookRec, ConRec
<1>2. CASE UNCHANGED vars
  BY <1>2 DEF vars, TypeInv, TypeOK, OptOp, IcVal
<1> QED
  BY <1>1, <1>2

\* The registers, the driver's flag and the three tasks' locals always have
\* their types, in every configuration: in particular the voltage
\* charger_set_voltage writes for a request of 0, bi->voltage_min, is one of
\* the values, so no step programs a voltage outside them.
THEOREM TypeCorrect == Spec => []TypeOK
<1>1. Init => TypeInv
  BY TypeInit
<1>2. TypeInv /\ [Next]_vars => TypeInv'
  BY TypeInvStep
<1>3. TypeInv => TypeOK
  BY DEF TypeInv
<1> QED
  BY <1>1, <1>2, <1>3, PTL DEF Spec
-----------------------------------------------------------------------------
\* With neither the PSYS hooks nor the amonbmon command built in, every
\* step keeps learn_mode, CONTROL1 and charger_get_option's copy of it in
\* agreement.
LEMMA LearnStep ==
    ASSUME ~HasPsys, ~HasAmonBmon, TypeInv, LearnInv, [Next]_vars
    PROVE  LearnInv'
<1> USE DEF LearnInv, TasksIdle, OptionC1Current, LearnModeConsistent
<1>0. I2cOutcomes \subseteq BOOLEAN
  BY ConfigAssumption DEF I2cOutcomes
<1>a. ChgIdle.pc = "idle"
  BY DEF ChgIdle
\* The steps that leave learn_mode, CONTROL1 and the two other tasks alone,
\* and leave the charger task outside charger_set_option.
<1>1. CASE /\ UNCHANGED <<learn_mode, control1, hook, con>>
           /\ chg'.pc \notin {"opt_write0", "opt_write1"}
  BY <1>1
<1>2. CASE /\ UNCHANGED <<learn_mode, control1, hook, con>>
           /\ chg' = chg
  BY <1>2
<1>3. CASE SetCurrent \/ SetVoltage \/ SetInputCurrent2
  BY <1>3, <1>a, <1>2 DEF SetCurrent, SetVoltage, SetInputCurrent2
<1>4. CASE SetInputCurrent
  <2>1. \A v \in Values :
          [ChgIdle EXCEPT !.pc = "ic_write2", !.val = v].pc = "ic_write2"
    BY DEF ChgIdle
  <2> QED
    BY <1>4, <2>1 DEF SetInputCurrent
<1>5. CASE DischargeOnAc
  <2>1. \A e \in BOOLEAN :
          [ChgIdle EXCEPT !.pc = "doa_read", !.enable = e].pc = "doa_read"
    BY DEF ChgIdle
  <2> QED
    BY <1>5, <2>1 DEF DischargeOnAc
<1>5a. CASE SetMode
  <2>1. [ChgIdle EXCEPT !.pc = "doa_read", !.enable = FALSE].pc = "doa_read"
    BY DEF ChgIdle
  <2> QED
    BY <1>5a, <2>1 DEF SetMode
<1>6. CASE DischargeRead
  <2>1. [chg EXCEPT !.pc = "doa_write", !.c1 = control1].pc = "doa_write"
    BY DEF TypeInv, TypeOK
  <2> QED
    BY <1>6, <1>a, <2>1 DEF DischargeRead
<1>7. CASE DischargeWrite
  <2>1. PICK ok \in I2cOutcomes :
          /\ control1' = IF ok THEN LearnControl1(chg.c1, chg.enable)
                         ELSE control1
          /\ learn_mode' = LearnModeAfter(ok, chg.enable)
    BY <1>7 DEF DischargeWrite
  <2>2. learn_mode' => ok /\ chg.enable
    BY <2>1, <1>0 DEF LearnModeAfter
  <2>3. learn_mode' =>
          /\ LEARN_ENABLE \in control1'
          /\ LEARN_AUTOEXIT \notin control1'
    BY <2>1, <2>2 DEF LearnControl1, LEARN_ENABLE, LEARN_AUTOEXIT
  <2> QED
    BY <1>7, <1>a, <2>3 DEF DischargeWrite
<1>8. CASE PostInit
  <2>1. [ChgIdle EXCEPT !.pc = "pi_write2", !.op = "post_init",
                        !.c2 = control2].pc = "pi_write2"
    BY DEF ChgIdle
  <2> QED
    BY <1>8, <1>a, <2>1 DEF PostInit
<1>8a. CASE SetHwRamp
  <2>1. \A e \in BOOLEAN :
          [ChgIdle EXCEPT !.pc = "opt_read0",
                          !.op = IF e THEN "ramp_on" ELSE "ramp_off"].pc
            = "opt_read0"
    BY DEF ChgIdle
  <2> QED
    BY <1>8a, <2>1 DEF SetHwRamp
<1>9. CASE PostInitWrite
  <2>1. [chg EXCEPT !.pc = "opt_read0", !.c2 = {}].pc = "opt_read0"
    BY DEF TypeInv, TypeOK
  <2> QED
    BY <1>9, <1>a, <2>1 DEF PostInitWrite
<1>9a. CASE GetOption0
  <2>1. [chg EXCEPT !.pc = "opt_read1", !.c0 = control0].pc = "opt_read1"
    BY DEF TypeInv, TypeOK
  <2> QED
    BY <1>9a, <1>a, <2>1 DEF GetOption0
<1>10. CASE GetOption1
  <2>1. LET X == [chg EXCEPT !.pc = "opt_write0", !.c1 = control1,
                             !.c0 = NewControl0(chg.op, chg.c0)]
        IN  X.c1 = control1
    BY DEF TypeInv, TypeOK
  <2> QED
    BY <1>10, <1>a, <2>1 DEF GetOption1
<1>11. CASE SetOption0
  <2>1. [chg EXCEPT !.pc = "opt_write1"].c1 = chg.c1
    BY DEF TypeInv, TypeOK
  <2> QED
    BY <1>11, <1>a, <2>1 DEF SetOption0
<1>12. CASE SetOption1
  BY <1>12, <1>a DEF SetOption1
<1>13. CASE ChipsetChange
  BY <1>13 DEF ChipsetChange
<1>14. CASE PsysRead \/ PsysWrite \/ AmonBmon \/ AmonBmonRead \/ AmonBmonWrite
  BY <1>14 DEF PsysRead, PsysWrite, AmonBmon, AmonBmonRead, AmonBmonWrite
<1>15. CASE ChipAutoExit
  BY <1>15 DEF ChipAutoExit
<1>16. CASE UNCHANGED vars
  BY <1>16, <1>2 DEF vars
<1> QED
  BY <1>3, <1>4, <1>5, <1>5a, <1>6, <1>7, <1>8, <1>8a, <1>9, <1>9a, <1>10,
     <1>11, <1>12, <1>13, <1>14, <1>15, <1>16 DEF Next

\* learn_mode is FALSE at boot and the other two tasks idle.
LEMMA LearnInit ==
    ASSUME Init
    PROVE  LearnInv
BY DEF Init, LearnInv, TasksIdle, OptionC1Current, LearnModeConsistent

\* When the charger task is the only writer of CONTROL1 (a board built
\* without CONFIG_CHARGER_PSYS and CONFIG_CMD_CHARGER_ADC_AMON_BMON),
\* learn_mode never claims a learn mode the charger is not in, for every
\* set of values, every CONTROL1 found at boot and any I2C failures: the
\* read-modify-write of charger_get_option/charger_set_option cannot undo
\* charger_discharge_on_ac, because learn mode cannot be switched on
\* between the read and the write.  Either option brings in a second task
\* whose stale read of CONTROL1 breaks this (MCChargerLost.cfg).
THEOREM LearnSafe ==
    ~HasPsys /\ ~HasAmonBmon => (Spec => []LearnModeConsistent)
<1> SUFFICES ASSUME ~HasPsys, ~HasAmonBmon
             PROVE  Spec => []LearnModeConsistent
  OBVIOUS
<1>1. Init => IInv
  BY TypeInit, LearnInit DEF IInv
<1>2. IInv /\ [Next]_vars => IInv'
  BY TypeInvStep, LearnStep DEF IInv
<1>3. IInv => LearnModeConsistent
  BY DEF IInv, LearnInv
<1> QED
  BY <1>1, <1>2, <1>3, PTL DEF Spec
=============================================================================
