# Verification of Chrome EC button, CCD, charger and updater logic, and coreboot southbridge bootblock

This directory holds TLA+ models of the code under `src/`. It also holds the
TLC configurations that model-check them and the TLAPS proofs about them. The
models are written from the source: `common/button.c`, `board/cr50/rdd.c`,
`driver/charger/isl923x.c` and `extra/usb_updater/usb_updater.c` under
`src/3rdparty/chromeec/`, and under `src/src/` the i82801jx southbridge
bootblock and the AGESA Yangtze FCH reset defaults. Each definition's lines
are listed
under `map` in `PROJECT.json`.

## The system

The tree holds these parts (the `components` of `PROJECT.json`):

| part | source | status |
|---|---|---|
| button debounce engine | `common/button.c` 26-61, 149-261 | modelled: `ButtonDebounce`, `ButtonDebounceProofs` |
| emulated-sysrq debug mode | `common/button.c` 330-604 | modelled except the LED: `DebugMode`, `DebugModeProofs` |
| recovery-button boot detection | `common/button.c` 63-147 | planned |
| `button` console command (CMD_BUTTON) | `common/button.c` 35-45, 263-328 | planned |
| cr50 CCD UART / servo handling | `board/cr50/rdd.c` | modelled except the sysrst/ecrst/powerbtn pulses: `Ccd` |
| isl923x charger driver | `driver/charger/isl923x.c` | the register read-modify-writes of three tasks: `Charger`, `ChargerProofs` |
| usb_updater host tool | `extra/usb_updater/usb_updater.c` | the USB update path: `UpdaterVersions`, `UsbUpdater` |
| fizz `board.h`, `scratch_reg1.h`, `stm_mems_common.h`, `cbfs.h` | headers | not modelled: configuration and declarations |
| i82801jx southbridge bootblock | `src/src/southbridge/intel/i82801jx/bootblock.c` | modelled: `SouthbridgeBootblock`, `SouthbridgeBootblockProofs` |
| AGESA Yangtze FCH reset defaults | `src/src/vendorcode/amd/agesa/f16kb/.../ResetDefYangtze.c` | the two tables as records, with proved facts: `FchResetDefaults` |
| kahlee mainboard bootblock | `src/src/mainboard/google/kahlee/bootblock/bootblock.c` | not modelled: three calls to code outside the repository |
| `cts/task/dut.c` | CTS | not modelled: a test of the task scheduler |

How the two button parts interact (the other parts are independent of them
and of each other; the coreboot parts belong to other boards entirely):

* **Interrupts.** A button edge raises a GPIO interrupt. `button_interrupt`
  runs in interrupt context. It sets the button's `debounce_time` and may move
  the deferred call of `button_change_deferred` earlier.
* **Debouncing.** The hooks task runs `button_change_deferred`. It samples
  every button whose deadline has passed and records `debounced_pressed`.
* **Debug mode.** For each change, `button_change_deferred` calls
  `hook_call_deferred(&debug_mode_handle_data, 0)`. The debug-mode state
  machine (`debug_mode_handle`) reads the debounced Vup/Vdn bits and the power
  button. It moves between NONE, CHECK, STAGING, ACTIVE, SYSRQ_PATH,
  WARM_RESET_PATH and the two EXEC states. It re-arms its own deferred call
  with `DEBUG_TIMEOUT` in CHECK and STAGING.
* **The power button.** A change of the power button runs `debug_mode_handle`
  directly from `HOOK_POWER_BUTTON_CHANGE`.

## Modules

### `ButtonDebounce` (with `MCButtonDebounce`)

**State.**

* `level`: the GPIO levels.
* `debounce_time`, `debounced_pressed`: the `state[]` array.
* `next_deferred_time`.
* `change_deferred`: the hook slot of `button_change_deferred`.
* The hooks task's progress through `button_change_deferred`: `pc`, the loop
  index `i`, and the locals `new_pressed` and `soonest`.

**Timestamps.** All timestamps are counted in ticks from now:

* 0 means "at or before now".
* `NoDebounce` (-1) is the code's `debounce_time == 0`.
* `NoCall` (-1) means no call is pending.

Only the order of timestamps matters to the code's comparisons, so this
representation is exact.

**Actions.**

| action | code | what it does |
|---|---|---|
| `Init` | `button_init` | starts every button debounced at its current level |
| `ButtonInterrupt(b)` | `button_interrupt` | toggles the level; runs the whole ISR as one step |
| `DeferredStart`, `DeferredScan`, `DeferredUpdate`, `DeferredFinish` | `button_change_deferred` | the routine split at the points where an interrupt can fall: start (slot cleared), examine button `i`, record and clear button `i`, reschedule after the loop |
| `Tick` | | one tick of time |

**Time.** The hooks task runs a due call before time advances, so `Tick`
requires that no call is due and that the routine is not running.

### `DebugMode` (with `MCDebugMode`)

**State.**

* The four statics: `curr_debug_state`, `next_debug_state`,
  `debug_state_deadline` and `debug_button_hit_count`.
* `handle_deferred`: the deferred slot of `debug_mode_handle`.
* `pressed`: the buttons `debug_button_mask()` reports.
* `emitted`: what the last step sent to the host (the number of sysrq-x
  events, and whether a warm reset was triggered).

**Operators.**

* `Transition(ns, nxt)` is `debug_mode_transition`. It cancels the deferred
  call and re-arms it for CHECK and STAGING. It counts and caps the hit. The
  EXEC states emit their action and fall back to NONE, which resets the other
  variables.
* There is one operator per case of `debug_mode_handle`'s switch:
  `HandleNone`, `HandleCheck`, `HandleStaging`, `HandleExec`, and
  `HandlePath`, which is instantiated for the three PATH states.

**The environment.**

* `ButtonChange(chg)`: one debounce run reports a change of the buttons in
  `chg`, and the handler is scheduled with delay 0. `chg` holds Vup and Vdn,
  and, when `HasOtherButton`, a button of `buttons[]` outside the mask.
* `PowerButtonChange`: the hook runs the handler at once.
* `HandleDeferred`: the hooks task runs the due call.
* `Tick`.

The two modules are separate models of the same file. `DebugMode` abstracts
the debounce engine to the reports it produces: at most one per debounce run,
runs at least a tick apart. Composing the two is planned.

### `Charger` (with `MCCharger`)

The ISL-9237/8 driver at the level of its I2C transactions. Each
`i2c_read`/`i2c_write` is one atomic step that may fail (`I2cFails`). A task
can be preempted between two of its transactions.

**State.** CONTROL0-2 as the sets of control bits the driver touches, the
current and voltage registers as members of `Values`, the static
`learn_mode`, and the progress and locals of three tasks:

* `chg`: the charger task (`charger_set_mode`, `charger_discharge_on_ac`,
  `charger_post_init`, `charger_set_hw_ramp`, the option and current
  setters);
* `hook`: the hooks task in the PSYS chipset hooks (`HasPsys`);
* `con`: the console task in `amonbmon` (`HasAmonBmon`).

**Actions.** One per transaction: `DischargeOnAc`, then `DischargeRead` and
`DischargeWrite` are the read-modify-write of CONTROL1 in
`charger_discharge_on_ac`; `PsysRead`/`PsysWrite` and
`AmonBmonRead`/`AmonBmonWrite` are the same pattern in the hooks and in the
console. `ChipAutoExit` is the chip leaving learn mode by itself when
LEARN_MODE_AUTOEXIT is set. `PostInitWrite` is the end of
`charger_post_init`: on an ISL9238 (`Isl9237` FALSE) with the hardware ramp
enabled it returns before the option read-modify-write; otherwise it goes
on to it.

**Properties.** `LearnModeConsistent`: while `learn_mode` says learn mode was
set on purpose, CONTROL1 has it set and auto-exit clear.

### `Ccd` (with `MCCcd`)

cr50's CCD (closed-case debugging) mode, `board/cr50/rdd.c`.

**State.** `ccd_mode`; the statics `keep_ccd_enabled`, `ec_uart_enabled`,
`enable_usb_wakeup` and `usb_is_initialized`; `tx` (which UART's TX is muxed
to the pins); `i2c_on`; `pin_driven` (cr50 pulls CCD_MODE_L low) and
`ext_low` (something else does); `seen_low`, the last level the pin
interrupt handled; `dev` (AP, EC and servo detected on); `usb_running` (the
USB controller really initialized); and `hk`, where the hooks task is inside
`configure_ccd`.

**Actions.** `CcdModePinChanged` is `ccd_mode_pin_changed` with its
keepalive test. `configure_ccd` is split at each call:

* enable: `ConfigureEnableMode`, `ConfigureEnableUart`, `ConfigureEnableI2c`;
* disable: `ConfigureDisableEc`, `ConfigureDisableAp`,
  `ConfigureDisableFlags`, `ConfigureDisableMode`.

The other hooks-task calls are single steps: `RddChange`
(`rdd_attached`/`rdd_detached`), `ChipsetChange`, `CcdPhyInit`.
`ChipsetChange` is the chipset hooks `disable_ap_usb` and `enable_ap_usb`:
on a board with AP USB and CCD disabled, the AP going off releases the
controller if it is initialized, and the AP coming on initializes it if it
is not. The
console's `ccd` command is `CmdUart`, `CmdI2c`, `CmdKeepalive` and `CmdCcd`.
`DeviceChange` and `ExtDrive` are the environment.

**Scheduling.** The console task has a higher priority than the hooks task on
cr50. `ConsolePreempts` says whether a console command may run while the
hooks task is inside `configure_ccd`. The caller of `ccd_mode_pin_changed`
lives outside this tree, so the passing run takes the cautious reading
(FALSE) and the race run the other one.

**Properties.**

* `TxNeedsCcd`: no UART TX is connected while CCD is disabled.
* `ApTxNeedsCcd`: the AP UART's TX is never connected while CCD is disabled,
  whatever the task priorities (`ccd uart` only touches the EC UART).
* `PinLowEnablesCcd`: a pin held low ends with CCD enabled for good.
* `KeepaliveHoldsCcd`: a keepalive in force ends with CCD enabled for good.

**Fairness.** Weak fairness on the hooks task, which runs every queued hook
and finishes a started `configure_ccd`. No fairness on the console or the
environment.

### `UpdaterVersions` and `UsbUpdater` (with `MCUpdaterVersions`, `MCUsbUpdater`)

The host side of a firmware update over USB.

**`UpdaterVersions`.** The pure part:

* `ANewerThanB` is `a_newer_than_b`. It is a recursive function over the
  three version fields, with the 0xffffffff filter (`Filtered`, with width
  `W`).
* `PickSections` is `pick_sections`.

**`UsbUpdater`.** The host is `hpc` (where it is in `main`), `pos` (the block
in the section plan), `tries`, `result`, and the two endpoints `to_target`
and `to_host` as FIFO sequences. The target keeps `written` and `tstate`.
The host's actions are:

* `SetupConnection`: `setup_connection` fails on a USB error or a timeout
  of the first exchange (`UsbErrors`, `Timeouts`), on a short reply, a
  non-zero status or a protocol below 5; otherwise it starts the transfer;
* the block loop of `transfer_section`/`transfer_block`: `SendBlock`, then
  `AwaitReply`;
* `SendDone`, `DoneWait`, `Reset`, `ResetWait` and `VendorWait` for
  `generate_reset_request` and its protocol-version branches.

The target (`TargetBlock`, `TargetDone`, `TargetVendor`) is firmware outside
this tree. It is modelled from the protocol: it answers each request in
order, may fail a block (`TargetFails`), and reboots without replying to the
second stop request.

**Timeouts.** `Timeouts` lets the host's 1000 ms read give up while the
target's reply is still coming. The reply then stays in `to_host`, as it
stays in the IN endpoint.

**Properties.**

* `NewerMatchesReference`: `ANewerThanB` is the lexicographic order of the
  filtered fields (`MCUpdaterVersions` checks it on all 4096 pairs over
  {0, 1, all-ones - 1, all-ones}: zero, one, the largest version a field
  can hold and the uninitialized marker).
* `SuccessMeansWritten`: reporting `all_updated` means every planned block
  was written.
* `UpdateRefinement`: `UsbUpdater` implements `UpdaterAbstract` under the
  mapping `pos`, `written`, `result` (`Abs == INSTANCE UpdaterAbstract
  WITH ...`).
  * The abstract spec has four actions: the target writes a plan block
    (`Write`), the tool moves past a block already written (`Advance`), the
    tool gives up (`Abort`), and the tool reports after the last block
    (`Complete`).
  * Retries, the stop requests and the reset request are stuttering steps.
  * `updater_late_reply` breaks it: a late reply makes the host advance past
    a block that was not written.
* `AdvanceAcknowledged` (an action property): the host moves past a block
  only on a reply with status 0 for a plan block at or before the new
  position that the target has written. It holds with late replies, target
  failures and USB errors.
* `HostTerminates`: the tool always exits. It holds under weak fairness of
  the host and of the target, which always processes what it has received.

### `SouthbridgeBootblock` (with `MCSouthbridgeBootblock`)

`bootblock_southbridge_init` of the Intel ICH10 (`i82801jx/bootblock.c`).

* **State.**
  * `cfg` is PCI configuration space, byte by byte: the bytes at
    0xd0-0xd3, 0xdc-0xdf and 0xf0-0xf3 of D0:F0, D31:F0 and D31:F2.
  * `tsc` is what `rdtsc()` returned.
  * `cfg0` keeps the space at reset, so that the result can be compared to
    it.
  * `pc` is the next of the three calls.
* **Accessors.** `pci_write_config32` is four byte writes, low byte first.
  `pci_read_config8` and `pci_write_config8` touch one byte. The model
  writes them as `WriteConfig32`, `ReadConfig8` and `WriteConfig8`.
* **Actions.** There is one action per call, in the order of the source:
  * `StoreInitialTimestamp`: the two TSC halves go to SKPAD (D0:F0 0xdc) and
    the SATA scratchpad (D31:F2 0xd0).
  * `EnableSpiPrefetch`: the 8-bit read-modify-write of BIOS_CNTL
    (D31:F0 0xdc), `reg8 &= ~(3 << 2); reg8 |= (2 << 2)`. It is written as
    arithmetic (`SpiPrefetchValue`).
  * `EnableRcba`: the write of `DEFAULT_RCBA | 1` to D31:F0 0xf0.
* **Constants.** `rdtsc()` is a choice from `TscValues`. `DefaultRcba`
  comes from `i82801jx.h`, which is not in the repository.
* **End of the model.** It stops when the function returns, so the run does
  not check deadlock.
* **Property.** `SouthbridgeInitDone` relates the final space to the space
  at reset:
  * the TSC can be rebuilt from the two scratchpads;
  * bits 3:2 of BIOS_CNTL are 0b10 and its other bits are unchanged;
  * RCBA holds `DEFAULT_RCBA` with bit 0 set;
  * no other modelled byte changed.

  SKPAD and BIOS_CNTL share the offset 0xdc on two devices. The mutant that
  writes the low TSC half to D31:F0 shows the point: the later 8-bit write
  changes the timestamp's low byte, and the property fails.

### `FchResetDefaults`

The two constant tables of `ResetDefYangtze.c`, written as records.

* **The tables.**
  * `FchResetInterfaceDefault` holds the six controller switches.
  * `InitResetCfgDefault` is the "failsafe" InitReset data block.
  * The C positional initialisers are read against the member names in the
    comments beside them.
* **Outside the repository.** The declarations of the structures, and the
  code that copies the interface into the block, are not in the repository.
  So the module has no actions. It states and proves facts about the data:
  * `FailsafeWithinInterface`: the failsafe switches are a subset of the
    interface defaults, and they differ exactly on IDE and GPP;
  * `FailsafeGppOff`: the failsafe block keeps GPP off at every level.

## Runs

Each run and what it shows is in `runs` of `PROJECT.json`. There are nine
passing runs and three violation runs.

| run | config | result |
|---|---|---|
| `debug_mode` | Timeout 3, Vup/Vdn only | `HitCountInv`, `TimeoutArmed`, `TimedStatesEnd` hold (633 states) |
| `debounce` | 2 buttons, opposite polarity, debounce 2 ticks | `WakeupPending`, `DeadlinesServiced` hold (4488 states) |
| `charger_safety` | ISL9237, no PSYS, HW ramp, I2C may fail, two values | `LearnModeConsistent` holds |
| `charger_tasks` | ISL9238 with HW ramp, PSYS and amonbmon, no I2C failure | `TypeOK` holds (no register is written with 0 V) |
| `ccd` | console does not preempt `configure_ccd` | `TxNeedsCcd`, `PinLowEnablesCcd`, `KeepaliveHoldsCcd` hold (9168 states) |
| `updater_versions` | W = 3, fields {0,1,6,7} | `NewerMatchesReference` holds (4096 pairs) |
| `updater_safety` | protocol 6, target and USB errors, no timeout, 8+4 blocks | `SuccessMeansWritten` holds |
| `updater_liveness` | protocol 5, timeouts and errors, 2 retries | `TypeOK`, `HostTerminates`, `AdvanceAcknowledged` hold |
| `southbridge_bootblock` | 6 reset values of BIOS_CNTL (every value of bits 3:2), other bytes 0 or 0xff, 3 TSC values | `SouthbridgeInitDone` holds (144 states) |
| `debounce_lost_edge` | as `debounce` | `DebouncedFollowsLevel` **violated** |
| `charger_lost_learn` | PSYS, no amonbmon | `LearnModeConsistent` **violated** |
| `updater_late_reply` | protocol 6, timeouts | `SuccessMeansWritten` **violated** |

Eight more findings have their counterexample configurations on disk and are
not listed as runs (each is named in its finding):

* `MCCcdRace.cfg`: the console preempts `configure_ccd`, and `TxNeedsCcd`
  is violated.
* `MCButtonDebounceStarve.cfg`
* `MCDebugModeOther.cfg`
* `MCDebugModeTimeout.cfg`
* `MCCcdKeepRace.cfg`
* `MCCcdRelease.cfg`
* `MCCcdUsb.cfg`
* `MCUsbUpdaterProto5.cfg`

Run them with `tlc -config X.cfg MCModule`.

**The properties.**

* **`HitCountInv`.** The counter stays in 0..3. It is non-zero exactly while
  a sysrq sequence is under way. A staged SYSRQ_EXEC always has a hit, so at
  most three sysrq-x are sent per session.
* **`TimeoutArmed`.** In CHECK and STAGING, a handler call is pending no later
  than the deadline.
* **`WakeupPending`.** Outside the deferred routine, every button that waits
  to be debounced has a call pending, and `next_deferred_time` is that call's
  time.
* **`DeadlinesServiced`.** Once all levels are stable, every deadline is
  eventually serviced.

Each property of a passing run has a mutant in `mutants` that TLC finds
violated. Each mutant is a plausible slip in the mapped code:

* a timer that is not clamped;
* the hit cap tested one hit late;
* STAGING not re-arming;
* only STAGING armed;
* the `next_deferred_time <= time_now` test dropped;
* the reschedule after the loop dropped;
* the charger's learn-mode flag set although the CONTROL1 write failed;
* the voltage not capped to `voltage_min`;
* `uartn_tx_connect` without its CCD test;
* the keepalive test made on either pin edge;
* `ccd keepalive 1` driving the pin without attaching;
* `a_newer_than_b` without its early "less" return;
* a block reply accepted whatever its status;
* the retry bound tested one try late;
* `transfer_section` not advancing.

**Bounds.** `Timeout = 3` and a debounce of 2 ticks are long enough for the
following to happen:

* a button change to land while a timeout is pending;
* an interrupt to land while a deferred call is pending but not yet due;
* STAGING to re-arm with a partial delay.

For the other models:

* **Charger.** Two register values and every CONTROL1 boot value are enough
  for each task to read a stale CONTROL1 before another's write.
* **CCD.** Every pin level, device state and console command is enumerated.
* **Updater.** Two blocks per RW section and one per RO section, with two
  retries, let a late reply shift a later block's. The 8+4 blocks of
  `updater_safety` only lengthen the run.

Two buttons are the fewest for which one button's edges can interfere with
another's deadline. Opposite polarities cover both branches of
`raw_button_pressed`. Larger values only repeat the same orders of events.

**Fairness.**

* **Weak fairness on the hooks task's actions.** The hooks task runs every
  deferred call that is due, and it runs a started routine to its end.
* **Strong fairness on `Tick`.** Time does not stop. `Tick` is disabled
  whenever a call is due, so weak fairness would let a behaviour that keeps
  making a call due stop time.
* **No fairness on the environment.** Button edges and the power button are
  never forced.

## Findings

Found while modelling; the details are in `findings`:

1. **A lost edge** (`button.c:220`). An interrupt between the sample at 199
   and the clear at 220 has its deadline erased. The last press or release is
   then never reported.
2. **Starvation** (`button.c:253`). `next_deferred_time <= time_now` is
   taken to mean "nothing pending" while a due call has not yet run. Edges of
   one button can therefore postpone the debounce of another button forever.
3. **CHECK can get stuck** (`button.c:208`). On a board with a button other
   than Vup/Vdn, that button's change replaces the CHECK timeout call with a
   zero-delay call. That call re-arms nothing.
4. **Debug mode never times out** (`button.c:527`). ACTIVE and the PATH
   states arm no deferred call.
5. **A lost learn-mode flag** (`isl923x.c:364`). The PSYS hook's
   read-modify-write of CONTROL1 can overwrite `charger_discharge_on_ac`'s
   write with a stale value. The driver then believes learn mode is on while
   the chip is off it.
6. **A console race in `configure_ccd`** (`rdd.c:134`). `ccd uart 1` run
   between the UART disconnect and the mode change leaves the EC TX driven
   with CCD disabled.
7. **A keepalive lost in the same window** (`rdd.c:263`).
8. **CCD never released** (`rdd.c:271`). A keepalive taken while another
   driver held CCD_MODE_L swallows the pin's release, and `ccd keepalive 0`
   does not replay it.
9. **A USB flag out of step** (`rdd.c:200`). `ccd_phy_init(0)` with the AP
   off clears `usb_is_initialized` without releasing the controller.
10. **A late reply taken for the next** (`usb_updater.c:628`). A reply after
    the 1 s timeout is read as the answer to the retry. A failed last block is
    then reported as updated.
11. **Protocol 5 always exits with an error** (`usb_updater.c:1163`). The
    second stop request waits for a reply the target never sends.

## Proofs

`DebugModeProofs` proves three theorems for every `DEBUG_TIMEOUT` > 0. The
first two hold on either kind of board (the assumptions `TimeoutAssumption` and
`OtherButtonAssumption`):

**`TypeCorrect`: `Spec => []TypeOK`.**

* `TypeStep` shows that each action keeps the types.
* The handler cases rest on `TransitionType` and `HandleType`.

**`HitCountSafe`: `Spec => []HitCountInv`.**

* The inductive invariant is `IInv == TypeOK /\ HitCountInv`. `HitCountInv`
  needs `TypeOK` to bound the counter in arithmetic.
* `TransitionHit` shows that `debug_mode_transition` keeps `HitCountInv`
  whenever its argument satisfies `TransitionPre`.
* `TransitionPre` says:
  * a non-zero count may only be carried into STAGING of a sysrq state;
  * a staged SYSRQ_EXEC needs a hit.
* `HandleHit` shows, case by case over the switch, that every call that
  `debug_mode_handle` makes meets `TransitionPre` in a state satisfying
  `IInv`.

**`TimeoutArmedSafe`: `~HasOtherButton => (Spec => []TimeoutArmed)`.**

* The hypothesis is needed. With a third button, a press of that button
  during the Vup+Vdn hold cancels the pending call (`MCDebugModeOther.cfg`
  shows the violation).
* `TimeoutArmed` alone is not inductive. The inductive invariant `TInv`
  adds two conjuncts:
  * `CheckArmed`: in CHECK the power button is not pressed. A pending call
    means both volume buttons are held and the call is due at the hold
    deadline. No pending call means the hold is broken or has no deadline.
  * `NextUntimed`: `next_debug_state` is never CHECK or STAGING.
* `TransitionArmed` shows that `debug_mode_transition` arms the call for a
  timed state. `HandleArmed` shows, switch case by switch case, that
  `debug_mode_handle` keeps `TInv` on the buttons it is given.
* `ButtonChange` ranges over `(SUBSET ReportedButtons) \ {{}}`. The
  parentheses matter to the prover, which otherwise reads the set
  difference inside the `SUBSET`.

`ButtonDebounceProofs` proves **`TypeCorrect`** and **`WakeupSafe`:
`Spec => []WakeupPending`**. Both hold for every number of buttons, debounce
time and polarity (`ButtonCountAssumption`).

* The inductive invariant adds three conjuncts to `TypeOK` and
  `WakeupPending`:
  * `UpdateInRange`: the loop index is a button while a button is updated.
  * `NoCallPassed`: with no call scheduled, `next_deferred_time` is 0.
  * `ScannedCovered`: while `button_change_deferred` runs its loop, each
    button it has already passed that still waits has its wakeup recorded,
    in `soonest` or in a call scheduled by an interrupt.
* One lemma per action. The interrupt lemma is the one that needs
  `NoCallPassed`: `button_interrupt` only schedules a call when it finds
  `next_deferred_time` later than the new deadline.

`ChargerProofs` proves two theorems for every set of values, every
CONTROL1 found at boot, with or without the hardware ramp and I2C failures:

**`TypeCorrect`: `Spec => []TypeOK`**, in every configuration.

* It needs a stronger type invariant `TypeInv`. `OptOp` says which
  operations can be in the option read-modify-write. `IcVal` says the
  value on its way to the input-current register is one of `Values`.

**`LearnSafe`: `~HasPsys /\ ~HasAmonBmon => (Spec => []LearnModeConsistent)`.**

* The hypothesis is needed. Either option adds a second task that does a
  read-modify-write of CONTROL1. Its stale read can undo learn mode
  (`charger_lost_learn`, `MCChargerLost.cfg`). TLC also finds the violation
  with amonbmon alone.
* The inductive invariant adds two conjuncts:
  * `TasksIdle`: a task that is compiled out stays idle.
  * `OptionC1Current`: while `learn_mode` holds, a pending option write
    carries the current CONTROL1. Learn mode cannot be switched on between
    the read and the write.

`CcdProofs` proves two theorems for every board (`HasApUsb`):

**`TypeCorrect`: `Spec => []TypeOK`**, for every task priority. It rests on
`TypeStep`, one case per action.

**`ApTxNeedsCcdSafe`: `Spec => []ApTxNeedsCcd`**, for every board and every
task priority: the console may run between any two steps of `configure_ccd`.

* `ApTxNeedsCcd` alone is not inductive: nothing in it says the AP pin is
  already disconnected when `ConfigureDisableMode` clears the mode.
* The inductive invariant `IInv` adds one conjunct: by `dis_flags` and
  `dis_mode` the AP pin is disconnected (`ConfigureDisableAp` did it).
* `TxConnectedNeedsCcd` shows that `uartn_tx_connect` connects a pin only if
  it already was connected, or it is the UART it is called for and CCD is
  enabled. The console's `ccd uart` calls it for the EC UART only, so a
  preempting console leaves the AP pin as it was.
* The same statement for the EC UART (`TxNeedsCcd`) is false under
  preemption (`MCCcdRace.cfg`), and is only model-checked, by the `ccd`
  run, with the console kept out of `configure_ccd`.

`UsbUpdaterProofs` proves two theorems for every image, target version,
block plan, retry bound and protocol version, with late replies, target
failures and USB errors all allowed.

* `PlanSeq` shows that `Plan` is a sequence, from `ConcatProperties`.
* **`AdvanceAcknowledgedSafe`: `Spec => AdvanceAcknowledged`.**
  * The inductive invariant `KInv` adds to `TInv` that every message on the
    link belongs to the transfer (`Transfer`): a request is for a plan
    block at or before `pos` (`BlockReq`), and a reply with status 0 names
    a block the target has written (`AckReply`), since the target only
    answers 0 after writing.
  * `PlanUpToGrows` and `LeavesTransfer` show that these facts survive the
    host moving forward and the target appending to `written`.
  * `KHostStep` and `KTargetStep` take one case per action. The step that
    moves `pos` is an accepted reply, whose head meets `AckReply`.
* **`TypeCorrect`: `Spec => []TypeOK`.** It has no hypothesis: late
  replies, target errors and USB errors are all allowed.
  * The inductive invariant `TInv` types the messages more finely than
    `TypeOK`. A block request carries a block id (`TargetMsg`), so a
    `TargetBlock` adds a block id to `written`.
  * It also says that `pos <= Len(Plan)` while the host awaits a reply,
    so an accepted reply moves `pos` at most one past the plan.
  * `HostStepType` and `TargetStepType` take one case per action.
    `AppendProperties`, `HeadTailProperties` and `SeqMonotonic` of
    `SequenceTheorems` do the sequence work.
* The stronger statements, `SuccessMeansWritten` and the refinement
  `UpdateRefinement`, need the absence of late replies (`Timeouts` FALSE)
  and are only model-checked; `updater_late_reply` shows them fail with
  timeouts.

`UpdaterVersionsProofs` proves what `a_newer_than_b` computes, for every
field width `W` (`WidthAssumption`, W > 0):

* **`NewerIsNumericOrder`.** On any two versions of W-bit fields,
  `ANewerThanB(a, b)` holds exactly when `a`'s fields, filtered, spell a
  larger number in base 2^W than `b`'s (`VersionNumber`).
* **`NewerMatchesSafe`: `Spec => []NewerMatchesReference`.** It is the
  run's invariant for every `W`. It follows from `NewerIsNumericOrder`,
  because the run's field values are W-bit values.
* The argument has three lemmas. None needs induction:
  * `NewerUnrolled`. The loop is a recursive function on the finite domain
    1..4. The prover's definition of it is a `CHOOSE`. The lemma shows
    that any function satisfying the recursion equation takes the
    written-out values at 4, 3, 2 and 1, so the loop is the three-field
    `IF` chain.
  * `BaseAtLeastTwo`. 2^W is a natural of at least 2. The prover knows
    nothing of `^`, so this comes from `FS_SUBSET`: 2^W is the number of
    subsets of 1..W, and there are at least the two subsets {} and {1}.
  * `DigitOrder`. Two-digit numbers in base B compare as their digits do.
    Applying it twice gives the three fields.
* `FilteredDigit` shows that a filtered W-bit field is a digit: the
  all-ones value becomes 0.

`SouthbridgeBootblockProofs` proves **`InitDoneSafe`:
`Spec => []SouthbridgeInitDone`** and `TypeCorrect`. They hold for every
TSC value, every `DEFAULT_RCBA` and every content of configuration space at
reset, not only the values of the run.

* The inductive invariant `IInv` gives the configuration space at each point
  of the straight-line code. At each `pc` it is the reset space with the
  writes done so far (`AfterTimestamp`, `AfterPrefetch`, `AfterRcba`).
* `AfterRcbaAt` computes each byte of the final space by where the byte
  lies.
* `SpiPrefetchBits` is the bit-level fact. The read-modify-write gives a
  byte whose bits 3:2 are 0b10 and whose other bits are those it read.

`FchResetDefaults` proves `FailsafeWithinInterface` and `FailsafeGppOff`
about the constant tables. These two theorems check data, not behaviour.

The following are only model-checked, on the instances above:

* **Liveness.** `TimedStatesEnd`, `DeadlinesServiced`, the `Ccd` liveness
  properties and the updater's `HostTerminates`. TLAPS does not handle
  liveness under fairness or ENABLED.
* **`SuccessMeansWritten`, `UpdateRefinement` and `TxNeedsCcd`**, on the
  instances of their runs.
* **Configurations outside the hypotheses.** There `TimeoutArmed` (with a
  third button) and `LearnModeConsistent` (with PSYS or amonbmon) are false.
  TLC finds the counterexamples with `MCDebugModeOther.cfg` and
  `MCChargerLost.cfg`.

## Not modelled, and the plan

Hazards with no property yet are listed in `hazards`, each with a note. Still
to do:

* **Recovery detection.** `is_recovery_boot` and
  `button_check_hw_reinit_required`.
* **The `button` console command.** Its shared toggle
  `simulated_button_pressed` is read by every raw sample.
* **Composition.** Compose debounce and debug mode into one module, and refine
  it to an abstract "gesture" spec of debug mode.
* **The rest of the updater.** The TPM (`/dev/tpm0`) path and the board-ID
  vendor commands.
* **The rest of `rdd.c`.** The sysrst/ecrst/powerbtn pulse commands.
* **More proofs.** The refinement of `Ccd` to an abstract CCD-state spec,
  once one is written.
* **Left out on purpose.**
  * The 64-bit timestamps torn on a 32-bit core: the models keep whole
    timestamps.
  * The LED blinking: it changes no state the other code reads.
  * The headers, including `cbfs.h`: they hold only declarations.
  * The kahlee `bootblock_mainboard_init`: three calls, in order, to
    functions that are not in the repository. Their effects are unknown, so
    a model could only restate the order of the three lines.
  * The consumer of the AGESA tables, and the member order of
    `FCH_RESET_DATA_BLOCK`. Both are in `FchPlatform.h` and the FCH code,
    which are not in the repository. The commented-out initialisers at
    line 102 are listed as a hazard for that reason.
