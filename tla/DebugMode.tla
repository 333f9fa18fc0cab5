----------------------------- MODULE DebugMode -----------------------------
(***************************************************************************)
(* The emulated-sysrq debug-mode state machine of common/button.c          *)
(* (CONFIG_EMULATED_SYSRQ): debug_mode_handle() and                        *)
(* debug_mode_transition().  Holding Vup+Vdn for DEBUG_TIMEOUT enters      *)
(* debug mode; taps of Vup / Vdn, each followed by a full release (the     *)
(* STAGING state), then send sysrq-x to the host or warm-reset it.         *)
(*                                                                         *)
(* Time is kept relative to "now": debug_state_deadline is the number of   *)
(* ticks left until timestamp_expired(debug_state_deadline) holds (0 =     *)
(* expired), and handle_deferred the ticks left until the deferred call of *)
(* debug_mode_handle is due (NoCall = none pending).                       *)
(*                                                                         *)
(* The buttons are the environment: the debounced Vup/Vdn state changes    *)
(* (button_change_deferred then calls hook_call_deferred(debug_mode_handle,*)
(* 0)), the power button changes (HOOK_POWER_BUTTON_CHANGE calls           *)
(* debug_mode_handle directly), and, on a board whose buttons[] holds a    *)
(* button other than Vup/Vdn, that button's debounced state changes (also  *)
(* hook_call_deferred(debug_mode_handle, 0)).                              *)
(***************************************************************************)
EXTENDS Integers

CONSTANTS
    Timeout,         \* DEBUG_TIMEOUT, in ticks
    HasOtherButton   \* buttons[] holds a button other than Vup and Vdn

ASSUME TimeoutAssumption == Timeout \in Nat \ {0}
ASSUME OtherButtonAssumption == HasOtherButton \in BOOLEAN

\* enum debug_state
STATE_DEBUG_NONE        == "DEBUG_NONE"
STATE_DEBUG_CHECK       == "DEBUG_CHECK"
STATE_STAGING           == "STAGING"
STATE_DEBUG_MODE_ACTIVE == "DEBUG_MODE_ACTIVE"
STATE_SYSRQ_PATH        == "SYSRQ_PATH"
STATE_WARM_RESET_PATH   == "WARM_RESET_PATH"
STATE_SYSRQ_EXEC        == "SYSRQ_EXEC"
STATE_WARM_RESET_EXEC   == "WARM_RESET_EXEC"

DebugStates == {STATE_DEBUG_NONE, STATE_DEBUG_CHECK, STATE_STAGING,
                STATE_DEBUG_MODE_ACTIVE, STATE_SYSRQ_PATH,
                STATE_WARM_RESET_PATH, STATE_SYSRQ_EXEC,
                STATE_WARM_RESET_EXEC}

\* The bits of debug_button_mask(), as the set of buttons pressed.
DEBUG_BTN_POWER  == "POWER"
DEBUG_BTN_VOL_UP == "VOL_UP"
DEBUG_BTN_VOL_DN == "VOL_DN"
DebugButtons == {DEBUG_BTN_POWER, DEBUG_BTN_VOL_UP, DEBUG_BTN_VOL_DN}

\* hook_call_deferred(..., -1): no call pending.
NoCall == -1

\* What one step sent to the host: sysrq-x events and warm resets.
NoEmit == [sysrq |-> 0, reset |-> FALSE]

VARIABLES
    curr_debug_state,
    next_debug_state,
    debug_state_deadline,   \* ticks until the deadline expires
    debug_button_hit_count,
    handle_deferred,        \* ticks until debug_mode_handle is due, or NoCall
    pressed,                \* the buttons debug_button_mask() reports
    emitted                 \* what the last step sent to the host

vars == <<curr_debug_state, next_debug_state, debug_state_deadline,
          debug_button_hit_count, handle_deferred, pressed, emitted>>

TypeOK ==
    /\ curr_debug_state \in DebugStates
    /\ next_debug_state \in DebugStates
    /\ debug_state_deadline \in 0..Timeout
    /\ debug_button_hit_count \in Nat
    /\ handle_deferred \in {NoCall} \cup 0..Timeout
    /\ pressed \subseteq DebugButtons
    /\ emitted \in [sysrq : Nat, reset : BOOLEAN]

Expired == debug_state_deadline = 0

\* Variants of the definitions below, each a plausible slip in the code:
\* the cap tested one hit too late, only STAGING re-armed, and STAGING not
\* rescheduling its timeout.
SysrqHitLimitLate == 5
ArmedStatesStagingOnly == {STATE_STAGING}

\* debug_mode_transition(STATE_SYSRQ_PATH) gives up at this hit.
SysrqHitLimit == 4

\* The states for which debug_mode_transition() arms the DEBUG_TIMEOUT call.
ArmedStates == {STATE_DEBUG_CHECK, STATE_STAGING}

-----------------------------------------------------------------------------
(***************************************************************************)
(* debug_mode_transition(ns), called while next_debug_state = nxt.  The    *)
(* pending deferred call is cancelled and re-armed for CHECK and STAGING   *)
(* only; SYSRQ_PATH counts a hit and gives up at the 4th; the EXEC states  *)
(* act and fall back to NONE, which clears the other variables.            *)
(***************************************************************************)
Transition(ns, nxt) ==
    LET hit == CASE ns = STATE_DEBUG_MODE_ACTIVE -> 0
                 [] ns = STATE_SYSRQ_PATH -> debug_button_hit_count + 1
                 [] OTHER -> debug_button_hit_count
        final == IF \/ ns \in {STATE_SYSRQ_EXEC, STATE_WARM_RESET_EXEC}
                    \/ ns = STATE_SYSRQ_PATH /\ hit = SysrqHitLimit
                 THEN STATE_DEBUG_NONE
                 ELSE ns
    IN  /\ curr_debug_state' = final
        /\ handle_deferred' = IF ns \in ArmedStates THEN Timeout ELSE NoCall
        /\ emitted' = [sysrq |-> IF ns = STATE_SYSRQ_EXEC THEN hit ELSE 0,
                       reset |-> ns = STATE_WARM_RESET_EXEC]
        /\ IF final = STATE_DEBUG_NONE
           THEN /\ next_debug_state' = STATE_DEBUG_NONE
                /\ debug_state_deadline' = 0
                /\ debug_button_hit_count' = 0
           ELSE /\ next_debug_state' = nxt
                /\ debug_state_deadline' = Timeout
                /\ debug_button_hit_count' = hit

\* A run of debug_mode_handle that changes no state; the deferred slot is
\* left at p.
Stay(p) ==
    /\ handle_deferred' = p
    /\ emitted' = NoEmit
    /\ UNCHANGED <<curr_debug_state, next_debug_state, debug_state_deadline,
                   debug_button_hit_count>>

(***************************************************************************)
(* debug_mode_handle(), one operator per case of its switch.  mask is what *)
(* debug_button_mask() returns, p the deferred slot when the handler       *)
(* starts.                                                                 *)
(***************************************************************************)
HandleNone(mask, p) ==
    /\ curr_debug_state = STATE_DEBUG_NONE
    /\ IF mask = {DEBUG_BTN_VOL_UP, DEBUG_BTN_VOL_DN}
       THEN Transition(STATE_DEBUG_CHECK, next_debug_state)
       ELSE Stay(p)

HandleCheck(mask, p) ==
    /\ curr_debug_state = STATE_DEBUG_CHECK
    /\ CASE mask # {DEBUG_BTN_VOL_UP, DEBUG_BTN_VOL_DN} ->
              Transition(STATE_DEBUG_NONE, next_debug_state)
         [] Expired -> Transition(STATE_STAGING, STATE_DEBUG_MODE_ACTIVE)
         [] OTHER -> Stay(p)

HandleStagingNoRearm(mask, p) ==
    /\ curr_debug_state = STATE_STAGING
    /\ CASE mask = {} -> Transition(next_debug_state, next_debug_state)
         [] Expired -> Transition(STATE_DEBUG_NONE, next_debug_state)
         [] OTHER -> Stay(p)

HandleStaging(mask, p) ==
    /\ curr_debug_state = STATE_STAGING
    /\ CASE mask = {} -> Transition(next_debug_state, next_debug_state)
         [] Expired -> Transition(STATE_DEBUG_NONE, next_debug_state)
         [] OTHER -> Stay(debug_state_deadline)

\* The three PATH states share one shape: wait while nothing is pressed and
\* the deadline has not expired, leave on any mask but the two allowed, and
\* otherwise stage the state chosen by the button pressed.
HandlePath(st, mask, p, onUp, onDn) ==
    /\ curr_debug_state = st
    /\ CASE mask = {} /\ ~Expired -> Stay(p)
         [] mask = {DEBUG_BTN_VOL_UP} /\ onUp # STATE_DEBUG_NONE ->
              Transition(STATE_STAGING, onUp)
         [] mask = {DEBUG_BTN_VOL_DN} /\ onDn # STATE_DEBUG_NONE ->
              Transition(STATE_STAGING, onDn)
         [] OTHER -> Transition(STATE_DEBUG_NONE, next_debug_state)

HandleExec(p) ==
    /\ curr_debug_state \in {STATE_SYSRQ_EXEC, STATE_WARM_RESET_EXEC}
    /\ Transition(STATE_DEBUG_NONE, next_debug_state)

Handle(mask, p) ==
    \/ HandleNone(mask, p)
    \/ HandleCheck(mask, p)
    \/ HandleStaging(mask, p)
    \/ HandlePath(STATE_DEBUG_MODE_ACTIVE, mask, p,
                  STATE_SYSRQ_PATH, STATE_WARM_RESET_PATH)
    \/ HandlePath(STATE_SYSRQ_PATH, mask, p,
                  STATE_SYSRQ_PATH, STATE_SYSRQ_EXEC)
    \/ HandlePath(STATE_WARM_RESET_PATH, mask, p,
                  STATE_WARM_RESET_EXEC, STATE_DEBUG_NONE)
    \/ HandleExec(p)

-----------------------------------------------------------------------------
Init ==
    /\ curr_debug_state = STATE_DEBUG_NONE
    /\ next_debug_state = STATE_DEBUG_NONE
    /\ debug_state_deadline = 0
    /\ debug_button_hit_count = 0
    /\ handle_deferred = NoCall
    /\ pressed \in SUBSET DebugButtons
    /\ emitted = NoEmit

OTHER_BUTTON == "OTHER"

\* One run of button_change_deferred() reports a debounced change of the
\* buttons in chg (Vup, Vdn, or a button of buttons[] outside the mask) and
\* schedules debug_mode_handle with delay 0, replacing any pending call.
\* Debounce runs are at least a tick apart, and the hooks task runs the due
\* call first, so none is due when the next run reports.
ButtonChange(chg) ==
    /\ handle_deferred # 0
    /\ pressed' = (pressed \ chg) \cup ((chg \ pressed) \ {OTHER_BUTTON})
    /\ handle_deferred' = 0
    /\ emitted' = NoEmit
    /\ UNCHANGED <<curr_debug_state, next_debug_state, debug_state_deadline,
                   debug_button_hit_count>>

ReportedButtons ==
    {DEBUG_BTN_VOL_UP, DEBUG_BTN_VOL_DN} \cup
        (IF HasOtherButton THEN {OTHER_BUTTON} ELSE {})

\* The power button changes; HOOK_POWER_BUTTON_CHANGE runs debug_mode_handle
\* at once in the hooks task, with the new mask.
PowerButtonChange ==
    LET mask == IF DEBUG_BTN_POWER \in pressed
                THEN pressed \ {DEBUG_BTN_POWER}
                ELSE pressed \cup {DEBUG_BTN_POWER}
    IN  /\ pressed' = mask
        /\ Handle(mask, handle_deferred)

\* The hooks task runs the due deferred call; the slot is cleared first.
HandleDeferred ==
    /\ handle_deferred = 0
    /\ Handle(pressed, NoCall)
    /\ UNCHANGED pressed

\* One tick of time.  The hooks task runs a due deferred call before the
\* clock advances by a tick.
Dec(x) == IF x > 0 THEN x - 1 ELSE x

Tick ==
    /\ handle_deferred # 0
    /\ debug_state_deadline' = Dec(debug_state_deadline)
    /\ handle_deferred' = Dec(handle_deferred)
    /\ emitted' = NoEmit
    /\ UNCHANGED <<curr_debug_state, next_debug_state, debug_button_hit_count,
                   pressed>>

Next ==
    \/ \E chg \in (SUBSET ReportedButtons) \ {{}} : ButtonChange(chg)
    \/ PowerButtonChange
    \/ HandleDeferred
    \/ Tick

\* The hooks task runs due deferred calls, and time does not stop.
Fairness == WF_vars(HandleDeferred) /\ SF_vars(Tick)

Spec == Init /\ [][Next]_vars /\ Fairness

-----------------------------------------------------------------------------
(***************************************************************************)
(* Properties.                                                             *)
(***************************************************************************)

\* The hit counter of the sysrq path never passes 3 (the cap of
\* debug_mode_transition(STATE_SYSRQ_PATH)), is non-zero exactly while a
\* sysrq sequence is under way, and a SYSRQ_EXEC that is staged always has a
\* hit to send: so at most 3 sysrq-x go out per session and none go out
\* unless a Vup tap was counted.
HitCountInv ==
    /\ debug_button_hit_count \in 0..3
    /\ debug_button_hit_count > 0 =>
         \/ curr_debug_state = STATE_SYSRQ_PATH
         \/ /\ curr_debug_state = STATE_STAGING
            /\ next_debug_state \in {STATE_SYSRQ_PATH, STATE_SYSRQ_EXEC}
    /\ \/ curr_debug_state = STATE_SYSRQ_PATH
       \/ curr_debug_state = STATE_STAGING /\ next_debug_state = STATE_SYSRQ_EXEC
       => debug_button_hit_count > 0
    /\ emitted.sysrq \in 0..3

\* While the machine is checking the Vup+Vdn hold or waiting in STAGING for
\* the buttons to be released, a deferred debug_mode_handle call is pending
\* no later than the deadline, so the timeout is always noticed even if no
\* button changes again.
TimeoutArmed ==
    curr_debug_state \in {STATE_DEBUG_CHECK, STATE_STAGING} =>
        handle_deferred \in 0..debug_state_deadline

\* CHECK and STAGING are always left again (by the buttons or the timeout).
TimedStatesEnd ==
    \A s \in {STATE_DEBUG_CHECK, STATE_STAGING} :
        curr_debug_state = s ~> curr_debug_state # s

\* Debug mode ends on its own: once in ACTIVE or one of the PATH states, the
\* machine returns to NONE (the comments at button.c:526 and 551 speak of a
\* timeout there).
DebugModeTimesOut ==
    curr_debug_state \in {STATE_DEBUG_MODE_ACTIVE, STATE_SYSRQ_PATH,
                          STATE_WARM_RESET_PATH}
        ~> curr_debug_state = STATE_DEBUG_NONE
=============================================================================
