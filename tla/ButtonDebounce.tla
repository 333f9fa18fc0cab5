--------------------------- MODULE ButtonDebounce ---------------------------
(***************************************************************************)
(* The debounce engine of common/button.c: button_init(),                  *)
(* button_interrupt() (GPIO interrupt context) and button_change_deferred()*)
(* (the hooks task).  The interrupt preempts the deferred routine, so the  *)
(* routine's loop is split into the steps an interrupt can fall between:   *)
(* examining button i (lines 194-199, 221-230), updating it (200-220), and *)
(* rescheduling after the loop (233-237).                                  *)
(*                                                                         *)
(* Timestamps are kept relative to "now": debounce_time[b] is the number   *)
(* of ticks until the deadline (0 = elapsed, NoDebounce = the code's 0,    *)
(* "not waiting"), next_deferred_time the ticks until it is reached (0 =   *)
(* at or before now), change_deferred the ticks until the pending deferred *)
(* call of button_change_deferred is due (NoCall = none).  Only order      *)
(* matters to the code's comparisons, so this is exact.  The deferred      *)
(* routine runs in microseconds, so time does not advance while it runs.   *)
(***************************************************************************)
EXTENDS Integers

CONSTANTS
    N,            \* CONFIG_BUTTON_COUNT; buttons are 1..N in buttons[] order
    Debounce,     \* buttons[b].debounce_us, in ticks
    ActiveHigh    \* buttons[b].flags & BUTTON_FLAG_ACTIVE_HIGH

Buttons == 1..N

ASSUME ButtonCountAssumption == N \in Nat \ {0}
ASSUME DebounceAssumption == Debounce \in [Buttons -> Nat \ {0}]
ASSUME ActiveHighAssumption == ActiveHigh \in [Buttons -> BOOLEAN]

NoDebounce == -1   \* state[i].debounce_time == 0
NoCall == -1       \* no call of button_change_deferred pending

VARIABLES
    level,              \* gpio_get_level(buttons[b].gpio)
    debounce_time,      \* state[b].debounce_time
    debounced_pressed,  \* state[b].debounced_pressed
    next_deferred_time,
    change_deferred,    \* the hook slot of button_change_deferred
    pc,                 \* where the hooks task is in button_change_deferred
    i,                  \* its loop index
    new_pressed,        \* its local new_pressed
    soonest             \* its local soonest_debounce_time (0 = none)

vars == <<level, debounce_time, debounced_pressed, next_deferred_time,
          change_deferred, pc, i, new_pressed, soonest>>

\* raw_button_pressed(): the level read through the button's polarity.
RawPressed(b) == IF ActiveHigh[b] THEN level[b] ELSE ~level[b]

TypeOK ==
    /\ level \in [Buttons -> BOOLEAN]
    /\ debounce_time \in [Buttons -> {NoDebounce} \cup Nat]
    /\ debounced_pressed \in [Buttons -> BOOLEAN]
    /\ next_deferred_time \in Nat
    /\ change_deferred \in {NoCall} \cup Nat
    /\ pc \in {"idle", "scan", "update"}
    /\ i \in 1..N + 1
    /\ new_pressed \in BOOLEAN
    /\ soonest \in Nat

-----------------------------------------------------------------------------
\* button_init(): every button starts debounced at its current level.
Init ==
    /\ level \in [Buttons -> BOOLEAN]
    /\ debounced_pressed = [b \in Buttons |-> RawPressed(b)]
    /\ debounce_time = [b \in Buttons |-> NoDebounce]
    /\ next_deferred_time = 0
    /\ change_deferred = NoCall
    /\ pc = "idle"
    /\ i = 1
    /\ new_pressed = FALSE
    /\ soonest = 0

(***************************************************************************)
(* The level of button b changes and its GPIO interrupt runs               *)
(* button_interrupt(): a new deadline, and the deferred call moved earlier *)
(* if next_deferred_time has passed or lies after the new deadline.  The   *)
(* interrupt may fall anywhere between the steps of the hooks task.        *)
(***************************************************************************)
\* Variant: the "next_deferred_time <= time_now" test left out.
ReschedulesDeferredNoElapsedTest(b) == next_deferred_time > Debounce[b]

\* The test of button_interrupt() for moving the deferred call earlier.
ReschedulesDeferred(b) ==
    next_deferred_time = 0 \/ next_deferred_time > Debounce[b]

ButtonInterrupt(b) ==
    /\ level' = [level EXCEPT ![b] = ~@]
    /\ debounce_time' = [debounce_time EXCEPT ![b] = Debounce[b]]
    /\ IF ReschedulesDeferred(b)
       THEN /\ next_deferred_time' = Debounce[b]
            /\ change_deferred' = Debounce[b]
       ELSE UNCHANGED <<next_deferred_time, change_deferred>>
    /\ UNCHANGED <<debounced_pressed, pc, i, new_pressed, soonest>>

\* The hooks task starts the due button_change_deferred; the slot is cleared.
DeferredStart ==
    /\ pc = "idle"
    /\ change_deferred = 0
    /\ change_deferred' = NoCall
    /\ pc' = "scan"
    /\ i' = 1
    /\ soonest' = 0
    /\ UNCHANGED <<level, debounce_time, debounced_pressed, next_deferred_time,
                   new_pressed>>

\* Button i: skipped if not debouncing, sampled if its deadline has passed,
\* otherwise counted into soonest_debounce_time.
DeferredScan ==
    /\ pc = "scan"
    /\ i <= N
    /\ CASE debounce_time[i] = NoDebounce ->
              /\ i' = i + 1
              /\ UNCHANGED <<pc, new_pressed, soonest>>
         [] debounce_time[i] = 0 ->
              /\ new_pressed' = RawPressed(i)
              /\ pc' = "update"
              /\ UNCHANGED <<i, soonest>>
         [] OTHER ->
              /\ soonest' = IF soonest = 0 \/ debounce_time[i] < soonest
                            THEN debounce_time[i] ELSE soonest
              /\ i' = i + 1
              /\ UNCHANGED <<pc, new_pressed>>
    /\ UNCHANGED <<level, debounce_time, debounced_pressed, next_deferred_time,
                   change_deferred>>

\* Button i, sampled: record the sampled level and stop debouncing it.
DeferredUpdate ==
    /\ pc = "update"
    /\ debounced_pressed' = [debounced_pressed EXCEPT ![i] = new_pressed]
    /\ debounce_time' = [debounce_time EXCEPT ![i] = NoDebounce]
    /\ i' = i + 1
    /\ pc' = "scan"
    /\ UNCHANGED <<level, next_deferred_time, change_deferred, new_pressed,
                   soonest>>

\* Variant: the loop's result dropped, nothing rescheduled.
DeferredFinishNoReschedule ==
    /\ pc = "scan"
    /\ i = N + 1
    /\ pc' = "idle"
    /\ UNCHANGED <<level, debounce_time, debounced_pressed, next_deferred_time,
                   change_deferred, i, new_pressed, soonest>>

\* After the loop: reschedule for the soonest deadline still pending, if any.
DeferredFinish ==
    /\ pc = "scan"
    /\ i = N + 1
    /\ IF soonest # 0
       THEN /\ next_deferred_time' = soonest
            /\ change_deferred' = soonest
       ELSE UNCHANGED <<next_deferred_time, change_deferred>>
    /\ pc' = "idle"
    /\ UNCHANGED <<level, debounce_time, debounced_pressed, i, new_pressed,
                   soonest>>

\* One tick of time; a due deferred call runs before the clock moves on.
Dec(x) == IF x > 0 THEN x - 1 ELSE x

Tick ==
    /\ pc = "idle"
    /\ change_deferred # 0
    /\ debounce_time' = [b \in Buttons |-> Dec(debounce_time[b])]
    /\ next_deferred_time' = Dec(next_deferred_time)
    /\ change_deferred' = Dec(change_deferred)
    /\ UNCHANGED <<level, debounced_pressed, pc, i, new_pressed, soonest>>

Next ==
    \/ \E b \in Buttons : ButtonInterrupt(b)
    \/ DeferredStart
    \/ DeferredScan
    \/ DeferredUpdate
    \/ DeferredFinish
    \/ Tick

\* The hooks task runs due deferred calls to completion; time advances.
Fairness ==
    /\ WF_vars(DeferredStart \/ DeferredScan \/ DeferredUpdate \/ DeferredFinish)
    /\ SF_vars(Tick)

Spec == Init /\ [][Next]_vars /\ Fairness

-----------------------------------------------------------------------------
(***************************************************************************)
(* Properties.                                                             *)
(***************************************************************************)

\* Outside button_change_deferred, every button that is waiting to be
\* debounced has a call of button_change_deferred pending, and
\* next_deferred_time is exactly when that call is due: the interrupt's
\* "next_deferred_time <= time_now" test reads a true value.
WakeupPending ==
    /\ pc = "idle" =>
         \A b \in Buttons : debounce_time[b] # NoDebounce => change_deferred # NoCall
    /\ change_deferred # NoCall => next_deferred_time = change_deferred

\* Once no button's level changes any more, every pending debounce is
\* eventually resolved: the deferred routine is never left unscheduled.
DeadlinesServiced ==
    \A v \in [Buttons -> BOOLEAN] :
        <>[](level = v) => <>[](\A b \in Buttons : debounce_time[b] = NoDebounce)

\* A button whose level stops changing is eventually resolved, whatever
\* the other buttons do (spec 4.1: the deferred routine resolves every
\* elapsed deadline when it runs; a late run is only ever slightly late).
DebounceNotStarved ==
    \A b \in Buttons : \A v \in BOOLEAN :
        <>[](level[b] = v) => <>[](debounce_time[b] = NoDebounce)

\* Once no button's level changes any more, every debounced state
\* eventually equals its button's level: no press or release is lost
\* (spec section 5).
DebouncedFollowsLevel ==
    \A v \in [Buttons -> BOOLEAN] :
        <>[](level = v) =>
            <>[](\A b \in Buttons : debounced_pressed[b] = RawPressed(b))

=============================================================================
