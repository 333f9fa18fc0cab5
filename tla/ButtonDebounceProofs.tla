------------------------- MODULE ButtonDebounceProofs -------------------------
(***************************************************************************)
(* Proofs about the debounce engine of ButtonDebounce, for every number of *)
(* buttons, every debounce time and every polarity.                        *)
(***************************************************************************)
EXTENDS ButtonDebounce, TLAPS

\* The hooks task only samples a button the loop has reached.
UpdateInRange == pc = "update" => i \in Buttons

\* next_deferred_time is 0 (passed) when no call is pending: so the first
\* interrupt after a run of button_change_deferred that left nothing to do
\* always schedules the next run.
NoCallPassed == change_deferred = NoCall => next_deferred_time = 0

\* Inside button_change_deferred (its slot already cleared), every button
\* the loop has passed that is still waiting either has counted into
\* soonest_debounce_time, which the end of the loop schedules, or an
\* interrupt since has scheduled a call.
ScannedCovered ==
    pc \in {"scan", "update"} =>
        \A b \in 1..i - 1 :
            debounce_time[b] # NoDebounce =>
                soonest # 0 \/ change_deferred # NoCall

IInv ==
    /\ TypeOK
    /\ UpdateInRange
    /\ WakeupPending
    /\ NoCallPassed
    /\ ScannedCovered
-----------------------------------------------------------------------------
\* The constants, as the proofs use them.
LEMMA ConstantFacts ==
    /\ N \in Nat \ {0}
    /\ \A b \in Buttons : Debounce[b] \in Nat \ {0}
    /\ \A b \in Buttons : ActiveHigh[b] \in BOOLEAN
BY ButtonCountAssumption, DebounceAssumption, ActiveHighAssumption

\* button_init() starts every button debounced, with nothing scheduled.
LEMMA InitIInv ==
    ASSUME Init
    PROVE  IInv
<1>1. \A b \in Buttons : RawPressed(b) \in BOOLEAN
  BY ConstantFacts DEF RawPressed, Init
<1>2. debounced_pressed \in [Buttons -> BOOLEAN]
  BY <1>1 DEF Init
<1>3. debounce_time \in [Buttons -> {NoDebounce} \cup Nat]
  BY DEF Init
<1>4. i \in 1..N + 1
  BY ButtonCountAssumption DEF Init
<1>5. TypeOK
  BY <1>2, <1>3, <1>4 DEF Init, TypeOK, NoCall
<1> QED
  BY <1>5 DEF Init, IInv, UpdateInRange, WakeupPending, NoCallPassed,
     ScannedCovered, NoDebounce, NoCall

\* A GPIO interrupt, wherever it falls: when no call is pending,
\* next_deferred_time is 0 and the call is always scheduled.
LEMMA InterruptStep ==
    ASSUME IInv, NEW b \in Buttons, ButtonInterrupt(b)
    PROVE  IInv'
<1>1. Debounce[b] \in Nat \ {0}
  BY ConstantFacts
<1>2. change_deferred = NoCall => ReschedulesDeferred(b)
  BY DEF IInv, NoCallPassed, ReschedulesDeferred
<1>3. change_deferred' # NoCall
  BY <1>1, <1>2 DEF ButtonInterrupt, NoCall
<1>4. TypeOK'
  BY <1>1 DEF ButtonInterrupt, IInv, TypeOK, NoDebounce
<1> QED
  BY <1>1, <1>3, <1>4 DEF ButtonInterrupt, IInv, UpdateInRange, WakeupPending,
     NoCallPassed, ScannedCovered, ReschedulesDeferred

\* button_change_deferred starts: its slot is cleared, and the call that
\* was due had made next_deferred_time 0.
LEMMA StartStep ==
    ASSUME IInv, DeferredStart
    PROVE  IInv'
<1>1. next_deferred_time = 0
  BY DEF DeferredStart, IInv, WakeupPending, NoCall
<1> QED
  BY <1>1, ButtonCountAssumption DEF DeferredStart, IInv, TypeOK, UpdateInRange, WakeupPending,
     NoCallPassed, ScannedCovered, NoCall

\* One button examined by the loop.
LEMMA ScanStep ==
    ASSUME IInv, DeferredScan
    PROVE  IInv'
<1> USE ButtonCountAssumption DEF IInv, TypeOK
<1>0. i \in Buttons /\ pc = "scan"
  BY DEF DeferredScan, Buttons
<1>a. NoDebounce # 0 /\ NoDebounce \notin Nat
  BY DEF NoDebounce
<1>1. CASE debounce_time[i] = NoDebounce
  <2>1. /\ i' = i + 1
        /\ UNCHANGED <<pc, new_pressed, soonest, level, debounce_time,
                       debounced_pressed, next_deferred_time, change_deferred>>
    BY <1>1, <1>a, Zenon DEF DeferredScan
  <2> QED
    BY <1>0, <1>1, <2>1 DEF UpdateInRange, WakeupPending, NoCallPassed,
       ScannedCovered, Buttons
<1>2. CASE debounce_time[i] = 0
  <2>1. /\ new_pressed' = RawPressed(i)
        /\ pc' = "update"
        /\ UNCHANGED <<i, soonest, level, debounce_time, debounced_pressed,
                       next_deferred_time, change_deferred>>
    BY <1>2, <1>a, Zenon DEF DeferredScan
  <2>2. RawPressed(i) \in BOOLEAN
    BY <1>0, ConstantFacts DEF RawPressed
  <2> QED
    BY <1>0, <2>1, <2>2 DEF UpdateInRange, WakeupPending, NoCallPassed,
       ScannedCovered
<1>3. CASE debounce_time[i] \notin {NoDebounce, 0}
  <2>1. /\ soonest' = IF soonest = 0 \/ debounce_time[i] < soonest
                      THEN debounce_time[i] ELSE soonest
        /\ i' = i + 1
        /\ UNCHANGED <<pc, new_pressed, level, debounce_time,
                       debounced_pressed, next_deferred_time, change_deferred>>
    BY <1>3, <1>a, Zenon DEF DeferredScan
  <2>2. debounce_time[i] \in Nat \ {0}
    BY <1>0, <1>3 DEF NoDebounce
  <2>3. soonest' \in Nat \ {0}
    BY <2>1, <2>2
  <2> QED
    BY <1>0, <2>1, <2>3 DEF UpdateInRange, WakeupPending, NoCallPassed,
       ScannedCovered, Buttons
<1> QED
  BY <1>1, <1>2, <1>3

\* The sampled button is updated and no longer waits.
LEMMA UpdateStep ==
    ASSUME IInv, DeferredUpdate
    PROVE  IInv'
<1> USE ButtonCountAssumption DEF IInv, TypeOK
<1>0. i \in Buttons
  BY DEF DeferredUpdate, UpdateInRange
<1> QED
  BY <1>0 DEF DeferredUpdate, UpdateInRange, WakeupPending, NoCallPassed,
     ScannedCovered, NoDebounce, Buttons

\* The end of the loop: the soonest deadline left, if any, is scheduled.
LEMMA FinishStep ==
    ASSUME IInv, DeferredFinish
    PROVE  IInv'
<1> USE ButtonCountAssumption DEF IInv, TypeOK
<1>1. \A b \in Buttons :
        debounce_time[b] # NoDebounce => soonest # 0 \/ change_deferred # NoCall
  BY DEF DeferredFinish, ScannedCovered, Buttons
<1> QED
  BY <1>1 DEF DeferredFinish, UpdateInRange, WakeupPending, NoCallPassed,
     ScannedCovered, NoCall

\* A tick: all the remaining times count down together, none below 0.
LEMMA TickStep ==
    ASSUME IInv, Tick
    PROVE  IInv'
<1> USE ButtonCountAssumption DEF IInv, TypeOK
<1>1. debounce_time' \in [Buttons -> {NoDebounce} \cup Nat]
  BY DEF Tick, Dec, NoDebounce
<1>2. \A b \in Buttons : debounce_time'[b] # NoDebounce => debounce_time[b] # NoDebounce
  BY DEF Tick, Dec, NoDebounce
<1> QED
  BY <1>1, <1>2 DEF Tick, Dec, UpdateInRange, WakeupPending, NoCallPassed,
     ScannedCovered, NoCall

\* IInv is inductive.
LEMMA IInvStep ==
    ASSUME IInv, [Next]_vars
    PROVE  IInv'
<1>1. CASE UNCHANGED vars
  BY <1>1 DEF vars, IInv, TypeOK, UpdateInRange, WakeupPending, NoCallPassed,
     ScannedCovered
<1> QED
  BY <1>1, InterruptStep, StartStep, ScanStep, UpdateStep, FinishStep,
     TickStep DEF Next

\* Every variable of the debounce engine keeps its type.
THEOREM TypeCorrect == Spec => []TypeOK
<1>1. Init => IInv
  BY InitIInv
<1>2. IInv /\ [Next]_vars => IInv'
  BY IInvStep
<1>3. IInv => TypeOK
  BY DEF IInv
<1> QED
  BY <1>1, <1>2, <1>3, PTL DEF Spec

\* For every number of buttons, debounce time and polarity: outside
\* button_change_deferred, every button waiting to be debounced has a
\* call of button_change_deferred pending, and next_deferred_time is when
\* that call is due, however the GPIO interrupts fall between the steps of
\* the deferred routine; so button_interrupt()'s test of
\* next_deferred_time never skips scheduling a call that is needed.
THEOREM WakeupSafe == Spec => []WakeupPending
<1>1. Init => IInv
  BY InitIInv
<1>2. IInv /\ [Next]_vars => IInv'
  BY IInvStep
<1>3. IInv => WakeupPending
  BY DEF IInv
<1> QED
  BY <1>1, <1>2, <1>3, PTL DEF Spec
=============================================================================
