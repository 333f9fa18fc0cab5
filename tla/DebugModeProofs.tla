-------------------------- MODULE DebugModeProofs --------------------------
(***************************************************************************)
(* Proofs about the debug-mode state machine of DebugMode, for every       *)
(* DEBUG_TIMEOUT and both kinds of board.                                  *)
(***************************************************************************)
EXTENDS DebugMode, TLAPS

\* The states and buttons are distinct strings.
USE DEF STATE_DEBUG_NONE, STATE_DEBUG_CHECK, STATE_STAGING,
        STATE_DEBUG_MODE_ACTIVE, STATE_SYSRQ_PATH, STATE_WARM_RESET_PATH,
        STATE_SYSRQ_EXEC, STATE_WARM_RESET_EXEC,
        DEBUG_BTN_POWER, DEBUG_BTN_VOL_UP, DEBUG_BTN_VOL_DN, OTHER_BUTTON

\* TypeOK without the buttons, which debug_mode_handle() never writes.
StateTypeOK ==
    /\ curr_debug_state \in DebugStates
    /\ next_debug_state \in DebugStates
    /\ debug_state_deadline \in 0..Timeout
    /\ debug_button_hit_count \in Nat
    /\ handle_deferred \in {NoCall} \cup 0..Timeout
    /\ emitted \in [sysrq : Nat, reset : BOOLEAN]

LEMMA StateTypeOfTypeOK == TypeOK => StateTypeOK
  BY DEF TypeOK, StateTypeOK

\* debug_mode_transition() keeps every variable in its type.
LEMMA TransitionType ==
  ASSUME TypeOK, NEW ns \in DebugStates, NEW nxt \in DebugStates,
         Transition(ns, nxt)
  PROVE  StateTypeOK'
  BY TimeoutAssumption DEF TypeOK, StateTypeOK, Transition, DebugStates,
                           SysrqHitLimit, ArmedStates

\* So does every run of debug_mode_handle(), from a slot value in its type.
LEMMA HandleType ==
  ASSUME TypeOK, NEW mask, NEW p \in {NoCall} \cup 0..Timeout, Handle(mask, p)
  PROVE  StateTypeOK'
  <1>1. ASSUME NEW q \in {NoCall} \cup 0..Timeout, Stay(q) PROVE StateTypeOK'
    BY <1>1 DEF Stay, TypeOK, StateTypeOK, NoEmit
  <1>2. debug_state_deadline \in {NoCall} \cup 0..Timeout
    BY DEF TypeOK
  <1>3. next_debug_state \in DebugStates
    BY DEF TypeOK
  <1>4. /\ STATE_DEBUG_CHECK \in DebugStates
        /\ STATE_DEBUG_NONE \in DebugStates
        /\ STATE_STAGING \in DebugStates
        /\ STATE_DEBUG_MODE_ACTIVE \in DebugStates
        /\ STATE_SYSRQ_PATH \in DebugStates
        /\ STATE_SYSRQ_EXEC \in DebugStates
        /\ STATE_WARM_RESET_PATH \in DebugStates
        /\ STATE_WARM_RESET_EXEC \in DebugStates
    BY DEF DebugStates
  <1>5. CASE HandleNone(mask, p)
    BY <1>5, <1>1, <1>3, <1>4, TransitionType DEF HandleNone
  <1>6. CASE HandleCheck(mask, p)
    BY <1>6, <1>1, <1>3, <1>4, TransitionType DEF HandleCheck
  <1>7. CASE HandleStaging(mask, p)
    BY <1>7, <1>1, <1>2, <1>3, <1>4, TransitionType DEF HandleStaging
  <1>8. ASSUME NEW st, NEW u \in DebugStates, NEW d \in DebugStates,
               HandlePath(st, mask, p, u, d)
        PROVE  StateTypeOK'
    BY <1>8, <1>1, <1>3, <1>4, TransitionType DEF HandlePath
  <1>9. CASE HandleExec(p)
    BY <1>9, <1>3, <1>4, TransitionType DEF HandleExec
  <1>10. QED
    BY <1>4, <1>5, <1>6, <1>7, <1>8, <1>9 DEF Handle

\* Every step keeps the variables in their types.
LEMMA TypeStep == TypeOK /\ [Next]_vars => TypeOK'
  <1> SUFFICES ASSUME TypeOK, [Next]_vars PROVE TypeOK'
    OBVIOUS
  <1>1. ASSUME NEW chg \in (SUBSET ReportedButtons) \ {{}}, ButtonChange(chg)
        PROVE  TypeOK'
    BY <1>1, TimeoutAssumption
       DEF ButtonChange, TypeOK, ReportedButtons, DebugButtons, NoEmit
  <1>2. CASE PowerButtonChange
    <2>1. pressed' \subseteq DebugButtons
      BY <1>2 DEF PowerButtonChange, TypeOK, DebugButtons
    <2>2. StateTypeOK'
      BY <1>2, HandleType DEF PowerButtonChange, TypeOK
    <2>3. QED
      BY <2>1, <2>2 DEF TypeOK, StateTypeOK
  <1>3. CASE HandleDeferred
    <2>1. StateTypeOK'
      BY <1>3, HandleType DEF HandleDeferred, NoCall
    <2>2. QED
      BY <1>3, <2>1 DEF HandleDeferred, TypeOK, StateTypeOK
  <1>4. CASE Tick
    BY <1>4, TimeoutAssumption DEF Tick, Dec, TypeOK, NoEmit, NoCall
  <1>5. CASE UNCHANGED vars
    BY <1>5 DEF vars, TypeOK
  <1>6. QED
    BY <1>1, <1>2, <1>3, <1>4, <1>5 DEF Next

\* The type invariant.
THEOREM TypeCorrect == Spec => []TypeOK
  <1>1. Init => TypeOK
    BY TimeoutAssumption DEF Init, TypeOK, DebugStates, NoEmit, NoCall
  <1>2. QED
    BY <1>1, TypeStep, PTL DEF Spec

-----------------------------------------------------------------------------
(***************************************************************************)
(* The hit counter.  HitCountInv is inductive together with TypeOK: every  *)
(* entry to STAGING passes on a hit count that fits the state it stages    *)
(* (zero unless it stages SYSRQ_PATH or SYSRQ_EXEC, non-zero when it       *)
(* stages SYSRQ_EXEC), and SYSRQ_PATH gives up before the count reaches 4. *)
(***************************************************************************)
IInv == TypeOK /\ HitCountInv

\* What a call of debug_mode_transition(ns) needs of the hit counter.
TransitionPre(ns, nxt) ==
    /\ debug_button_hit_count \in 0..3
    /\ debug_button_hit_count > 0 /\ ns \notin {STATE_SYSRQ_PATH,
         STATE_SYSRQ_EXEC, STATE_DEBUG_NONE, STATE_WARM_RESET_EXEC,
         STATE_DEBUG_MODE_ACTIVE}
         => ns = STATE_STAGING /\ nxt \in {STATE_SYSRQ_PATH, STATE_SYSRQ_EXEC}
    /\ ns = STATE_STAGING /\ nxt = STATE_SYSRQ_EXEC => debug_button_hit_count > 0

\* Under that condition debug_mode_transition() keeps HitCountInv.
LEMMA TransitionHit ==
  ASSUME TypeOK, NEW ns \in DebugStates, NEW nxt \in DebugStates,
         TransitionPre(ns, nxt), Transition(ns, nxt)
  PROVE  HitCountInv'
  <1>1. debug_button_hit_count \in 0..3
    BY DEF TransitionPre
  <1>2. CASE ns = STATE_SYSRQ_PATH
    <2>1. CASE debug_button_hit_count = 3
      BY <1>2, <2>1 DEF Transition, HitCountInv, SysrqHitLimit
    <2>2. CASE debug_button_hit_count # 3
      <3>1. /\ curr_debug_state' = STATE_SYSRQ_PATH
            /\ debug_button_hit_count' = debug_button_hit_count + 1
            /\ emitted'.sysrq = 0
        BY <1>1, <1>2, <2>2 DEF Transition, SysrqHitLimit
      <3>2. QED
        BY <1>1, <2>2, <3>1 DEF HitCountInv
    <2>3. QED
      BY <2>1, <2>2
  <1>3. CASE ns = STATE_SYSRQ_EXEC
    BY <1>1, <1>3 DEF Transition, HitCountInv
  <1>4. CASE ns \in {STATE_DEBUG_NONE, STATE_WARM_RESET_EXEC}
    BY <1>4 DEF Transition, HitCountInv
  <1>5. CASE ns = STATE_DEBUG_MODE_ACTIVE
    BY <1>5 DEF Transition, HitCountInv
  <1>6. CASE ns = STATE_STAGING
    <2>1. /\ curr_debug_state' = STATE_STAGING
          /\ next_debug_state' = nxt
          /\ debug_button_hit_count' = debug_button_hit_count
          /\ emitted'.sysrq = 0
      BY <1>6 DEF Transition
    <2>2. QED
      BY <1>1, <1>6, <2>1 DEF TransitionPre, HitCountInv
  <1>7. CASE ns \in {STATE_DEBUG_CHECK, STATE_WARM_RESET_PATH}
    <2>1. debug_button_hit_count = 0
      BY <1>1, <1>7 DEF TransitionPre
    <2>2. /\ curr_debug_state' = ns
          /\ debug_button_hit_count' = 0
          /\ emitted'.sysrq = 0
      BY <1>7, <2>1 DEF Transition
    <2>3. QED
      BY <1>7, <2>2 DEF HitCountInv
  <1>8. QED
    BY <1>2, <1>3, <1>4, <1>5, <1>6, <1>7 DEF DebugStates

\* A run of debug_mode_handle() keeps HitCountInv.
LEMMA HandleHit ==
  ASSUME IInv, NEW mask, NEW p, Handle(mask, p)
  PROVE  HitCountInv'
  <1>1. ASSUME NEW q, Stay(q) PROVE HitCountInv'
    BY <1>1 DEF Stay, IInv, HitCountInv, NoEmit
  <1>2. /\ debug_button_hit_count \in 0..3
        /\ next_debug_state \in DebugStates
    BY DEF IInv, HitCountInv, TypeOK
  <1>3. /\ STATE_DEBUG_CHECK \in DebugStates
        /\ STATE_DEBUG_NONE \in DebugStates
        /\ STATE_STAGING \in DebugStates
        /\ STATE_DEBUG_MODE_ACTIVE \in DebugStates
        /\ STATE_SYSRQ_PATH \in DebugStates
        /\ STATE_SYSRQ_EXEC \in DebugStates
        /\ STATE_WARM_RESET_PATH \in DebugStates
        /\ STATE_WARM_RESET_EXEC \in DebugStates
    BY DEF DebugStates
  <1>4. TypeOK
    BY DEF IInv
  <1>5. CASE HandleNone(mask, p)
    <2>1. curr_debug_state = STATE_DEBUG_NONE
      BY <1>5 DEF HandleNone
    <2>2. debug_button_hit_count = 0
      BY <2>1, <1>2 DEF IInv, HitCountInv
    <2>3. TransitionPre(STATE_DEBUG_CHECK, next_debug_state)
      BY <2>2 DEF TransitionPre
    <2>. QED
      BY <1>5, <1>1, <1>2, <1>3, <1>4, <2>3, TransitionHit DEF HandleNone
  <1>6. CASE HandleCheck(mask, p)
    <2>1. curr_debug_state = STATE_DEBUG_CHECK
      BY <1>6 DEF HandleCheck
    <2>2. debug_button_hit_count = 0
      BY <2>1, <1>2 DEF IInv, HitCountInv
    <2>3. /\ TransitionPre(STATE_DEBUG_NONE, next_debug_state)
          /\ TransitionPre(STATE_STAGING, STATE_DEBUG_MODE_ACTIVE)
      BY <2>2 DEF TransitionPre
    <2>. QED
      BY <1>6, <1>1, <1>2, <1>3, <1>4, <2>3, TransitionHit DEF HandleCheck
  <1>7. CASE HandleStaging(mask, p)
    <2>1. curr_debug_state = STATE_STAGING
      BY <1>7 DEF HandleStaging
    <2>2. /\ TransitionPre(next_debug_state, next_debug_state)
          /\ TransitionPre(STATE_DEBUG_NONE, next_debug_state)
      BY <2>1, <1>2 DEF IInv, HitCountInv, TransitionPre
    <2>. QED
      BY <1>7, <1>1, <1>2, <1>3, <1>4, <2>2, TransitionHit DEF HandleStaging
  <1>8. CASE HandlePath(STATE_DEBUG_MODE_ACTIVE, mask, p,
                        STATE_SYSRQ_PATH, STATE_WARM_RESET_PATH)
    <2>1. debug_button_hit_count = 0
      BY <1>8, <1>2 DEF HandlePath, IInv, HitCountInv
    <2>2. /\ TransitionPre(STATE_DEBUG_NONE, next_debug_state)
          /\ TransitionPre(STATE_STAGING, STATE_SYSRQ_PATH)
          /\ TransitionPre(STATE_STAGING, STATE_WARM_RESET_PATH)
      BY <2>1 DEF TransitionPre
    <2>. QED
      BY <1>8, <1>1, <1>2, <1>3, <1>4, <2>2, TransitionHit DEF HandlePath
  <1>9. CASE HandlePath(STATE_SYSRQ_PATH, mask, p,
                        STATE_SYSRQ_PATH, STATE_SYSRQ_EXEC)
    <2>1. debug_button_hit_count > 0
      BY <1>9, <1>2 DEF HandlePath, IInv, HitCountInv
    <2>2. /\ TransitionPre(STATE_DEBUG_NONE, next_debug_state)
          /\ TransitionPre(STATE_STAGING, STATE_SYSRQ_PATH)
          /\ TransitionPre(STATE_STAGING, STATE_SYSRQ_EXEC)
      BY <2>1, <1>2 DEF TransitionPre
    <2>. QED
      BY <1>9, <1>1, <1>2, <1>3, <1>4, <2>2, TransitionHit DEF HandlePath
  <1>10. CASE HandlePath(STATE_WARM_RESET_PATH, mask, p,
                         STATE_WARM_RESET_EXEC, STATE_DEBUG_NONE)
    <2>1. debug_button_hit_count = 0
      BY <1>10, <1>2 DEF HandlePath, IInv, HitCountInv
    <2>2. /\ TransitionPre(STATE_DEBUG_NONE, next_debug_state)
          /\ TransitionPre(STATE_STAGING, STATE_WARM_RESET_EXEC)
      BY <2>1 DEF TransitionPre
    <2>. QED
      BY <1>10, <1>1, <1>2, <1>3, <1>4, <2>2, TransitionHit DEF HandlePath
  <1>11. CASE HandleExec(p)
    <2>1. TransitionPre(STATE_DEBUG_NONE, next_debug_state)
      BY <1>2 DEF TransitionPre
    <2>. QED
      BY <1>11, <1>2, <1>3, <1>4, <2>1, TransitionHit DEF HandleExec
  <1>12. QED
    BY <1>5, <1>6, <1>7, <1>8, <1>9, <1>10, <1>11 DEF Handle

\* At most three sysrq-x per debug session, and the counter consistent with
\* the state of the sysrq path.
THEOREM HitCountSafe == Spec => []HitCountInv
  <1>1. Init => IInv
    BY TimeoutAssumption
       DEF Init, IInv, TypeOK, HitCountInv, DebugStates, NoEmit, NoCall
  <1>2. IInv /\ [Next]_vars => IInv'
    <2> SUFFICES ASSUME IInv, [Next]_vars PROVE IInv'
      OBVIOUS
    <2>1. TypeOK'
      BY TypeStep DEF IInv
    <2>2. ASSUME NEW chg \in (SUBSET ReportedButtons) \ {{}}, ButtonChange(chg)
          PROVE  HitCountInv'
      BY <2>2 DEF ButtonChange, IInv, HitCountInv, NoEmit
    <2>3. PowerButtonChange => HitCountInv'
      BY HandleHit DEF PowerButtonChange
    <2>4. HandleDeferred => HitCountInv'
      BY HandleHit DEF HandleDeferred
    <2>5. Tick => HitCountInv'
      BY DEF Tick, IInv, HitCountInv, NoEmit
    <2>6. UNCHANGED vars => HitCountInv'
      BY DEF vars, IInv, HitCountInv
    <2>7. HitCountInv'
      BY <2>2, <2>3, <2>4, <2>5, <2>6 DEF Next
    <2>8. QED
      BY <2>1, <2>7 DEF IInv
  <1>3. QED
    BY <1>1, <1>2, PTL DEF Spec, IInv
-----------------------------------------------------------------------------
(***************************************************************************)
(* The armed timeout.  TimeoutArmed alone is not inductive: the deferred   *)
(* run of debug_mode_handle starts with the slot cleared, and in CHECK a   *)
(* run that sees Vup+Vdn still held before the deadline re-arms nothing.   *)
(* On a board with only Vup and Vdn that run never happens: a deferred run *)
(* in CHECK is due either at the deadline (armed by the transition, the    *)
(* two counting down together, so that it finds the deadline expired) or *)
(* after a Vup/Vdn change, which leaves the mask other than Vup+Vdn.  The  *)
(* power button is never held in CHECK, and the state a STAGING goes on to *)
(* is never CHECK or STAGING.                                              *)
(***************************************************************************)
BothVol == {DEBUG_BTN_VOL_UP, DEBUG_BTN_VOL_DN}

CheckArmed ==
    curr_debug_state = STATE_DEBUG_CHECK =>
        /\ DEBUG_BTN_POWER \notin pressed
        /\ handle_deferred # 0 =>
             pressed = BothVol /\ handle_deferred = debug_state_deadline
        /\ handle_deferred = 0 => pressed # BothVol \/ debug_state_deadline = 0

NextUntimed == next_debug_state \notin ArmedStates

TInv == TypeOK /\ TimeoutArmed /\ CheckArmed /\ NextUntimed

\* debug_mode_transition() arms the timeout exactly for CHECK and STAGING,
\* with the deadline and the deferred call both DEBUG_TIMEOUT away.
LEMMA TransitionArmed ==
  ASSUME TypeOK, NEW ns \in DebugStates, NEW nxt \in DebugStates,
         nxt \notin ArmedStates, Transition(ns, nxt)
  PROVE  /\ curr_debug_state' \in ArmedStates =>
              /\ curr_debug_state' = ns
              /\ handle_deferred' = Timeout
              /\ debug_state_deadline' = Timeout
         /\ NextUntimed'
  BY TimeoutAssumption DEF Transition, ArmedStates, NextUntimed, SysrqHitLimit

\* A run of debug_mode_handle() with mask keeps the timeout armed, provided
\* that in CHECK it does not find Vup+Vdn held before the deadline (the one
\* case in which it neither moves on nor re-arms the call).
LEMMA HandleArmed ==
  ASSUME TypeOK, NextUntimed, NEW mask, NEW p, Handle(mask, p),
         pressed' = mask,
         curr_debug_state = STATE_DEBUG_CHECK => mask # BothVol \/ Expired
  PROVE  (TimeoutArmed /\ CheckArmed /\ NextUntimed)'
  <1>1. /\ STATE_DEBUG_CHECK \in DebugStates
        /\ STATE_DEBUG_NONE \in DebugStates
        /\ STATE_STAGING \in DebugStates
        /\ STATE_DEBUG_MODE_ACTIVE \in DebugStates
        /\ STATE_SYSRQ_PATH \in DebugStates
        /\ STATE_SYSRQ_EXEC \in DebugStates
        /\ STATE_WARM_RESET_PATH \in DebugStates
        /\ STATE_WARM_RESET_EXEC \in DebugStates
        /\ next_debug_state \in DebugStates
        /\ next_debug_state \notin ArmedStates
    BY DEF DebugStates, TypeOK, NextUntimed
  <1>2. /\ STATE_DEBUG_NONE \notin ArmedStates
        /\ STATE_DEBUG_MODE_ACTIVE \notin ArmedStates
        /\ STATE_SYSRQ_PATH \notin ArmedStates
        /\ STATE_SYSRQ_EXEC \notin ArmedStates
        /\ STATE_WARM_RESET_PATH \notin ArmedStates
        /\ STATE_WARM_RESET_EXEC \notin ArmedStates
    BY DEF ArmedStates
  \* A transition into CHECK comes from NONE with Vup+Vdn held; any other
  \* transition keeps the invariant by TransitionArmed alone.
  <1>3. ASSUME NEW ns \in DebugStates, NEW nxt \in DebugStates,
               nxt \notin ArmedStates, Transition(ns, nxt),
               ns = STATE_DEBUG_CHECK => mask = BothVol
        PROVE  (TimeoutArmed /\ CheckArmed /\ NextUntimed)'
    <2>1. /\ curr_debug_state' \in ArmedStates =>
               /\ curr_debug_state' = ns
               /\ handle_deferred' = Timeout
               /\ debug_state_deadline' = Timeout
          /\ NextUntimed'
      BY <1>3, TransitionArmed
    <2>2. Timeout \in Nat \ {0}
      BY TimeoutAssumption
    <2> QED
      BY <1>3, <2>1, <2>2 DEF TimeoutArmed, CheckArmed, ArmedStates, BothVol
  <1>4. ASSUME NEW q, Stay(q),
               curr_debug_state \in ArmedStates => q \in 0..debug_state_deadline,
               curr_debug_state # STATE_DEBUG_CHECK
        PROVE  (TimeoutArmed /\ CheckArmed /\ NextUntimed)'
    BY <1>4 DEF Stay, TimeoutArmed, CheckArmed, NextUntimed, ArmedStates
  <1>5. CASE HandleNone(mask, p)
    <2>1. CASE mask = BothVol
      <3>1. Transition(STATE_DEBUG_CHECK, next_debug_state)
        BY <1>5, <2>1 DEF HandleNone, BothVol
      <3> QED
        BY <1>1, <2>1, <3>1, <1>3
    <2>2. CASE mask # BothVol
      <3>1. Stay(p) /\ curr_debug_state = STATE_DEBUG_NONE
        BY <1>5, <2>2 DEF HandleNone, BothVol
      <3> QED
        BY <3>1, <1>2, <1>4
    <2> QED
      BY <2>1, <2>2
  \* A CASE whose guards overlap takes one of the arms whose guard holds;
  \* each arm that can be taken keeps the invariant.
  <1>6. CASE HandleCheck(mask, p)
    <2>1. mask # {DEBUG_BTN_VOL_UP, DEBUG_BTN_VOL_DN} \/ Expired
      BY <1>6 DEF HandleCheck, BothVol
    <2>2. \/ Transition(STATE_DEBUG_NONE, next_debug_state)
          \/ Transition(STATE_STAGING, STATE_DEBUG_MODE_ACTIVE)
      BY <1>6, <2>1 DEF HandleCheck
    <2>3. CASE Transition(STATE_DEBUG_NONE, next_debug_state)
      BY <1>1, <2>3, <1>3
    <2>4. CASE Transition(STATE_STAGING, STATE_DEBUG_MODE_ACTIVE)
      BY <1>1, <1>2, <2>4, <1>3
    <2> QED
      BY <2>2, <2>3, <2>4
  <1>7. CASE HandleStaging(mask, p)
    <2>0. curr_debug_state = STATE_STAGING
      BY <1>7 DEF HandleStaging
    <2>1. \/ Transition(next_debug_state, next_debug_state)
          \/ Transition(STATE_DEBUG_NONE, next_debug_state)
          \/ Stay(debug_state_deadline)
      BY <1>7 DEF HandleStaging
    <2>2. debug_state_deadline \in 0..debug_state_deadline
      BY DEF TypeOK
    <2> QED
      BY <1>1, <2>0, <2>1, <2>2, <1>3, <1>4 DEF ArmedStates
  <1>8. ASSUME NEW st \in DebugStates \ ArmedStates,
               NEW u \in DebugStates \ ArmedStates,
               NEW d \in DebugStates \ ArmedStates,
               HandlePath(st, mask, p, u, d)
        PROVE  (TimeoutArmed /\ CheckArmed /\ NextUntimed)'
    BY <1>8, <1>1, <1>2, <1>3, <1>4 DEF HandlePath, ArmedStates
  <1>9. CASE HandleExec(p)
    BY <1>9, <1>1, <1>2, <1>3 DEF HandleExec, ArmedStates
  <1> QED
    BY <1>1, <1>2, <1>5, <1>6, <1>7, <1>8, <1>9 DEF Handle

\* On a board with only Vup and Vdn, every step keeps TInv.
LEMMA TInvStep ==
  ASSUME ~HasOtherButton, TInv, [Next]_vars
  PROVE  TInv'
  <1>1. TypeOK'
    BY TypeStep DEF TInv
  <1>2. ASSUME NEW chg \in (SUBSET ReportedButtons) \ {{}}, ButtonChange(chg)
        PROVE  (TimeoutArmed /\ CheckArmed /\ NextUntimed)'
    <2>1. chg \subseteq BothVol /\ chg # {}
      BY <1>2, ~HasOtherButton DEF ReportedButtons, BothVol
    <2>2. pressed = BothVol => pressed' = BothVol \ chg
      BY <1>2, <2>1 DEF ButtonChange, BothVol
    <2>3. BothVol \ chg # BothVol
      BY <2>1
    <2> QED
      BY <1>2, <2>2, <2>3 DEF ButtonChange, TInv, TypeOK, TimeoutArmed,
         CheckArmed, NextUntimed, BothVol
  <1>3. ASSUME PowerButtonChange
        PROVE  (TimeoutArmed /\ CheckArmed /\ NextUntimed)'
    <2> DEFINE m == IF DEBUG_BTN_POWER \in pressed
                    THEN pressed \ {DEBUG_BTN_POWER}
                    ELSE pressed \cup {DEBUG_BTN_POWER}
    <2>1. pressed' = m /\ Handle(m, handle_deferred)
      BY <1>3 DEF PowerButtonChange, m
    <2>2. curr_debug_state = STATE_DEBUG_CHECK => m # BothVol
      BY DEF TInv, CheckArmed, BothVol, m
    <2> QED
      BY <2>1, <2>2, HandleArmed DEF TInv
  <1>4. ASSUME HandleDeferred
        PROVE  (TimeoutArmed /\ CheckArmed /\ NextUntimed)'
    <2>1. curr_debug_state = STATE_DEBUG_CHECK => pressed # BothVol \/ Expired
      BY <1>4 DEF HandleDeferred, TInv, CheckArmed, Expired
    <2>2. pressed' = pressed /\ Handle(pressed, NoCall)
      BY <1>4 DEF HandleDeferred
    <2> QED
      BY <2>1, <2>2, HandleArmed DEF TInv
  <1>5. ASSUME Tick
        PROVE  (TimeoutArmed /\ CheckArmed /\ NextUntimed)'
    <2>1. curr_debug_state \in ArmedStates =>
            handle_deferred \in 1..debug_state_deadline
      BY <1>5 DEF Tick, TInv, TimeoutArmed, ArmedStates
    <2> QED
      BY <1>5, <2>1 DEF Tick, Dec, TInv, TypeOK, TimeoutArmed, CheckArmed,
         NextUntimed, ArmedStates
  <1>6. ASSUME UNCHANGED vars
        PROVE  (TimeoutArmed /\ CheckArmed /\ NextUntimed)'
    BY <1>6 DEF vars, TInv, TimeoutArmed, CheckArmed, NextUntimed
  <1>7. (TimeoutArmed /\ CheckArmed /\ NextUntimed)'
    BY <1>2, <1>3, <1>4, <1>5, <1>6 DEF Next
  <1> QED
    BY <1>1, <1>7 DEF TInv

\* On a board whose buttons[] holds only Vup and Vdn, for every
\* DEBUG_TIMEOUT: while debug_mode_handle() checks the Vup+Vdn hold or
\* waits in STAGING for the release, a deferred call of it is pending no
\* later than the deadline, so the timeout is always noticed.  (With a
\* third button the invariant fails: MCDebugModeOther.cfg.)
THEOREM TimeoutArmedSafe == ~HasOtherButton => (Spec => []TimeoutArmed)
  <1> SUFFICES ASSUME ~HasOtherButton PROVE Spec => []TimeoutArmed
    OBVIOUS
  <1>1. Init => TInv
    BY TimeoutAssumption
       DEF Init, TInv, TypeOK, TimeoutArmed, CheckArmed, NextUntimed,
           ArmedStates, DebugStates, NoEmit, NoCall
  <1>2. TInv /\ [Next]_vars => TInv'
    BY TInvStep
  <1>3. TInv => TimeoutArmed
    BY DEF TInv
  <1> QED
    BY <1>1, <1>2, <1>3, PTL DEF Spec
=============================================================================
