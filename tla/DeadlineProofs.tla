--------------------------- MODULE DeadlineProofs ---------------------------
(***************************************************************************)
(* The deadlines of the state machine, for every value of its constants.   *)
(* Each invariant relates a clock to the timer of the code that is to meet *)
(* the deadline.                                                           *)
(***************************************************************************)
EXTENDS Deadlines, RebFsmProofs

-----------------------------------------------------------------------------
(* The clocks only watch *)

LEMMA ClocksWatch == [TimedNext]_timed_vars => [Next]_vars
<1>1. UNCHANGED timed_vars => UNCHANGED vars
  BY DEF timed_vars
<1>2. TimedCycle => Step
  BY DEF TimedCycle, Step
<1> QED BY <1>1, <1>2 DEF TimedNext, TimedPowerCycle, TimedFactoryReset, Next

\* The machine with its clocks is the machine: every property proved of AnySpec
\* holds of it, and a behaviour of Spec is all that the clocks can time.
LEMMA TimedImplementsFsm == TimedSpec => AnySpec
<1>1. TimedInit => Init
  BY DEF TimedInit
<1> QED BY <1>1, ClocksWatch, InputsOnlyNarrow, PTL DEF TimedSpec, Spec

ClocksTyped ==
    /\ theft_for \in Nat
    /\ blocking_for \in Nat
    /\ moved \in 0..ramp_cycles
    /\ locked_for \in Nat

\* What the limits of the clocks are worth: each is beyond the bound.
LEMMA Limits ==
    /\ theft_limit \in Nat
    /\ T_MIN_AFTER_CYCLES \in Nat \ {0} /\ T_REVERSAL_CYCLES \in Nat \ {0}
    /\ T_PARKED_CYCLES \in Nat \ {0}
    /\ LOCKOUT_CYCLES \in Nat /\ lockout_limit \in Nat
    /\ ramp_cycles \in Nat
    /\ RAMP_INIT - ramp_cycles * DERATE_STEP < RAMP_FLOOR
<1>1. /\ DERATE_STEP \in Nat \ {0} /\ RAMP_INIT \in Nat /\ RAMP_FLOOR \in Nat
      /\ RAMP_FLOOR <= RAMP_INIT
  BY RampConstants, FsmAssumption, ActuatorAssumption
<1> DEFINE d == RAMP_INIT - RAMP_FLOOR
           q == d \div DERATE_STEP
<1>2. d \in Nat /\ q \in Nat /\ d < DERATE_STEP * q + DERATE_STEP
  BY <1>1
<1> HIDE DEF d, q
<1>3. (q + 1) * DERATE_STEP = DERATE_STEP * q + DERATE_STEP
  BY <1>1, <1>2
<1>4. RAMP_INIT - (q + 1) * DERATE_STEP < RAMP_FLOOR
  BY <1>1, <1>2, <1>3 DEF d
<1> QED BY <1>2, <1>4, FsmAssumption, WindowAssumption, PanelAssumption
        DEF theft_limit, lockout_limit, ramp_cycles, d, q

\* A clock that goes on has counted at most one cycle more; one that does not
\* starts again.
LEMMA Ticks ==
    ASSUME NEW clock \in Nat, NEW limit \in Nat, NEW goes_on \in BOOLEAN
    PROVE  /\ ticked(clock, limit, goes_on) \in 0..limit
           /\ goes_on => /\ ticked(clock, limit, goes_on) <= clock + 1
                         /\ ticked(clock, limit, goes_on) < limit
                               => ticked(clock, limit, goes_on) = clock + 1
           /\ ~goes_on => ticked(clock, limit, goes_on) = 0
  BY DEF ticked, saturate

LEMMA ClocksTypeStep ==
    ASSUME ClocksTyped, panel' \in panel_auth_ctx_t, [TimedNext]_timed_vars
    PROVE  ClocksTyped'
<1>1. ASSUME NEW in, clocks_tick(in) PROVE ClocksTyped'
  <2>1. \A st : stays_in(st) \in BOOLEAN
    BY DEF stays_in
  <2>2. (panel.lockout_active /\ panel'.lockout_active) \in BOOLEAN
    OBVIOUS
  <2>3. moved \in Nat
    BY Limits DEF ClocksTyped
  <2>4. theft_for' \in 0..theft_limit /\ locked_for' \in 0..lockout_limit
        /\ blocking_for' \in 0..T_PARKED_CYCLES
    BY <1>1, <2>1, <2>2, Ticks, Limits DEF ClocksTyped, clocks_tick
  <2>5. moved' \in 0..ramp_cycles
    BY <1>1, <2>1, <2>3, Ticks, Limits DEF ClocksTyped, clocks_tick
  <2> QED BY <2>4, <2>5, Limits DEF ClocksTyped
<1>2. ASSUME clocks_start PROVE ClocksTyped'
  <2>1. served(panel') \in Nat
    BY Limits DEF served, panel_auth_ctx_t
  <2> QED BY <1>2, <2>1, Limits DEF ClocksTyped, clocks_start
<1>3. CASE UNCHANGED timed_vars
  BY <1>3 DEF timed_vars, clocks, ClocksTyped, ramp_cycles
<1> QED BY <1>1, <1>2, <1>3 DEF TimedNext, TimedCycle, TimedPowerCycle, TimedFactoryReset

-----------------------------------------------------------------------------
(* TheftEndsInTime *)

\* The clock of a theft is behind the timer that ends it: the hold counts
\* min_after_timer, which a power cycle restores no lower; the window counts its
\* own timer while it is open, and it is open unless a power cycle closed it.
TheftClock ==
    state = "THEFT_CONFIRMED" =>
        /\ source # "AUTO" => theft_for <= min_after_timer /\ theft_for < T_MIN_AFTER_CYCLES
        /\ source = "AUTO" /\ ~resumed => rw.active /\ theft_for <= rw.timer_cycles

\* A cycle that starts and ends in THEFT_CONFIRMED ran the hold or the window.
LEMMA TheftCycle ==
    ASSUME TypeInv, NEW in \in reb_inputs_t, reb_fsm_step(in), state' = "THEFT_CONFIRMED"
    PROVE  \/ /\ state = "IDLE"
              /\ source' = "AUTO" => rw' = rw_start
           \/ TheftWindowRuns(in)
           \/ TheftHolds(in)
<1>1. CASE returns(in, FALSE)
  BY <1>1, ReturningSnapshot, ReturnEffect
<1>2. CASE IdlePanelActivates(in) \/ IdleRemoteActivates(in) \/ IdleSensorsActivate(in)
  BY <1>2 DEF IdlePanelActivates, IdleRemoteActivates, IdleSensorsActivate,
     enter_theft_confirmed
<1>3. CASE TheftOwnerConfirms(in) \/ TheftWindowExpires(in) \/ TheftHoldElapses(in)
           \/ BlockingParks(in)
  BY <1>3 DEF TheftOwnerConfirms, TheftWindowExpires, TheftHoldElapses, enter_blocking,
     BlockingParks, do_transition
<1>4. CASE IdleWatches(in) \/ BlockingContinues(in) \/ BlockedStays(in)
  BY <1>4 DEF IdleWatches, BlockingContinues, blocking_goes_on, BlockedStays
<1> QED BY <1>1, <1>2, <1>3, <1>4 DEF reb_fsm_step, keeps_or_advances

LEMMA TheftTick ==
    ASSUME ClocksTyped, NEW in, clocks_tick(in),
           state = "THEFT_CONFIRMED", state' = "THEFT_CONFIRMED"
    PROVE  theft_for' \in Nat /\ theft_for' <= theft_for + 1 /\ (~resumed' => ~resumed)
<1>1. stays_in("THEFT_CONFIRMED")
  BY DEF stays_in
<1>2. theft_for' = saturate(theft_for + 1, theft_limit) /\ (~resumed' => ~resumed)
  BY <1>1, Zenon DEF clocks_tick, ticked
<1> QED BY <1>2, Limits DEF ClocksTyped, saturate

LEMMA TheftStep ==
    ASSUME TypeInv, ClocksTyped, TheftClock, [TimedNext]_timed_vars
    PROVE  TheftClock'
<1>1. /\ min_after_timer \in 0..T_MIN_AFTER_CYCLES
      /\ rw \in rw_ctx_t /\ rw.timer_cycles \in Nat
  BY WindowAssumption DEF TypeInv, ContextTypeOK, rw_ctx_t
<1>2. ASSUME NEW in \in reb_inputs_t, reb_fsm_step(in), clocks_tick(in),
             state' = "THEFT_CONFIRMED"
      PROVE  TheftClock'
  <2>1. CASE state = "IDLE" /\ (source' = "AUTO" => rw' = rw_start)
    <3>1. theft_for' = 0
      BY <1>2, <2>1 DEF clocks_tick, ticked, stays_in
    <3>2. rw_start.active /\ rw_start.timer_cycles = 0
      BY DEF rw_start, rw_init
    <3>3. min_after_timer' \in Nat
      <4>1. TypeInv'
        BY <1>2, NextType DEF AnyNextWithCuts, AnyNext, AnyStep
      <4> QED BY <4>1, Limits DEF TypeInv, ContextTypeOK
    <3> QED BY <2>1, <3>1, <3>2, <3>3, Limits DEF TheftClock
  <2>2. CASE TheftWindowRuns(in)
    <3>1. /\ state = "THEFT_CONFIRMED" /\ state' = state /\ source = "AUTO" /\ source' = source
          /\ rw' = rw_step(rw, panel_auth_ok(panel, in))
          /\ ~rw_aborts(rw, panel_auth_ok(panel, in))
          /\ ~rw_expires(rw, panel_auth_ok(panel, in))
      BY <2>2 DEF TheftWindowRuns, theft_stays, theft_goes_on
    <3>2. theft_for' \in Nat /\ theft_for' <= theft_for + 1 /\ (~resumed' => ~resumed)
      BY <1>2, <3>1, TheftTick
    <3>3. rw.active => rw'.active /\ rw'.timer_cycles = rw.timer_cycles + 1
      BY <1>1, <3>1 DEF rw_step, rw_ctx_t
    <3> QED BY <1>1, <3>1, <3>2, <3>3 DEF TheftClock, ClocksTyped
  <2>3. CASE TheftHolds(in)
    <3>1. /\ state = "THEFT_CONFIRMED" /\ state' = state /\ source # "AUTO" /\ source' = source
          /\ min_after_timer + 1 < T_MIN_AFTER_CYCLES
          /\ min_after_timer' = saturate(min_after_timer + 1, T_MIN_AFTER_CYCLES)
      BY <2>3 DEF TheftHolds, theft_stays, theft_goes_on
    <3>2. theft_for' \in Nat /\ theft_for' <= theft_for + 1
      BY <1>2, <3>1, TheftTick
    <3>3. min_after_timer' = min_after_timer + 1
      BY <1>1, <3>1, Limits DEF saturate
    <3> QED BY <1>1, <3>1, <3>2, <3>3, Limits DEF TheftClock, ClocksTyped
  <2> QED BY <1>2, <2>1, <2>2, <2>3, TheftCycle
<1>3. ASSUME PowerCycle \/ FactoryReset, clocks_start
      PROVE  TheftClock'
  <2>1. TypeInv'
    BY <1>3, RestartType
  <2>2. min_after_timer' \in Nat
    BY <2>1, Limits DEF TypeInv, ContextTypeOK
  <2>3. theft_for' = 0 /\ (state' = "THEFT_CONFIRMED" => resumed')
    BY <1>3 DEF clocks_start
  <2> QED BY <2>2, <2>3, Limits DEF TheftClock
<1>4. CASE UNCHANGED timed_vars
  BY <1>4 DEF timed_vars, vars, clocks, TheftClock
<1> QED BY <1>2, <1>3, <1>4, FsmAssumption DEF TimedNext, TimedCycle, TimedPowerCycle,
        TimedFactoryReset, TheftClock

-----------------------------------------------------------------------------
(* BlockedInTime and FuelOnSchedule *)

\* The dwell timer has counted every cycle at standstill since BLOCKING was
\* entered or resumed, although it started at zero and still may not have.
BlockingClock ==
    state = "BLOCKING" =>
        /\ still <= parked_timer \/ blocking_for <= parked_timer
        /\ still < T_PARKED_CYCLES \/ blocking_for < T_PARKED_CYCLES

\* The ramp is the schedule.
FuelClock == state = "BLOCKING" => derate_ramp = on_schedule(moved)

\* A cycle that ends in BLOCKING came from THEFT_CONFIRMED or went on in BLOCKING.
LEMMA CycleToBlocking ==
    ASSUME TypeInv, NEW in \in reb_inputs_t, reb_fsm_step(in), state' = "BLOCKING"
    PROVE  state = "THEFT_CONFIRMED" \/ BlockingContinues(in)
<1>1. CASE returns(in, FALSE)
  BY <1>1, ReturningSnapshot, ReturnEffect
<1>2. CASE keeps_or_advances(in) /\ ~BlockingContinues(in)
  BY <1>2 DEF keeps_or_advances, IdlePanelActivates, IdleRemoteActivates, IdleSensorsActivate,
     IdleWatches, enter_theft_confirmed, TheftOwnerConfirms, TheftWindowExpires,
     TheftHoldElapses, TheftWindowRuns, TheftHolds, theft_goes_on, BlockingParks,
     BlockedStays, do_transition
<1> QED BY <1>1, <1>2 DEF reb_fsm_step

\* A restart that ends in BLOCKING restores a full ramp.
LEMMA ResumedBlocking ==
    ASSUME DwellInv, MemoryMirrorsState, PowerCycle \/ FactoryReset, state' = "BLOCKING"
    PROVE  derate_ramp' = RAMP_INIT /\ still' = 0 /\ parked_timer' \in Nat
<1>1. parked_timer' \in Nat
  <2>1. TypeInv'
    BY RestartType DEF DwellInv
  <2> QED BY <2>1, Limits DEF TypeInv, ContextTypeOK
<1>2. PowerCycle /\ nvm_sim_valid /\ nvm_sim_buf.last_state = "BLOCKING"
  BY DEF PowerCycle, FactoryReset, boot, factory_defaults, snapshot
<1> QED BY <1>1, <1>2 DEF DwellInv, AfreshBeforeBlocking, PowerCycle, boot

LEMMA BlockingTick ==
    ASSUME ClocksTyped, NEW in, clocks_tick(in), state = "BLOCKING", state' = "BLOCKING"
    PROVE  /\ blocking_for' \in Nat /\ blocking_for' <= blocking_for + 1
           /\ moved' = IF in_motion(in.vehicle_speed) THEN saturate(moved + 1, ramp_cycles)
                       ELSE moved
<1>1. stays_in("BLOCKING")
  BY DEF stays_in
<1>2. /\ blocking_for' = saturate(blocking_for + 1, T_PARKED_CYCLES)
      /\ moved' = IF ~in_motion(in.vehicle_speed) THEN moved
                  ELSE saturate(moved + 1, ramp_cycles)
  BY <1>1, Zenon DEF clocks_tick, ticked
<1> QED BY <1>2, Limits DEF ClocksTyped, saturate

\* Both start again when BLOCKING is entered.
LEMMA BlockingEntered ==
    ASSUME NEW in, clocks_tick(in), state # "BLOCKING"
    PROVE  blocking_for' = 0 /\ moved' = 0
<1>1. ~stays_in("BLOCKING")
  BY DEF stays_in
<1> QED BY <1>1, Zenon DEF clocks_tick, ticked

LEMMA BlockingStep ==
    ASSUME DwellInv, MemoryMirrorsState, ClocksTyped, BlockingClock, [TimedNext]_timed_vars
    PROVE  BlockingClock'
<1>1. /\ TypeInv /\ T_PARKED_CYCLES \in Nat \ {0}
      /\ parked_timer \in 0..T_PARKED_CYCLES /\ still \in 0..T_PARKED_CYCLES
      /\ blocking_for \in Nat
  BY Limits DEF DwellInv, TypeInv, ContextTypeOK, ClocksTyped
<1>2. ASSUME NEW in \in reb_inputs_t, reb_fsm_step(in), clocks_tick(in), state' = "BLOCKING"
      PROVE  BlockingClock'
  <2>1. CASE state = "THEFT_CONFIRMED"
    <3>1. TypeInv'
      BY <1>1, <1>2, NextType DEF AnyNextWithCuts, AnyNext, AnyStep
    <3>2. blocking_for' = 0 /\ parked_timer' \in Nat
      BY <1>1, <1>2, <2>1, <3>1, BlockingEntered DEF TypeInv, ContextTypeOK
    <3> QED BY <1>1, <3>2 DEF BlockingClock
  <2>2. CASE BlockingContinues(in)
    <3>1. /\ state = "BLOCKING" /\ parked_timer' = next_parked(in) /\ in.speed_is_valid
          /\ next_parked(in) < T_PARKED_CYCLES /\ end_of_step(in)
      BY <2>2 DEF BlockingContinues, blocking_goes_on
    <3>2. blocking_for' \in Nat /\ blocking_for' <= blocking_for + 1
      BY <1>2, <3>1, BlockingTick
    <3>3. CASE in_motion(in.vehicle_speed)
      <4>1. still' = 0 /\ parked_timer' = 0
        BY <3>1, <3>3 DEF end_of_step, next_parked
      <4> QED BY <1>1, <4>1 DEF BlockingClock
    <3>4. CASE ~in_motion(in.vehicle_speed)
      <4>1. /\ parked_timer' = saturate(parked_timer + 1, T_PARKED_CYCLES)
            /\ still' = saturate(still + 1, T_PARKED_CYCLES)
        BY <3>1, <3>4 DEF end_of_step, next_parked
      <4>2. /\ parked_timer' = parked_timer + 1 /\ parked_timer' < T_PARKED_CYCLES
            /\ still' <= still + 1 /\ still' \in Nat
        BY <1>1, <3>1, <4>1 DEF saturate
      <4> QED BY <1>1, <3>1, <3>2, <4>2 DEF BlockingClock
    <3> QED BY <3>3, <3>4
  <2> QED BY <1>1, <1>2, <2>1, <2>2, CycleToBlocking
<1>3. ASSUME PowerCycle \/ FactoryReset
      PROVE  BlockingClock'
  BY <1>1, <1>3, ResumedBlocking DEF BlockingClock
<1>4. CASE UNCHANGED timed_vars
  BY <1>4 DEF timed_vars, vars, clocks, BlockingClock
<1> QED BY <1>2, <1>3, <1>4, FsmAssumption DEF TimedNext, TimedCycle, TimedPowerCycle,
        TimedFactoryReset, BlockingClock

\* The schedule starts at full fuel, and a cycle in motion is one step along it.
LEMMA ScheduleStart == on_schedule(0) = RAMP_INIT
  BY RampConstants, ActuatorAssumption, FsmAssumption DEF on_schedule

LEMMA ScheduleStep ==
    ASSUME NEW n \in 0..ramp_cycles
    PROVE  calc_derate_ramp(on_schedule(n)) = on_schedule(saturate(n + 1, ramp_cycles))
<1> DEFINE due(k) == RAMP_INIT - k * DERATE_STEP
<1>1. /\ DERATE_STEP \in Nat \ {0} /\ RAMP_INIT \in Nat /\ RAMP_FLOOR \in Nat
      /\ RAMP_FLOOR <= RAMP_INIT /\ ramp_cycles \in Nat
  BY RampConstants, FsmAssumption, ActuatorAssumption, Limits
<1>2. due(ramp_cycles) < RAMP_FLOOR
  BY Limits
<1>3. due(n) \in Int /\ due(n + 1) = due(n) - DERATE_STEP
  BY <1>1
<1>4. \A k : on_schedule(k) = IF due(k) < RAMP_FLOOR THEN RAMP_FLOOR ELSE due(k)
  BY DEF on_schedule
<1> HIDE DEF due
<1>5. CASE n + 1 <= ramp_cycles
  <2>1. saturate(n + 1, ramp_cycles) = n + 1
    BY <1>1, <1>5 DEF saturate
  <2> QED BY <1>1, <1>3, <1>4, <2>1 DEF calc_derate_ramp
<1>6. CASE n = ramp_cycles
  <2>1. saturate(n + 1, ramp_cycles) = n
    BY <1>1, <1>6 DEF saturate
  <2> QED BY <1>1, <1>2, <1>4, <1>6, <2>1 DEF calc_derate_ramp
<1> QED BY <1>1, <1>5, <1>6

LEMMA FuelScheduleStep ==
    ASSUME DwellInv, MemoryMirrorsState, ClocksTyped, FuelClock, [TimedNext]_timed_vars
    PROVE  FuelClock'
<1>1. TypeInv /\ moved \in 0..ramp_cycles
  BY DEF DwellInv, ClocksTyped
<1>2. ASSUME NEW in \in reb_inputs_t, reb_fsm_step(in), clocks_tick(in), state' = "BLOCKING"
      PROVE  derate_ramp' = on_schedule(moved')
  <2>1. CASE state = "THEFT_CONFIRMED"
    <3>1. derate_ramp' = RAMP_INIT
      BY <1>2, <2>1, DwellStep DEF AnyNext, AnyStep
    <3>2. moved' = 0
      BY <1>2, <2>1, BlockingEntered
    <3> QED BY <3>1, <3>2, ScheduleStart
  <2>2. CASE BlockingContinues(in)
    <3>1. state = "BLOCKING" /\ derate_ramp' = next_ramp(in)
      BY <2>2 DEF BlockingContinues, blocking_goes_on
    <3>2. moved' = IF in_motion(in.vehicle_speed) THEN saturate(moved + 1, ramp_cycles)
                   ELSE moved
      BY <1>2, <3>1, BlockingTick
    <3>3. derate_ramp = on_schedule(moved)
      BY <3>1 DEF FuelClock
    <3> QED BY <1>1, <3>1, <3>2, <3>3, ScheduleStep DEF next_ramp
  <2> QED BY <1>1, <1>2, <2>1, <2>2, CycleToBlocking
<1>3. ASSUME PowerCycle \/ FactoryReset, clocks_start
      PROVE  FuelClock'
  <2>1. moved' = 0
    BY <1>3 DEF clocks_start
  <2>2. state' = "BLOCKING" => derate_ramp' = RAMP_INIT
    BY <1>3, ResumedBlocking
  <2> QED BY <2>1, <2>2, ScheduleStart DEF FuelClock
<1>4. CASE UNCHANGED timed_vars
  BY <1>4 DEF timed_vars, vars, clocks, FuelClock
<1> QED BY <1>2, <1>3, <1>4, FsmAssumption DEF TimedNext, TimedCycle, TimedPowerCycle,
        TimedFactoryReset, FuelClock

-----------------------------------------------------------------------------
(* LockoutKeepsTime *)

\* How many cycles in a row may still pass without a look at the panel before
\* the machine is back in IDLE, where every cycle looks: the one that ends
\* BLOCKING and the one that ends BLOCKED, and none unless the cycles through
\* THEFT_CONFIRMED that lead there have looked.
unseen(st) == CASE st = "IDLE"            -> 0
                [] st = "THEFT_CONFIRMED" -> 1
                [] st = "BLOCKING"        -> 2
                [] st = "BLOCKED"         -> 1

LockoutClock ==
    panel.lockout_active =>
        /\ served(panel) <= locked_for
        /\ locked_for + unseen(state) <= 2 * served(panel) + 2

\* A cycle looks at the panel and gains one cycle that may not, or does not look
\* and has used one up.
Looks(in)   == panel' = panel_auth_step(panel, in) /\ unseen(state') <= unseen(state) + 1
LooksAway   == panel' = panel /\ unseen(state') <= unseen(state) - 1

LEMMA ReturnPanel ==
    ASSUME NEW first, NEW pnl, NEW in, return_to_idle(first, pnl, in, FALSE)
    PROVE  state' = "IDLE" /\ panel' = pnl
  BY DEF return_to_idle

LEMMA CycleLooks ==
    ASSUME state \in reb_state_t, NEW in, reb_fsm_step(in)
    PROVE  Looks(in) \/ LooksAway
<1> USE DEF Looks, LooksAway, unseen, reb_state_t
<1>1. CASE IdlePanelActivates(in) \/ IdleRemoteActivates(in) \/ IdleSensorsActivate(in)
           \/ IdleWatches(in)
  BY <1>1 DEF IdlePanelActivates, IdleRemoteActivates, IdleSensorsActivate, IdleWatches,
     enter_theft_confirmed, do_transition
<1>2. CASE TheftOwnerConfirms(in) \/ TheftWindowExpires(in) \/ TheftHoldElapses(in)
           \/ TheftWindowRuns(in) \/ TheftHolds(in)
  BY <1>2 DEF TheftOwnerConfirms, TheftWindowExpires, TheftHoldElapses, TheftWindowRuns,
     TheftHolds, theft_stays, enter_blocking, do_transition, theft_goes_on
<1>3. CASE BlockingParks(in)
  <2>1. state = "BLOCKING" /\ state' = "BLOCKED" /\ panel' = panel
    BY <1>3, Zenon DEF BlockingParks, do_transition
  <2> QED BY <2>1
<1>7. CASE BlockingContinues(in) \/ BlockedStays(in)
  <2>1. state' = state /\ panel' = panel_auth_step(panel, in)
    BY <1>7, Zenon DEF BlockingContinues, BlockedStays
  <2> QED BY <2>1
<1>4. CASE TheftRemoteUnblocks(in, FALSE) \/ TheftSignalFault(in, FALSE)
           \/ TheftOwnerDenies(in, FALSE) \/ TheftWindowAborts(in, FALSE)
  <2>1. state' = "IDLE" /\ panel' = panel_auth_step(panel, in)
    BY <1>4, ReturnPanel DEF TheftRemoteUnblocks, TheftSignalFault, TheftOwnerDenies,
       TheftWindowAborts, theft_returns
  <2> QED BY <2>1
<1>5. CASE BlockingPanelUnblocks(in, FALSE) \/ BlockedPanelUnblocks(in, FALSE)
  <2>1. state' = "IDLE" /\ panel' = panel_auth_step(panel, in)
    BY <1>5, ReturnPanel DEF BlockingPanelUnblocks, BlockedPanelUnblocks
  <2> QED BY <2>1
<1>6. CASE BlockingSignalFault(in, FALSE) \/ BlockingRemoteUnblocks(in, FALSE)
           \/ BlockedRemoteUnblocks(in, FALSE)
  <2>1. state' = "IDLE" /\ panel' = panel /\ state \in {"BLOCKING", "BLOCKED"}
    BY <1>6, ReturnPanel DEF BlockingSignalFault, BlockingRemoteUnblocks, blocking_goes_on,
       BlockedRemoteUnblocks
  <2> QED BY <2>1
<1> QED BY <1>1, <1>2, <1>3, <1>4, <1>5, <1>6, <1>7 DEF reb_fsm_step, keeps_or_advances, returns

\* A look at the panel after which it is locked out started the countdown or
\* took one cycle off it.
LEMMA LockedLook ==
    ASSUME NEW ctx \in panel_auth_ctx_t, NEW in, panel_auth_step(ctx, in).lockout_active
    PROVE  IF ctx.lockout_active
           THEN panel_auth_step(ctx, in).lockout_timer = ctx.lockout_timer - 1
           ELSE panel_auth_step(ctx, in).lockout_timer = LOCKOUT_CYCLES
<1> DEFINE seen == [ctx EXCEPT !.prev_auth_pulse = in.auth_manual_out,
                               !.prev_cancel_req = in.cancel_request]
<1>1. /\ seen.lockout_active = ctx.lockout_active /\ seen.lockout_timer = ctx.lockout_timer
      /\ DOMAIN seen = DOMAIN ctx
      /\ {"lockout_active", "lockout_timer", "wrong_cnt", "auth_ok"} \subseteq DOMAIN seen
  BY DEF panel_auth_ctx_t
<1> HIDE DEF seen
<1>2. CASE ctx.lockout_active
  <2>1. panel_auth_step(ctx, in) = lockout_tick(seen)
    BY <1>2, Zenon DEF panel_auth_step, panel_auth_ok, panel_auth_fails, panel_attempt, seen
  <2> QED BY <1>1, <1>2, <2>1 DEF lockout_tick
<1>3. CASE ~ctx.lockout_active /\ panel_auth_ok(ctx, in)
  <2>1. panel_auth_step(ctx, in) = [seen EXCEPT !.wrong_cnt = 0, !.auth_ok = TRUE]
    BY <1>3, Zenon DEF panel_auth_step, panel_auth_ok, panel_auth_fails, panel_attempt, seen
  <2> QED BY <1>1, <1>3, <2>1
<1>4. CASE ~ctx.lockout_active /\ panel_auth_fails(ctx, in)
  <2>1. CASE ctx.wrong_cnt + 1 < MAX_AUTH_ATTEMPTS
    <3>1. panel_auth_step(ctx, in).lockout_active = ctx.lockout_active
      BY <1>4, <2>1, PanelAssumption
         DEF panel_auth_step, panel_auth_ok, panel_auth_fails, panel_attempt, panel_auth_ctx_t
    <3> QED BY <1>4, <3>1
  <2>2. CASE ~(ctx.wrong_cnt + 1 < MAX_AUTH_ATTEMPTS)
    <3>1. panel_auth_step(ctx, in) = [seen EXCEPT !.wrong_cnt      = MAX_AUTH_ATTEMPTS,
                                                  !.lockout_active = TRUE,
                                                  !.lockout_timer  = LOCKOUT_CYCLES,
                                                  !.auth_ok        = FALSE]
      BY <1>4, <2>2, PanelAssumption
         DEF panel_auth_step, panel_auth_ok, panel_auth_fails, panel_attempt, seen,
             panel_auth_ctx_t
    <3> QED BY <1>1, <1>4, <3>1
  <2> QED BY <2>1, <2>2
<1>5. CASE ~ctx.lockout_active /\ ~panel_auth_ok(ctx, in) /\ ~panel_auth_fails(ctx, in)
  <2>1. panel_auth_step(ctx, in) = seen
    BY <1>5, Zenon DEF panel_auth_step, seen
  <2> QED BY <1>1, <1>5, <2>1
<1> QED BY <1>2, <1>3, <1>4, <1>5

LEMMA LockoutTick ==
    ASSUME ClocksTyped, NEW in, clocks_tick(in), panel'.lockout_active
    PROVE  locked_for' = IF panel.lockout_active
                         THEN saturate(locked_for + 1, lockout_limit) ELSE 0
  BY Zenon DEF clocks_tick, ticked

LEMMA LockoutStep ==
    ASSUME TypeInv, TypeInv', ClocksTyped, LockoutClock, [TimedNext]_timed_vars
    PROVE  LockoutClock'
<1>1. /\ panel \in panel_auth_ctx_t /\ panel' \in panel_auth_ctx_t
      /\ panel.lockout_timer \in 0..LOCKOUT_CYCLES /\ panel'.lockout_timer \in 0..LOCKOUT_CYCLES
      /\ LOCKOUT_CYCLES \in Nat /\ locked_for \in Nat
      /\ state \in reb_state_t /\ state' \in reb_state_t
  BY Limits DEF TypeInv, ContextTypeOK, panel_auth_ctx_t, ClocksTyped
<1>2. unseen(state) \in 0..2 /\ unseen(state') \in 0..2
  BY <1>1 DEF unseen, reb_state_t
<1>3. /\ served(panel) = LOCKOUT_CYCLES - panel.lockout_timer
      /\ served(panel') = LOCKOUT_CYCLES - panel'.lockout_timer
  BY DEF served
<1>4. ASSUME NEW in, reb_fsm_step(in), clocks_tick(in), panel'.lockout_active
      PROVE  /\ served(panel') <= locked_for'
             /\ locked_for' + unseen(state') <= 2 * served(panel') + 2
  <2>1. Looks(in) \/ LooksAway
    BY <1>1, <1>4, CycleLooks
  <2>2. CASE ~panel.lockout_active
    <3>1. panel' = panel_auth_step(panel, in)
      BY <1>4, <2>1, <2>2 DEF Looks, LooksAway
    <3>2. panel'.lockout_timer = LOCKOUT_CYCLES /\ locked_for' = 0
      BY <1>1, <1>4, <2>2, <3>1, LockedLook, LockoutTick
    <3> QED BY <1>1, <1>2, <1>3, <3>2
  <2>3. CASE panel.lockout_active
    <3>1. /\ served(panel) <= locked_for
          /\ locked_for + unseen(state) <= 2 * served(panel) + 2
      BY <2>3 DEF LockoutClock
    <3>2. locked_for' = saturate(locked_for + 1, lockout_limit)
      BY <1>4, <2>3, LockoutTick
    <3>3. locked_for' \in Nat /\ locked_for' <= locked_for + 1
          /\ locked_for' >= IF locked_for + 1 > LOCKOUT_CYCLES THEN LOCKOUT_CYCLES
                            ELSE locked_for + 1
      BY <1>1, <3>2 DEF saturate, lockout_limit
    <3>4. CASE Looks(in)
      <4>1. panel'.lockout_timer = panel.lockout_timer - 1
        BY <1>1, <1>4, <2>3, <3>4, LockedLook DEF Looks
      <4>2. unseen(state') <= unseen(state) + 1
        BY <3>4 DEF Looks
      <4> HIDE DEF Looks
      <4> QED BY <1>1, <1>2, <1>3, <3>1, <3>3, <4>1, <4>2
    <3>5. CASE LooksAway
      <4>1. panel' = panel /\ unseen(state') <= unseen(state) - 1
        BY <3>5 DEF LooksAway
      <4> QED BY <1>1, <1>2, <1>3, <3>1, <3>3, <4>1
    <3> QED BY <2>1, <3>4, <3>5
  <2> QED BY <2>2, <2>3
<1>5. ASSUME clocks_start, panel'.lockout_active
      PROVE  /\ served(panel') <= locked_for'
             /\ locked_for' + unseen(state') <= 2 * served(panel') + 2
  <2>1. locked_for' = served(panel')
    BY <1>5 DEF clocks_start
  <2> QED BY <1>1, <1>2, <1>3, <2>1
<1>6. CASE UNCHANGED timed_vars
  BY <1>6 DEF timed_vars, vars, clocks, LockoutClock
<1> QED BY <1>4, <1>5, <1>6 DEF TimedNext, TimedCycle, TimedPowerCycle, TimedFactoryReset,
        LockoutClock

-----------------------------------------------------------------------------
(* The theorems *)

DeadlineInv == ClocksTyped /\ TheftClock /\ BlockingClock /\ FuelClock /\ LockoutClock

LEMMA DeadlineInvariant ==
    TimedSpec => [](DwellInv /\ MemoryMirrorsState /\ FuelFollowsRamp /\ DeadlineInv)
<1>1. TimedInit => DeadlineInv
  <2> SUFFICES ASSUME TimedInit PROVE DeadlineInv
    OBVIOUS
  <2>1. state = "IDLE" /\ ~panel.lockout_active
    BY DEF TimedInit, Init, panel_auth_init
  <2> QED BY <2>1, Limits DEF TimedInit, DeadlineInv, ClocksTyped, TheftClock, BlockingClock,
          FuelClock, LockoutClock
<1>2. /\ DwellInv /\ MemoryMirrorsState /\ (DwellInv /\ MemoryMirrorsState)'
      /\ DeadlineInv /\ [TimedNext]_timed_vars
      => DeadlineInv'
  <2>1. DwellInv => TypeInv /\ panel \in panel_auth_ctx_t
    BY DEF DwellInv, TypeInv, ContextTypeOK
  <2>2. DwellInv' => TypeInv' /\ panel' \in panel_auth_ctx_t
    BY DEF DwellInv, TypeInv, ContextTypeOK
  <2> QED BY <2>1, <2>2, ClocksTypeStep, TheftStep, BlockingStep, FuelScheduleStep, LockoutStep
          DEF DeadlineInv
<1>3. TimedSpec => [](DwellInv /\ MemoryMirrorsState /\ FuelFollowsRamp)
  BY TimedImplementsFsm, DwellInvariant, FuelFollows, PTL
<1> QED BY <1>1, <1>2, <1>3, PTL DEF TimedSpec

\* A theft confirmed at the panel or by a command leaves THEFT_CONFIRMED within
\* the hold, and one the sensors found within the owner's window.
THEOREM TheftInTime == TimedSpec => []TheftEndsInTime
<1>1. DwellInv /\ DeadlineInv => TheftEndsInTime
  <2>1. DwellInv => rw \in rw_ctx_t /\ (rw.active => rw.timer_cycles < T_REVERSAL_CYCLES)
    BY DEF DwellInv, TypeInv, ContextTypeOK, CountersBelowLimits, rw_counting
  <2>2. rw \in rw_ctx_t => rw.timer_cycles \in Nat
    BY WindowAssumption DEF rw_ctx_t
  <2> QED BY <2>1, <2>2, Limits DEF DeadlineInv, ClocksTyped, TheftClock, TheftEndsInTime
<1> QED BY <1>1, DeadlineInvariant, PTL

\* A vehicle that stands still through the dwell leaves BLOCKING.
THEOREM DwellEndsInTime == TimedSpec => []BlockedInTime
<1>1. DeadlineInv => BlockedInTime
  BY DEF DeadlineInv, BlockingClock, BlockedInTime
<1> QED BY <1>1, DeadlineInvariant, PTL

\* The fuel command is full fuel less one step per cycle in motion.
THEOREM FuelKeepsSchedule == TimedSpec => []FuelOnSchedule
<1>1. DeadlineInv /\ FuelFollowsRamp => FuelOnSchedule
  BY DEF DeadlineInv, FuelClock, FuelFollowsRamp, FuelOnSchedule
<1> QED BY <1>1, DeadlineInvariant, PTL

\* A lockout is served in full and ends, power cycles within it included, after
\* at most twice its length and two cycles.
THEOREM LockoutInTime == TimedSpec => []LockoutKeepsTime
<1>1. DwellInv /\ DeadlineInv => LockoutKeepsTime
  <2> SUFFICES ASSUME DwellInv, DeadlineInv, panel.lockout_active PROVE LockoutKeepsTime
    BY DEF LockoutKeepsTime
  <2>1. /\ state \in reb_state_t /\ panel.lockout_timer \in 0..LOCKOUT_CYCLES
        /\ LOCKOUT_CYCLES \in Nat /\ locked_for \in Nat
    BY Limits DEF DwellInv, DeadlineInv, ClocksTyped, TypeInv, ContextTypeOK, panel_auth_ctx_t
  <2>2. unseen(state) \in 0..2
    BY <2>1 DEF unseen, reb_state_t
  <2> QED BY <2>1, <2>2 DEF DeadlineInv, LockoutClock, LockoutKeepsTime, served
<1> QED BY <1>1, DeadlineInvariant, PTL
=============================================================================
