--------------------------- MODULE OperatorLemmas ---------------------------
(***************************************************************************)
(* What the operators RebFsm is built from return and preserve.            *)
(***************************************************************************)
EXTENDS RebFsm, TLAPS

-----------------------------------------------------------------------------
(* Integer division, as lockout_remaining_s and the derating ramp use it *)

\* A quotient is bounded by the factor that the dividend is bounded by.
LEMMA DivBounds ==
    ASSUME NEW b \in Nat \ {0}, NEW a \in Nat, NEW r \in 0..(a * b)
    PROVE  r \div b \in 0..a
  OBVIOUS

\* Division undoes multiplication.
LEMMA DivExact ==
    ASSUME NEW b \in Nat \ {0}, NEW a \in Nat
    PROVE  (a * b) \div b = a
  OBVIOUS

\* Division is monotonic.
LEMMA DivMonotonic ==
    ASSUME NEW b \in Nat \ {0}, NEW a \in Nat, NEW r \in 0..a
    PROVE  r \div b \in 0..(a \div b)
  OBVIOUS

\* Multiplying back never exceeds the dividend.
LEMMA DivTimes ==
    ASSUME NEW b \in Nat \ {0}, NEW a \in Nat, NEW q \in 0..(a \div b)
    PROVE  q * b \in 0..a
  OBVIOUS

-----------------------------------------------------------------------------
(* PanelAuth *)

\* panel_auth_init leaves a well-typed context.
LEMMA PanelInitType == panel_auth_init \in panel_auth_ctx_t
  BY PanelAssumption DEF panel_auth_init, panel_auth_ctx_t

\* panel_auth_step keeps the context well typed: wrong_cnt stops at
\* MAX_AUTH_ATTEMPTS and the countdown at zero.
LEMMA PanelStepType ==
    ASSUME NEW ctx \in panel_auth_ctx_t, NEW in \in reb_inputs_t
    PROVE  panel_auth_step(ctx, in) \in panel_auth_ctx_t
<1> DEFINE seen == [ctx EXCEPT !.prev_auth_pulse = in.auth_manual_out,
                               !.prev_cancel_req = in.cancel_request]
<1>1. /\ in.auth_manual_out \in BOOLEAN
      /\ in.cancel_request \in BOOLEAN
  BY DEF reb_inputs_t
<1>2. /\ ctx.wrong_cnt \in 0..MAX_AUTH_ATTEMPTS
      /\ ctx.lockout_timer \in 0..LOCKOUT_CYCLES
  BY DEF panel_auth_ctx_t
<1>3. /\ 0 \in 0..MAX_AUTH_ATTEMPTS
      /\ MAX_AUTH_ATTEMPTS \in 0..MAX_AUTH_ATTEMPTS
      /\ LOCKOUT_CYCLES \in 0..LOCKOUT_CYCLES
  BY PanelAssumption
<1>4. /\ seen \in panel_auth_ctx_t
      /\ seen.lockout_timer = ctx.lockout_timer
      /\ seen.wrong_cnt = ctx.wrong_cnt
  BY <1>1, Zenon DEF panel_auth_ctx_t
<1> HIDE DEF seen
<1>5. lockout_tick(seen) \in panel_auth_ctx_t
  <2>1. CASE seen.lockout_timer > 0
    <3>1. seen.lockout_timer - 1 \in 0..LOCKOUT_CYCLES
      BY <1>2, <1>4, <2>1, PanelAssumption
    <3>2. [seen EXCEPT !.lockout_timer = @ - 1] \in panel_auth_ctx_t
      BY <1>4, <3>1, Zenon DEF panel_auth_ctx_t
    <3> QED BY <2>1, <3>2 DEF lockout_tick
  <2>2. CASE ~(seen.lockout_timer > 0)
    <3>1. [seen EXCEPT !.lockout_active = FALSE, !.wrong_cnt = 0] \in panel_auth_ctx_t
      BY <1>3, <1>4, Zenon DEF panel_auth_ctx_t
    <3> QED BY <2>2, <3>1 DEF lockout_tick
  <2> QED BY <2>1, <2>2
<1>6. [seen EXCEPT !.wrong_cnt = 0, !.auth_ok = TRUE] \in panel_auth_ctx_t
  BY <1>3, <1>4, Zenon DEF panel_auth_ctx_t
<1>7. ASSUME ctx.wrong_cnt + 1 < MAX_AUTH_ATTEMPTS
      PROVE  [seen EXCEPT !.wrong_cnt = @ + 1, !.auth_ok = FALSE] \in panel_auth_ctx_t
  <2>1. seen.wrong_cnt + 1 \in 0..MAX_AUTH_ATTEMPTS
    BY <1>2, <1>4, <1>7, PanelAssumption
  <2> QED BY <1>4, <2>1, Zenon DEF panel_auth_ctx_t
<1>8. [seen EXCEPT !.wrong_cnt      = MAX_AUTH_ATTEMPTS,
                   !.lockout_active = TRUE,
                   !.lockout_timer  = LOCKOUT_CYCLES,
                   !.auth_ok        = FALSE] \in panel_auth_ctx_t
  BY <1>3, <1>4, Zenon DEF panel_auth_ctx_t
<1> QED BY <1>4, <1>5, <1>6, <1>7, <1>8, Zenon DEF panel_auth_step, seen

\* What persist_state keeps of the countdown fits the snapshot.
LEMMA LockoutRemainingType ==
    ASSUME NEW ctx \in panel_auth_ctx_t
    PROVE  lockout_remaining_s(ctx) \in 0..(LOCKOUT_CYCLES \div CYCLES_PER_SECOND)
  BY DivMonotonic, PanelAssumption DEF lockout_remaining_s, panel_auth_ctx_t

\* The panel restored from a snapshot is well typed.
LEMMA PanelRestoreType ==
    ASSUME NEW wrong_cnt \in 0..MAX_AUTH_ATTEMPTS, NEW lockout_active \in BOOLEAN,
           NEW remaining_s \in 0..(LOCKOUT_CYCLES \div CYCLES_PER_SECOND)
    PROVE  panel_restore(wrong_cnt, lockout_active, remaining_s) \in panel_auth_ctx_t
<1>1. remaining_s * CYCLES_PER_SECOND \in 0..LOCKOUT_CYCLES
  BY DivTimes, PanelAssumption
<1> QED BY <1>1, PanelInitType, Zenon DEF panel_restore, panel_auth_ctx_t

-----------------------------------------------------------------------------
(* SensorFusion and ReversalWindow *)

\* sf_init is well typed and counting.
LEMMA FusionInitType == sf_init \in sf_ctx_t /\ sf_counting(sf_init)
  BY FusionAssumption DEF sf_init, sf_ctx_t, sf_counting

\* The detector keeps its counter within the debounce, and below it until it
\* fires.
LEMMA FusionStepType ==
    ASSUME NEW ctx \in sf_ctx_t, sf_counting(ctx), NEW in
    PROVE  sf_step(ctx, in) \in sf_ctx_t /\ sf_counting(sf_step(ctx, in))
<1>1. ctx.debounce_cnt \in 0..FUSION_DEBOUNCE_CYCLES /\ ctx.active \in BOOLEAN
  BY DEF sf_ctx_t
<1> DEFINE n == ctx.debounce_cnt + 1
           up == [ debounce_cnt |-> n, active |-> n >= FUSION_DEBOUNCE_CYCLES ]
<1>2. ASSUME ~ctx.active
      PROVE  up \in sf_ctx_t /\ sf_counting(up)
  <2>1. n \in 0..FUSION_DEBOUNCE_CYCLES
    BY <1>1, <1>2, FusionAssumption DEF sf_counting
  <2>2. ~(n >= FUSION_DEBOUNCE_CYCLES) => n < FUSION_DEBOUNCE_CYCLES
    BY <2>1, FusionAssumption
  <2>3. (n >= FUSION_DEBOUNCE_CYCLES) \in BOOLEAN
    OBVIOUS
  <2> HIDE DEF n
  <2> QED BY <2>1, <2>2, <2>3, Zenon DEF sf_ctx_t, sf_counting
<1> HIDE DEF up
<1> QED BY <1>2, FusionInitType, Zenon DEF sf_step, up

\* rw_init, rw_start and rw_cancel leave a well-typed window below its limit.
LEMMA WindowInitType ==
    /\ rw_init \in rw_ctx_t /\ rw_counting(rw_init)
    /\ rw_start \in rw_ctx_t /\ rw_counting(rw_start)
<1>1. 0 \in 0..T_REVERSAL_CYCLES /\ 0 < T_REVERSAL_CYCLES
  BY WindowAssumption
<1> QED BY <1>1, Zenon DEF rw_init, rw_start, rw_ctx_t, rw_counting

\* rw_cancel and rw_set_actuation_issued keep it so.
LEMMA WindowMarkType ==
    ASSUME NEW ctx \in rw_ctx_t, rw_counting(ctx)
    PROVE  /\ rw_cancel(ctx) \in rw_ctx_t /\ rw_counting(rw_cancel(ctx))
           /\ rw_set_actuation_issued(ctx) \in rw_ctx_t
           /\ rw_counting(rw_set_actuation_issued(ctx))
<1>1. 0 \in 0..T_REVERSAL_CYCLES
  BY WindowAssumption
<1> QED BY <1>1, Zenon DEF rw_cancel, rw_set_actuation_issued, rw_ctx_t, rw_counting

\* rw_step keeps it so: the window closes in the cycle that reaches the limit.
LEMMA WindowStepType ==
    ASSUME NEW ctx \in rw_ctx_t, rw_counting(ctx), NEW ok \in BOOLEAN
    PROVE  rw_step(ctx, ok) \in rw_ctx_t /\ rw_counting(rw_step(ctx, ok))
<1>1. CASE ~ctx.active
  BY <1>1, Zenon DEF rw_step
<1>2. CASE ctx.active
  <2> DEFINE open == ~rw_aborts(ctx, ok) /\ ~rw_expires(ctx, ok)
  <2>1. ctx.timer_cycles + 1 \in 0..T_REVERSAL_CYCLES
    BY <1>2, WindowAssumption DEF rw_ctx_t, rw_counting
  <2>2. open => ctx.timer_cycles + 1 < T_REVERSAL_CYCLES
    BY <1>2, <2>1, WindowAssumption DEF rw_expires
  <2>3. open \in BOOLEAN
    BY DEF rw_aborts, rw_expires
  <2>4. rw_step(ctx, ok) = [ctx EXCEPT !.timer_cycles = @ + 1, !.active = open]
    BY <1>2, Zenon DEF rw_step
  <2> HIDE DEF open
  <2> QED BY <2>1, <2>2, <2>3, <2>4, Zenon DEF rw_ctx_t, rw_counting
<1> QED BY <1>1, <1>2

-----------------------------------------------------------------------------
(* Actuators *)

\* act_init leaves a well-typed output.
LEMMA ActInitType == act_init \in actuator_output_t
<1>1. DERATE_PCT_INIT \in 0..DERATE_PCT_INIT
  BY ActuatorAssumption
<1> QED BY <1>1, Zenon DEF act_init, actuator_output_t

\* act_set_starter_inhibit changes the inhibit and nothing else.
LEMMA ActInhibitType ==
    ASSUME NEW out \in actuator_output_t, NEW inhibit \in BOOLEAN
    PROVE  /\ act_set_starter_inhibit(inhibit, out) \in actuator_output_t
           /\ act_set_starter_inhibit(inhibit, out).starter_inhibit_active = inhibit
           /\ act_set_starter_inhibit(inhibit, out).derate_pct = out.derate_pct
           /\ act_set_starter_inhibit(inhibit, out).fuel_derating_active
                = out.fuel_derating_active
  BY Zenon DEF act_set_starter_inhibit, actuator_output_t

\* act_apply_derate for a moving vehicle in BLOCKING: whatever percentage it is
\* given, the command is not below the floor; the starter is left alone.
LEMMA ActDerateMoving ==
    ASSUME NEW out \in actuator_output_t, NEW speed, in_motion(speed),
           NEW pct \in 0..DERATE_PCT_INIT
    PROVE  LET new == act_apply_derate("BLOCKING", speed, pct, out)
           IN  /\ new \in actuator_output_t
               /\ new.derate_pct = IF pct > FUEL_FLOOR_PCT THEN pct ELSE FUEL_FLOOR_PCT
               /\ new.fuel_derating_active = TRUE
               /\ new.starter_inhibit_active = out.starter_inhibit_active
<1> DEFINE floored == IF pct > FUEL_FLOOR_PCT THEN pct ELSE FUEL_FLOOR_PCT
<1>1. floored \in 0..DERATE_PCT_INIT
  BY ActuatorAssumption
<1>2. act_apply_derate("BLOCKING", speed, pct, out)
        = [out EXCEPT !.derate_pct = floored, !.fuel_derating_active = TRUE]
  BY Zenon DEF act_apply_derate
<1> HIDE DEF floored
<1>3. LET new == [out EXCEPT !.derate_pct = floored, !.fuel_derating_active = TRUE]
      IN  /\ new \in actuator_output_t
          /\ new.derate_pct = floored
          /\ new.fuel_derating_active = TRUE
          /\ new.starter_inhibit_active = out.starter_inhibit_active
  BY <1>1, Zenon DEF actuator_output_t
<1> QED BY <1>2, <1>3, Zenon DEF floored

\* act_apply_derate in BLOCKED: full fuel.
LEMMA ActDerateBlocked ==
    ASSUME NEW out \in actuator_output_t, NEW speed, NEW pct
    PROVE  LET new == act_apply_derate("BLOCKED", speed, pct, out)
           IN  /\ new \in actuator_output_t
               /\ new.derate_pct = DERATE_PCT_INIT
               /\ new.fuel_derating_active = FALSE
<1>1. DERATE_PCT_INIT \in 0..DERATE_PCT_INIT
  BY ActuatorAssumption
<1>2. act_apply_derate("BLOCKED", speed, pct, out)
        = [out EXCEPT !.derate_pct = DERATE_PCT_INIT, !.fuel_derating_active = FALSE]
  BY Zenon DEF act_apply_derate
<1> QED BY <1>1, <1>2, Zenon DEF actuator_output_t

\* starter_init is well typed and does not inhibit.
LEMMA StarterInitType == starter_init \in starter_ctx_t /\ ~starter_init.inhibit_active
<1>1. 0 \in 0..(RETRANSMIT_BLOCK_TIMEOUT_CYCLES - 1)
  BY ActuatorAssumption
<1> QED BY <1>1, Zenon DEF starter_init, starter_ctx_t

\* starter_step keeps its repeat counter below the period.
LEMMA StarterStepType ==
    ASSUME NEW ctx \in starter_ctx_t
    PROVE  starter_step(ctx) \in starter_ctx_t
<1> DEFINE due  == ctx.retransmit_timer + 1 >= RETRANSMIT_BLOCK_TIMEOUT_CYCLES
           next == IF due THEN 0 ELSE ctx.retransmit_timer + 1
<1>1. /\ next \in 0..(RETRANSMIT_BLOCK_TIMEOUT_CYCLES - 1)
      /\ 0 \in 0..(RETRANSMIT_BLOCK_TIMEOUT_CYCLES - 1)
  BY ActuatorAssumption DEF starter_ctx_t
<1>2. due \in BOOLEAN
  OBVIOUS
<1>3. starter_step(ctx) = IF ~ctx.inhibit_active
        THEN [ inhibit_active |-> TRUE, retransmit_timer |-> 0, cmd_pending |-> TRUE ]
        ELSE [ inhibit_active |-> TRUE, retransmit_timer |-> next, cmd_pending |-> due ]
  BY Zenon DEF starter_step
<1> HIDE DEF due, next
<1>4. [ inhibit_active |-> TRUE, retransmit_timer |-> 0, cmd_pending |-> TRUE ]
        \in starter_ctx_t
  BY <1>1, Zenon DEF starter_ctx_t
<1>5. [ inhibit_active |-> TRUE, retransmit_timer |-> next, cmd_pending |-> due ]
        \in starter_ctx_t
  BY <1>1, <1>2, Zenon DEF starter_ctx_t
<1> QED BY <1>3, <1>4, <1>5, Zenon

\* alert_mgr_init, alert_mgr_stop and alert_mgr_start.
LEMMA AlertInitType ==
    /\ alert_mgr_init \in alert_ctx_t /\ ~alert_mgr_init.alerts_active
    /\ alert_mgr_stop \in alert_ctx_t /\ ~alert_mgr_stop.alerts_active
    /\ alert_mgr_start \in alert_ctx_t /\ alert_mgr_start.alerts_active
<1>1. 0 \in 0..(HORN_HALF_PERIOD_CYCLES - 1)
  BY ActuatorAssumption
<1> QED BY <1>1, Zenon DEF alert_mgr_init, alert_mgr_stop, alert_mgr_start, alert_ctx_t

\* alert_mgr_step moves the horn only.
LEMMA AlertStepType ==
    ASSUME NEW ctx \in alert_ctx_t
    PROVE  /\ alert_mgr_step(ctx) \in alert_ctx_t
           /\ alert_mgr_step(ctx).alerts_active = ctx.alerts_active
<1> DEFINE toggles == ctx.horn_timer + 1 >= HORN_HALF_PERIOD_CYCLES
           next    == IF toggles THEN 0 ELSE ctx.horn_timer + 1
           horn    == IF toggles THEN ~ctx.horn_state ELSE ctx.horn_state
<1>1. next \in 0..(HORN_HALF_PERIOD_CYCLES - 1)
  BY ActuatorAssumption DEF alert_ctx_t
<1>2. horn \in BOOLEAN
  BY DEF alert_ctx_t
<1>3. alert_mgr_step(ctx) = IF ctx.alerts_active
                            THEN [ctx EXCEPT !.horn_timer = next, !.horn_state = horn]
                            ELSE ctx
  BY Zenon DEF alert_mgr_step
<1> HIDE DEF next, horn
<1> QED BY <1>1, <1>2, <1>3, Zenon DEF alert_ctx_t

-----------------------------------------------------------------------------
(* RebFsm *)

\* The floor of the ramp is below its start, and both are percentages.
LEMMA RampConstants ==
    /\ RAMP_INIT \in Nat
    /\ RAMP_FLOOR \in 0..RAMP_INIT
    /\ RAMP_INIT \div RAMP_SCALE = DERATE_PCT_INIT
  BY DivExact, FsmAssumption, ActuatorAssumption DEF RAMP_INIT, RAMP_FLOOR

\* calc_derate_ramp keeps the ramp between its floor and where it was, or at the
\* floor.
LEMMA CalcDerateRampBounds ==
    ASSUME NEW ramp \in 0..RAMP_INIT
    PROVE  /\ calc_derate_ramp(ramp) \in RAMP_FLOOR..RAMP_INIT
           /\ calc_derate_ramp(ramp) \in 0..RAMP_INIT
  BY RampConstants, FsmAssumption DEF calc_derate_ramp

\* A ramp not below its floor is a percentage not below the fuel floor.
LEMMA RampPercent ==
    ASSUME NEW ramp \in 0..RAMP_INIT
    PROVE  /\ ramp \div RAMP_SCALE \in 0..DERATE_PCT_INIT
           /\ ramp >= RAMP_FLOOR => ramp \div RAMP_SCALE >= FUEL_FLOOR_PCT
  BY DivBounds, FsmAssumption, ActuatorAssumption DEF RAMP_INIT, RAMP_FLOOR

\* saturate stays within its limit, count_to below its period.
LEMMA CounterTypes ==
    /\ \A n \in Nat, top \in Nat : saturate(n, top) \in 0..top
    /\ \A period \in Nat \ {0} : \A timer \in 0..(period - 1) :
          count_to(timer, period) \in 0..(period - 1)
  BY DEF saturate, count_to

\* A snapshot of well-typed values is well typed.
LEMMA SnapshotType ==
    ASSUME NEW st \in reb_state_t, NEW phase \in reb_block_phase_t,
           NEW src \in activation_source_t, NEW nonce \in 0..MAX_NONCE,
           NEW parked \in 0..T_PARKED_CYCLES, NEW min_after \in 0..T_MIN_AFTER_CYCLES,
           NEW ramp \in 0..RAMP_INIT, NEW pnl \in panel_auth_ctx_t
    PROVE  snapshot(st, phase, src, nonce, parked, min_after, ramp, pnl) \in nvm_data_t
<1>1. pnl.wrong_cnt \in 0..MAX_AUTH_ATTEMPTS /\ pnl.lockout_active \in BOOLEAN
  BY DEF panel_auth_ctx_t
<1> QED BY <1>1, LockoutRemainingType, Zenon DEF snapshot, nvm_data_t

\* sec_mgr_verify only ever raises the last nonce, to one a command carried.
LEMMA NonceAfterType ==
    ASSUME NEW nonce \in 0..MAX_NONCE, NEW in \in reb_inputs_t
    PROVE  /\ nonce_after(nonce, in) \in 0..MAX_NONCE
           /\ nonce_after(nonce, in) >= nonce
           /\ sec_mgr_verify(nonce, in) => /\ nonce_after(nonce, in) = in.cmd_nonce
                                            /\ in.cmd_nonce > nonce
<1>1. in.cmd_nonce \in 0..MAX_NONCE
  BY DEF reb_inputs_t
<1> QED BY <1>1, SecurityAssumption DEF nonce_after, sec_mgr_verify
=============================================================================
