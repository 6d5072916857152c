------------------------------- MODULE RebFsm -------------------------------
(***************************************************************************)
(* The main state machine (fsm.c).  reb_fsm_step runs once per 10 ms       *)
(* solver cycle on a snapshot of inputs; every branch of its four state    *)
(* handlers is one action here, with the state entry that follows it, and  *)
(* a power cycle may happen between any two cycles.                        *)
(*                                                                         *)
(* An input record is one reb_inputs_t.  Its field speed_is_valid is the   *)
(* verdict speed_is_valid() of the cycle (powertrain validation and the    *)
(* status of the speed signal), which is left free.  Event records, the    *)
(* outputs copied from the state, and the fields prev_state,               *)
(* unblock_requested, nvm_state_loaded and signal_fault_locked (written,   *)
(* never read by the machine) are left out.                                *)
(***************************************************************************)
EXTENDS Sequences, PanelAuth, SensorFusion, ReversalWindow, SecurityManager, Actuators

CONSTANTS
    Inputs,                     \* the reb_inputs_t a cycle may see
    T_PARKED_CYCLES,            \* dwell before BLOCKED
    T_MIN_AFTER_CYCLES,         \* hold in THEFT_CONFIRMED, panel and remote
    RAMP_SCALE,                 \* units of derate_ramp in one percent
    DERATE_STEP,                \* DERATE_RATE_PCT_S * REB_TS_S, in those units
    STATUS_PERIOD_CYCLES,       \* period of REB_STATUS
    DERATE_CMD_PERIOD_CYCLES    \* period of REB_DERATE_CMD

reb_state_t         == {"IDLE", "THEFT_CONFIRMED", "BLOCKING", "BLOCKED"}
reb_block_phase_t   == {"PREALERT", "DERATING", "PARKED"}
activation_source_t == {"PANEL", "REMOTE", "AUTO"}

reb_inputs_t ==
    [ vehicle_speed         : Nat,              \* tenths of km/h
      speed_is_valid        : BOOLEAN,
      accel_peak            : Int,
      glass_break_flag      : Int,
      ip_rx_ok              : BOOLEAN,
      sms_rx_ok             : BOOLEAN,
      auth_blocked_remote   : BOOLEAN,
      auth_block_automatic  : {"PENDING", "YES", "NO"},
      remote_unblock_remote : BOOLEAN,
      cmd_nonce             : 0..MAX_NONCE,
      cmd_timestamp_ms      : Nat,
      cmd_sig_ok            : BOOLEAN,
      tcu_ack               : BOOLEAN,
      cancel_request        : BOOLEAN,
      auth_manual_out       : BOOLEAN,
      password_attempt      : {PANEL_PASSWORD_HASH, "WRONG"},
      sim_time_ms           : Nat ]

ASSUME FsmAssumption ==
    /\ Inputs \subseteq reb_inputs_t
    /\ T_PARKED_CYCLES \in Nat \ {0}
    /\ T_MIN_AFTER_CYCLES \in Nat \ {0}
    /\ RAMP_SCALE \in Nat \ {0}
    /\ DERATE_STEP \in Nat \ {0}
    /\ STATUS_PERIOD_CYCLES \in Nat \ {0}
    /\ DERATE_CMD_PERIOD_CYCLES \in Nat \ {0}

RAMP_INIT  == DERATE_PCT_INIT * RAMP_SCALE
RAMP_FLOOR == FUEL_FLOOR_PCT * RAMP_SCALE

VARIABLES
    state, block_phase, source,         \* ctx->fsm
    parked_timer, min_after_timer,      \* ctx->fsm, saturating at their limits
    last_nonce,                         \* ctx->sec
    panel, sf, rw, act, starter, alert, \* the contexts of the sub-modules
    derate_ramp,                        \* ctx->derate_ramp in RAMP_SCALE units
    status_timer, derate_timer,         \* transmission counters
    nvm_sim_valid, nvm_sim_buf,         \* nvm.c
    still,      \* history: cycles stopped in a row, up to T_PARKED_CYCLES
    acted       \* history: the nonces that moved the machine, in order

nvm_vars == <<nvm_sim_valid, nvm_sim_buf>>
vars == <<state, block_phase, source, parked_timer, min_after_timer, last_nonce,
          panel, sf, rw, act, starter, alert, derate_ramp, status_timer,
          derate_timer, nvm_sim_valid, nvm_sim_buf, still, acted>>

-----------------------------------------------------------------------------
(* Non-volatile memory *)

nvm_data_t ==
    [ last_state          : reb_state_t,
      last_block_phase    : reb_block_phase_t,
      last_source         : activation_source_t,
      last_nonce          : 0..MAX_NONCE,
      parked_timer        : 0..T_PARKED_CYCLES,
      min_after_timer     : 0..T_MIN_AFTER_CYCLES,
      derate_ramp         : 0..RAMP_INIT,
      panel_wrong_cnt     : 0..MAX_AUTH_ATTEMPTS,
      lockout_active      : BOOLEAN,
      lockout_remaining_s : 0..(LOCKOUT_CYCLES \div CYCLES_PER_SECOND) ]

\* The record persist_state builds (its log snapshot left out).
snapshot(st, phase, src, nonce, parked, min_after, ramp, pnl) ==
    [ last_state          |-> st,
      last_block_phase    |-> phase,
      last_source         |-> src,
      last_nonce          |-> nonce,
      parked_timer        |-> parked,
      min_after_timer     |-> min_after,
      derate_ramp         |-> ramp,
      panel_wrong_cnt     |-> pnl.wrong_cnt,
      lockout_active      |-> pnl.lockout_active,
      lockout_remaining_s |-> lockout_remaining_s(pnl) ]

nvm_write_state(data) ==
    /\ nvm_sim_valid' = TRUE
    /\ nvm_sim_buf' = data

\* What reb_fsm_init leaves when there is nothing to restore.
factory_defaults ==
    snapshot("IDLE", "PREALERT", "REMOTE", 0, 0, 0, RAMP_INIT, panel_auth_init)

\* The zeroed buffer, before the first write and after nvm_invalidate.
nvm_zero == snapshot("IDLE", "PREALERT", "PANEL", 0, 0, 0, 0, panel_auth_init)

\* The actuator layer after the restore: only a restored BLOCKED inhibits.
restored_act_forgotten(d) == act_init   \* mutant: the inhibit is not re-asserted
restored_act(d) == act_set_starter_inhibit(d.last_state = "BLOCKED", act_init)

\* reb_fsm_init on the snapshot d: what it holds is restored, everything else
\* starts afresh, and a restored BLOCKED inhibits the starter at once.
boot(d) ==
    /\ state' = d.last_state
    /\ block_phase' = d.last_block_phase
    /\ source' = d.last_source
    /\ parked_timer' = d.parked_timer
    /\ min_after_timer' = d.min_after_timer
    /\ last_nonce' = d.last_nonce
    /\ panel' = panel_restore(d.panel_wrong_cnt, d.lockout_active, d.lockout_remaining_s)
    /\ derate_ramp' = d.derate_ramp
    /\ act' = restored_act(d)
    /\ starter' = [starter_init EXCEPT !.inhibit_active = (d.last_state = "BLOCKED")]
    /\ sf' = sf_init
    /\ rw' = rw_init
    /\ alert' = alert_mgr_init
    /\ status_timer' = 0
    /\ derate_timer' = 0
    /\ still' = 0

-----------------------------------------------------------------------------
(* Parts shared by the handlers *)

\* can_rx_watchdog_step's verdict: either channel will do.
channel_rx_ok(in) == in.ip_rx_ok \/ in.sms_rx_ok

saturate(n, top) == IF n > top THEN top ELSE n

\* calc_derate_ramp's new ctx->derate_ramp.
calc_derate_ramp_unclamped(ramp) ==     \* mutant: no floor
    IF ramp > DERATE_STEP THEN ramp - DERATE_STEP ELSE 0
calc_derate_ramp_abrupt(ramp) == RAMP_FLOOR     \* mutant: no gradual ramp
calc_derate_ramp(ramp) ==
    LET lower == IF ramp > DERATE_STEP THEN ramp - DERATE_STEP ELSE 0
    IN  IF lower < RAMP_FLOOR THEN RAMP_FLOOR ELSE lower

\* check_remote_cmd on an unblock command, and the nonce it leaves: a verified
\* command is spent even when no acknowledgement came with it.
unblock_checked(in) == in.remote_unblock_remote /\ channel_rx_ok(in)
unblock_accepted(in) ==
    /\ unblock_checked(in)
    /\ sec_mgr_verify(last_nonce, in)
    /\ in.tcu_ack
nonce_checked(in) ==
    IF unblock_checked(in) THEN nonce_after(last_nonce, in) ELSE last_nonce

count_to(timer, period) == IF timer + 1 >= period THEN 0 ELSE timer + 1

\* The end of reb_fsm_step: the transmission counters (entry_idle has just
\* cleared them); and the history of the vehicle standing still.
end_of_step(in) ==
    /\ status_timer' = count_to(IF state # "IDLE" /\ state' = "IDLE" THEN 0 ELSE status_timer,
                                STATUS_PERIOD_CYCLES)
    /\ derate_timer' = IF state' = "BLOCKING" /\ act'.fuel_derating_active
                       THEN count_to(derate_timer, DERATE_CMD_PERIOD_CYCLES)
                       ELSE 0
    /\ still' = IF in.speed_is_valid /\ ~in_motion(in.vehicle_speed)
                THEN saturate(still + 1, T_PARKED_CYCLES) ELSE 0

do_transition_stale(new, phase, parked, min_after, ramp) ==     \* mutant: the
    /\ state' = new                                     \* old state is written
    /\ nvm_write_state(snapshot(state, phase, source', last_nonce', parked,
                                min_after, ramp, panel'))

\* do_transition: the snapshot is written before the entry action of the new
\* state runs, with the values the handler has reached.
do_transition(new, phase, parked, min_after, ramp) ==
    /\ state' = new
    /\ nvm_write_state(snapshot(new, phase, source', last_nonce', parked,
                                min_after, ramp, panel'))

\* The snapshot entry_idle writes after reset_idle_outputs.
idle_snapshot_half(first) ==    \* mutant: the ramp is reset in RAM only
    [first EXCEPT !.last_block_phase = "PREALERT",
                  !.parked_timer     = 0,
                  !.min_after_timer  = 0]
idle_snapshot(first) ==
    [first EXCEPT !.last_block_phase = "PREALERT",
                  !.parked_timer     = 0,
                  !.min_after_timer  = 0,
                  !.derate_ramp      = RAMP_INIT]

\* do_transition(STATE_IDLE) and entry_idle.  The memory is written twice:
\* first is do_transition's snapshot, with the timers and the ramp of the state
\* that is left; entry_idle resets them and writes again.  When cut holds, the
\* power fails between the two writes and the machine boots from first.
return_to_idle(first, pnl, in, cut) ==
    \/ /\ ~cut
       /\ state' = "IDLE"
       /\ block_phase' = "PREALERT"
       /\ source' = first.last_source
       /\ parked_timer' = 0
       /\ min_after_timer' = 0
       /\ last_nonce' = first.last_nonce
       /\ panel' = pnl
       /\ derate_ramp' = RAMP_INIT
       /\ act' = act_init
       /\ starter' = starter_init
       /\ alert' = alert_mgr_stop
       /\ rw' = rw_init
       /\ sf' = sf_init
       /\ nvm_write_state(idle_snapshot(first))
       /\ end_of_step(in)
    \/ /\ cut
       /\ nvm_write_state(first)
       /\ boot(first)

-----------------------------------------------------------------------------
(* during_idle *)

block_accepted(in) ==
    /\ in.auth_blocked_remote
    /\ channel_rx_ok(in)
    /\ in.speed_is_valid
    /\ sec_mgr_verify(last_nonce, in)

\* do_transition(STATE_THEFT_CONFIRMED) and entry_theft_confirmed.
enter_theft_confirmed(in, src) ==
    /\ panel' = panel_auth_step(panel, in)
    /\ source' = src
    /\ do_transition("THEFT_CONFIRMED", block_phase, parked_timer, min_after_timer, derate_ramp)
    /\ block_phase' = "PREALERT"
    /\ parked_timer' = 0
    /\ min_after_timer' = 0
    /\ rw' = IF src = "AUTO" THEN rw_start ELSE rw_cancel(rw)
    /\ alert' = alert_mgr_step(alert)
    /\ UNCHANGED <<derate_ramp, act, starter>>
    /\ end_of_step(in)

IdlePanelActivates(in) ==
    /\ state = "IDLE"
    /\ panel_auth_ok(panel, in)
    /\ UNCHANGED <<last_nonce, sf, acted>>
    /\ enter_theft_confirmed(in, "PANEL")

\* The second check of during_idle, for a command over SMS, sees the same
\* command and the same nonce as the first and can accept nothing more.
IdleRemoteActivates(in) ==
    /\ state = "IDLE"
    /\ ~panel_auth_ok(panel, in)
    /\ block_accepted(in)
    /\ last_nonce' = nonce_after(last_nonce, in)
    /\ acted' = Append(acted, in.cmd_nonce)
    /\ enter_theft_confirmed(in, "REMOTE")
    /\ UNCHANGED sf

IdleSensorsActivate(in) ==
    /\ state = "IDLE"
    /\ ~panel_auth_ok(panel, in)
    /\ ~block_accepted(in)
    /\ sf' = sf_step(sf, in)
    /\ in.speed_is_valid
    /\ sf'.active
    /\ UNCHANGED <<last_nonce, acted>>
    /\ enter_theft_confirmed(in, "AUTO")

IdleWatches(in) ==
    /\ state = "IDLE"
    /\ ~panel_auth_ok(panel, in)
    /\ ~block_accepted(in)
    /\ panel' = panel_auth_step(panel, in)
    /\ sf' = sf_step(sf, in)
    /\ ~(in.speed_is_valid /\ sf'.active)
    /\ alert' = alert_mgr_step(alert)
    /\ state' = state
    /\ UNCHANGED <<block_phase, source, parked_timer, min_after_timer, last_nonce,
                   rw, act, starter, derate_ramp, nvm_vars, acted>>
    /\ end_of_step(in)

-----------------------------------------------------------------------------
(* during_theft_confirmed *)

\* do_transition(STATE_IDLE) from here: timers and ramp are still the old ones.
theft_returns(src, in, cut) ==
    LET pnl == panel_auth_step(panel, in)
    IN  return_to_idle(snapshot("IDLE", block_phase, src, nonce_checked(in), parked_timer,
                                min_after_timer, derate_ramp, pnl),
                       pnl, in, cut)

TheftRemoteUnblocks(in, cut) ==
    /\ state = "THEFT_CONFIRMED"
    /\ unblock_accepted(in)
    /\ acted' = Append(acted, in.cmd_nonce)
    /\ theft_returns("REMOTE", in, cut)

TheftSignalFault(in, cut) ==
    /\ state = "THEFT_CONFIRMED"
    /\ ~unblock_accepted(in)
    /\ ~in.speed_is_valid
    /\ theft_returns(source, in, cut)
    /\ UNCHANGED acted

\* The rest of the handler is reached with a valid speed and no unblock.
theft_goes_on(in) ==
    /\ state = "THEFT_CONFIRMED"
    /\ ~unblock_accepted(in)
    /\ in.speed_is_valid

TheftOwnerDenies(in, cut) ==
    /\ theft_goes_on(in)
    /\ source = "AUTO"
    /\ in.auth_block_automatic = "NO"
    /\ theft_returns(source, in, cut)
    /\ UNCHANGED acted

\* A right password aborts the window of an automatic activation only.
TheftWindowAborts(in, cut) ==
    /\ theft_goes_on(in)
    /\ source = "AUTO"
    /\ in.auth_block_automatic = "PENDING"
    /\ rw_aborts(rw, panel_auth_ok(panel, in))
    /\ theft_returns(source, in, cut)
    /\ UNCHANGED acted

\* do_transition(STATE_BLOCKING) and entry_blocking.
enter_blocking(in) ==
    /\ panel' = panel_auth_step(panel, in)
    /\ last_nonce' = nonce_checked(in)
    /\ source' = source
    /\ do_transition("BLOCKING", block_phase, parked_timer, min_after_timer', derate_ramp)
    /\ block_phase' = "DERATING"
    /\ parked_timer' = 0
    /\ UNCHANGED <<sf, act, starter, derate_ramp, acted>>
    /\ end_of_step(in)

\* The owner's YES skips rw_step: the window is left running.
TheftOwnerConfirms(in) ==
    /\ theft_goes_on(in)
    /\ source = "AUTO"
    /\ in.auth_block_automatic = "YES"
    /\ rw' = rw_set_actuation_issued(rw)
    /\ alert' = alert_mgr_stop
    /\ UNCHANGED min_after_timer
    /\ enter_blocking(in)

TheftWindowExpires(in) ==
    /\ theft_goes_on(in)
    /\ source = "AUTO"
    /\ in.auth_block_automatic = "PENDING"
    /\ rw_expires(rw, panel_auth_ok(panel, in))
    /\ rw' = rw_set_actuation_issued(rw_step(rw, panel_auth_ok(panel, in)))
    /\ alert' = alert_mgr_step(alert_mgr_start)
    /\ UNCHANGED min_after_timer
    /\ enter_blocking(in)

\* The snapshot counts the cycle that ends the hold.
TheftHoldElapses(in) ==
    /\ theft_goes_on(in)
    /\ source # "AUTO"
    /\ min_after_timer + 1 >= T_MIN_AFTER_CYCLES
    /\ min_after_timer' = saturate(min_after_timer + 1, T_MIN_AFTER_CYCLES)
    /\ rw' = rw_set_actuation_issued(rw)
    /\ alert' = alert_mgr_step(alert)
    /\ enter_blocking(in)

theft_stays(in) ==
    /\ min_after_timer' = saturate(min_after_timer + 1, T_MIN_AFTER_CYCLES)
    /\ panel' = panel_auth_step(panel, in)
    /\ last_nonce' = nonce_checked(in)
    /\ sf' = sf_step(sf, in)
    /\ state' = state
    /\ UNCHANGED <<block_phase, source, parked_timer, act, starter, derate_ramp,
                   nvm_vars, acted>>
    /\ end_of_step(in)

TheftWindowRuns(in) ==
    /\ theft_goes_on(in)
    /\ source = "AUTO"
    /\ in.auth_block_automatic = "PENDING"
    /\ ~rw_aborts(rw, panel_auth_ok(panel, in))
    /\ ~rw_expires(rw, panel_auth_ok(panel, in))
    /\ rw' = rw_step(rw, panel_auth_ok(panel, in))
    /\ alert' = alert_mgr_step(alert_mgr_start)
    /\ theft_stays(in)

TheftHolds(in) ==
    /\ theft_goes_on(in)
    /\ source # "AUTO"
    /\ min_after_timer + 1 < T_MIN_AFTER_CYCLES
    /\ alert' = alert_mgr_step(alert)
    /\ theft_stays(in)
    /\ UNCHANGED rw

-----------------------------------------------------------------------------
(* during_blocking *)

\* One cycle of the body: derating while the vehicle moves, dwell while it
\* stands.
next_phase(in)  == IF in_motion(in.vehicle_speed) THEN "DERATING" ELSE "PARKED"
next_parked_kept(in) ==         \* mutant: motion does not reset the dwell
    IF in_motion(in.vehicle_speed) THEN parked_timer
    ELSE saturate(parked_timer + 1, T_PARKED_CYCLES)
next_parked_short(in) ==        \* mutant: off by one, the dwell never completes
    IF in_motion(in.vehicle_speed) THEN 0
    ELSE saturate(parked_timer + 1, T_PARKED_CYCLES - 1)
next_parked(in) == IF in_motion(in.vehicle_speed) THEN 0
                   ELSE saturate(parked_timer + 1, T_PARKED_CYCLES)
next_ramp_always(in) == calc_derate_ramp(derate_ramp)     \* mutant: at standstill too
next_ramp(in) == IF in_motion(in.vehicle_speed) THEN calc_derate_ramp(derate_ramp)
                 ELSE derate_ramp
next_act(in)    == IF in_motion(in.vehicle_speed)
                   THEN act_apply_derate("BLOCKING", in.vehicle_speed,
                                         next_ramp(in) \div RAMP_SCALE, act)
                   ELSE act

\* The fault is seen before the unblock commands and before the panel, which
\* is not stepped in this cycle.
BlockingSignalFault(in, cut) ==
    /\ state = "BLOCKING"
    /\ ~in.speed_is_valid
    /\ return_to_idle(snapshot("IDLE", block_phase, source, last_nonce, parked_timer,
                               min_after_timer, RAMP_INIT, panel),
                      panel, in, cut)
    /\ UNCHANGED acted

\* do_transition(STATE_BLOCKED) and entry_blocked.
BlockingParks(in) ==
    /\ state = "BLOCKING"
    /\ in.speed_is_valid
    /\ next_parked(in) >= T_PARKED_CYCLES
    /\ source' = source
    /\ last_nonce' = last_nonce
    /\ panel' = panel
    /\ do_transition("BLOCKED", next_phase(in), next_parked(in), min_after_timer, next_ramp(in))
    /\ block_phase' = "PARKED"
    /\ parked_timer' = next_parked(in)
    /\ derate_ramp' = next_ramp(in)
    /\ act' = act_set_starter_inhibit(TRUE,
                  act_apply_derate("BLOCKED", 0, DERATE_PCT_INIT, next_act(in)))
    /\ alert' = alert_mgr_step(alert)
    /\ UNCHANGED <<min_after_timer, starter, sf, rw, acted>>
    /\ end_of_step(in)

blocking_goes_on(in) ==
    /\ state = "BLOCKING"
    /\ in.speed_is_valid
    /\ next_parked(in) < T_PARKED_CYCLES

BlockingRemoteUnblocks(in, cut) ==
    /\ blocking_goes_on(in)
    /\ unblock_accepted(in)
    /\ acted' = Append(acted, in.cmd_nonce)
    /\ return_to_idle(snapshot("IDLE", next_phase(in), "REMOTE", nonce_checked(in),
                               next_parked(in), min_after_timer, next_ramp(in), panel),
                      panel, in, cut)

BlockingPanelUnblocks(in, cut) ==
    /\ blocking_goes_on(in)
    /\ ~unblock_accepted(in)
    /\ panel_auth_ok(panel, in)
    /\ LET pnl == panel_auth_step(panel, in)
       IN  return_to_idle(snapshot("IDLE", next_phase(in), "PANEL", nonce_checked(in),
                                   next_parked(in), min_after_timer, next_ramp(in), pnl),
                          pnl, in, cut)
    /\ UNCHANGED acted

BlockingContinues(in) ==
    /\ blocking_goes_on(in)
    /\ ~unblock_accepted(in)
    /\ ~panel_auth_ok(panel, in)
    /\ block_phase' = next_phase(in)
    /\ parked_timer' = next_parked(in)
    /\ derate_ramp' = next_ramp(in)
    /\ act' = next_act(in)
    /\ alert' = alert_mgr_step(IF source = "AUTO" THEN alert_mgr_start ELSE alert_mgr_stop)
    /\ last_nonce' = nonce_checked(in)
    /\ panel' = panel_auth_step(panel, in)
    /\ state' = state
    /\ UNCHANGED <<source, min_after_timer, starter, sf, rw, nvm_vars, acted>>
    /\ end_of_step(in)

-----------------------------------------------------------------------------
(* during_blocked *)

BlockedRemoteUnblocks(in, cut) ==
    /\ state = "BLOCKED"
    /\ unblock_accepted(in)
    /\ acted' = Append(acted, in.cmd_nonce)
    /\ return_to_idle(snapshot("IDLE", block_phase, "REMOTE", nonce_checked(in), parked_timer,
                               min_after_timer, derate_ramp, panel),
                      panel, in, cut)

BlockedPanelUnblocks(in, cut) ==
    /\ state = "BLOCKED"
    /\ ~unblock_accepted(in)
    /\ panel_auth_ok(panel, in)
    /\ LET pnl == panel_auth_step(panel, in)
       IN  return_to_idle(snapshot("IDLE", block_phase, "PANEL", nonce_checked(in), parked_timer,
                                   min_after_timer, derate_ramp, pnl),
                          pnl, in, cut)
    /\ UNCHANGED acted

BlockedStays(in) ==
    /\ state = "BLOCKED"
    /\ ~unblock_accepted(in)
    /\ ~panel_auth_ok(panel, in)
    /\ starter' = starter_step(starter)
    /\ act' = act_set_starter_inhibit(TRUE, act)
    /\ alert' = alert_mgr_stop
    /\ last_nonce' = nonce_checked(in)
    /\ panel' = panel_auth_step(panel, in)
    /\ state' = state
    /\ UNCHANGED <<block_phase, source, parked_timer, min_after_timer, derate_ramp,
                   sf, rw, nvm_vars, acted>>
    /\ end_of_step(in)

-----------------------------------------------------------------------------
(* The specification *)

Init ==
    /\ state = "IDLE"
    /\ block_phase = "PREALERT"
    /\ source = "REMOTE"
    /\ parked_timer = 0
    /\ min_after_timer = 0
    /\ last_nonce = 0
    /\ panel = panel_auth_init
    /\ sf = sf_init
    /\ rw = rw_init
    /\ act = act_init
    /\ starter = starter_init
    /\ alert = alert_mgr_init
    /\ derate_ramp = RAMP_INIT
    /\ status_timer = 0
    /\ derate_timer = 0
    /\ nvm_sim_valid = FALSE
    /\ nvm_sim_buf = nvm_zero
    /\ still = 0
    /\ acted = <<>>

\* The branches that stay in a state or go on to the next one.
keeps_or_advances(in) ==
    \/ IdlePanelActivates(in)
    \/ IdleRemoteActivates(in)
    \/ IdleSensorsActivate(in)
    \/ IdleWatches(in)
    \/ TheftOwnerConfirms(in)
    \/ TheftWindowExpires(in)
    \/ TheftWindowRuns(in)
    \/ TheftHoldElapses(in)
    \/ TheftHolds(in)
    \/ BlockingParks(in)
    \/ BlockingContinues(in)
    \/ BlockedStays(in)

\* The branches that return to IDLE.
returns(in, cut) ==
    \/ TheftRemoteUnblocks(in, cut)
    \/ TheftSignalFault(in, cut)
    \/ TheftOwnerDenies(in, cut)
    \/ TheftWindowAborts(in, cut)
    \/ BlockingSignalFault(in, cut)
    \/ BlockingRemoteUnblocks(in, cut)
    \/ BlockingPanelUnblocks(in, cut)
    \/ BlockedRemoteUnblocks(in, cut)
    \/ BlockedPanelUnblocks(in, cut)

reb_fsm_step(in) == keeps_or_advances(in) \/ returns(in, FALSE)

Step == \E in \in Inputs : reb_fsm_step(in)

\* A power cycle between two cycles: reb_fsm_init on what the memory holds.
PowerCycle ==
    /\ boot(IF nvm_sim_valid THEN nvm_sim_buf ELSE factory_defaults)
    /\ UNCHANGED <<nvm_vars, acted>>

\* reb_bridge_reset with clear_nvm.
FactoryReset ==
    /\ nvm_sim_valid' = FALSE
    /\ nvm_sim_buf' = nvm_zero
    /\ boot(factory_defaults)
    /\ acted' = <<>>

\* A cycle in which the power fails between the two writes of a return to IDLE.
CutStep == \E in \in Inputs : returns(in, TRUE)

Next         == Step \/ PowerCycle \/ FactoryReset
NextWithCuts == Next \/ CutStep

Spec         == Init /\ [][Next]_vars
SpecWithCuts == Init /\ [][NextWithCuts]_vars

\* The solver calls reb_fsm_step for ever, whatever the inputs, and no power
\* cycle is ever owed.  With STATUS_PERIOD_CYCLES above 1 every cycle changes
\* status_timer, so that the fairness asks for nothing but cycles.
RunningSpec  == Init /\ [][Step]_vars /\ WF_vars(Step)
RestartSpec  == Init /\ [][Step \/ PowerCycle]_vars /\ WF_vars(Step)
=============================================================================
