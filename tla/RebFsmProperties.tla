-------------------------- MODULE RebFsmProperties --------------------------
(***************************************************************************)
(* What the state machine of RebFsm is checked and proved to satisfy.      *)
(***************************************************************************)
EXTENDS RebFsm

\* The state machine's context, reb_ctx_t.
ContextTypeOK ==
    /\ state \in reb_state_t
    /\ block_phase \in reb_block_phase_t
    /\ source \in activation_source_t
    /\ parked_timer \in 0..T_PARKED_CYCLES
    /\ min_after_timer \in 0..T_MIN_AFTER_CYCLES
    /\ last_nonce \in 0..MAX_NONCE
    /\ panel \in panel_auth_ctx_t
    /\ sf \in sf_ctx_t
    /\ rw \in rw_ctx_t
    /\ act \in actuator_output_t
    /\ starter \in starter_ctx_t
    /\ alert \in alert_ctx_t
    /\ derate_ramp \in 0..RAMP_INIT
    /\ status_timer \in 0..(STATUS_PERIOD_CYCLES - 1)
    /\ derate_timer \in 0..(DERATE_CMD_PERIOD_CYCLES - 1)
    /\ still \in 0..T_PARKED_CYCLES

\* Every variable holds a value of its C type, within the limits of its timer,
\* and so does the snapshot a power cycle would restore (reb_types.h).
TypeOK ==
    /\ ContextTypeOK
    /\ nvm_sim_valid \in BOOLEAN
    /\ nvm_sim_buf \in nvm_data_t
    /\ acted \in Seq(0..MAX_NONCE)

\* What makes TypeOK inductive: a detector that has not fired and a window that
\* is open are still below their limits.
CountersBelowLimits ==
    /\ sf_counting(sf)
    /\ rw_counting(rw)

-----------------------------------------------------------------------------
(* Invariants *)

\* The starter is inhibited in BLOCKED and in no other state, across every
\* power cycle and on whichever of the paths back to IDLE the machine takes
\* (entry_blocked, entry_idle, the restore of reb_fsm_init).
StarterInhibitedOnlyInBlocked ==
    /\ act.starter_inhibit_active <=> state = "BLOCKED"
    /\ starter.inhibit_active => state = "BLOCKED"

\* No command ever asks for less fuel than the floor, and the ramp that is kept
\* in memory cannot bring one back (FR-009; calc_derate_ramp, act_apply_derate
\* and the restore of derate_ramp).
FuelNeverBelowFloor ==
    /\ act.derate_pct >= FUEL_FLOOR_PCT
    /\ derate_ramp >= RAMP_FLOOR
    /\ nvm_sim_valid => nvm_sim_buf.derate_ramp >= RAMP_FLOOR

\* The fuel command is the ramp, except in BLOCKED, where the starter inhibit
\* has replaced it; and fuel is only ever taken away in BLOCKING.
FuelFollowsRamp ==
    /\ state # "BLOCKED" => act.derate_pct = derate_ramp \div RAMP_SCALE
    /\ act.fuel_derating_active => state = "BLOCKING"
    /\ act.derate_pct < DERATE_PCT_INIT => state = "BLOCKING"

\* The memory always holds the state and the source the machine is in, or
\* nothing while it has never left IDLE: a power cycle between two cycles
\* resumes the same state (persist_state in do_transition and entry_idle).
MemoryMirrorsState ==
    IF nvm_sim_valid
    THEN nvm_sim_buf.last_state = state /\ nvm_sim_buf.last_source = source
    ELSE state = "IDLE" /\ source = "REMOTE"

\* The commands that moved the machine have strictly increasing nonces, across
\* power cycles too: none is obeyed twice (sec_mgr_verify and last_nonce in the
\* snapshot).
ActedNoncesIncrease ==
    \A i, j \in 1..Len(acted) : i < j => acted[i] < acted[j]

\* Horn and hazard lights are only ever driven for an automatic activation that
\* has not been called off (alert_mgr_start and _stop in the handlers).
AlertsOnlyForAutomatic ==
    alert.alerts_active => source = "AUTO" /\ state # "IDLE"

\* What makes the invariants above, and the action properties below, inductive.

\* Nothing is counted and nothing derated before BLOCKING, and a snapshot of a
\* state before BLOCKED restores it so: every path that leaves BLOCKING for IDLE
\* has written the memory a second time by the end of its cycle.
AfreshBeforeBlocking ==
    /\ state \in {"IDLE", "THEFT_CONFIRMED"} => parked_timer = 0 /\ derate_ramp = RAMP_INIT
    /\ nvm_sim_valid /\ nvm_sim_buf.last_state # "BLOCKED"
           => nvm_sim_buf.parked_timer = 0 /\ nvm_sim_buf.derate_ramp = RAMP_INIT

\* The dwell timer never counts more than the vehicle has stood still.
DwellIsStandstill == state = "BLOCKING" => parked_timer <= still

\* No nonce that moved the machine is above the last one, in RAM or in memory,
\* and none moved it before the first write.
ActedNoncesRemembered ==
    /\ \A i \in 1..Len(acted) :
          /\ acted[i] <= last_nonce
          /\ nvm_sim_valid => acted[i] <= nvm_sim_buf.last_nonce
    /\ ~nvm_sim_valid => acted = <<>>

-----------------------------------------------------------------------------
(* Action properties *)

\* BLOCKED is only entered by a vehicle whose valid speed has been at or below
\* V_STOP for the last T_PARKED_CYCLES cycles without interruption, whatever
\* timer value a power cycle restored (during_blocking, entry_blocking).
BlockedAfterDwell ==
    [][state # "BLOCKED" /\ state' = "BLOCKED" => still' = T_PARKED_CYCLES]_vars

\* Derating starts from no derating: the ramp is at DERATE_PCT_INIT whenever
\* BLOCKING is entered (no entry action of the machine sets it on that path).
RampStartsFull ==
    [][state # "BLOCKING" /\ state' = "BLOCKING" => derate_ramp' = RAMP_INIT]_vars

\* A lockout ends when its countdown has run down, not before.
LockoutIsServed ==
    [][panel.lockout_active /\ ~panel'.lockout_active => panel.lockout_timer = 0]_vars

-----------------------------------------------------------------------------
(* Liveness, under WF_vars(Step): the solver keeps calling reb_fsm_step *)

\* A confirmed theft is either called off or blocked: the hold elapses and the
\* owner's window closes.
TheftIsResolved ==
    state = "THEFT_CONFIRMED" ~> state # "THEFT_CONFIRMED"

\* A machine that stays in BLOCKING for ever is following a vehicle that keeps
\* moving: one that stands still ends in BLOCKED or IDLE.
BlockingEndsAtStandstill ==
    <>[](state = "BLOCKING") => []<>(block_phase = "DERATING")

\* A lockout of the panel ends, although the handlers skip the panel in the
\* cycles that see a signal fault, a remote unblock or the end of the dwell.
LockoutEnds ==
    panel.lockout_active ~> ~panel.lockout_active

\* As TheftIsResolved, once the power stays on.
TheftIsResolvedOncePowered ==
    <>[][~PowerCycle]_vars => TheftIsResolved

-----------------------------------------------------------------------------
(* Refinement *)

Promise == INSTANCE EngineBlocker WITH
    Dwell       <- T_PARKED_CYCLES,
    FullFuel    <- DERATE_PCT_INIT,
    FuelFloor   <- FUEL_FLOOR_PCT,
    MaxDrop     <- (DERATE_STEP + RAMP_SCALE - 1) \div RAMP_SCALE,
    mode        <- CASE state = "IDLE" -> "armed"
                     [] state = "THEFT_CONFIRMED" -> "confirmed"
                     [] state = "BLOCKING" -> "limiting"
                     [] state = "BLOCKED" -> "immobilised",
    fuel        <- act.derate_pct,
    starterFree <- ~act.starter_inhibit_active,
    halted      <- still

\* The state machine keeps the promise of EngineBlocker.
KeepsPromise == Promise!Spec
=============================================================================
