------------------------------ MODULE RebNode ------------------------------
(***************************************************************************)
(* The controller: one cycle of reb_fsm_step with everything that runs     *)
(* before the state handlers, the supervision of the reception channels    *)
(* and the validation of the powertrain signals.  RebFsm leaves the        *)
(* verdict on the speed signal free; here it is the one powertrain         *)
(* validation reaches on the signals of the cycle.                         *)
(***************************************************************************)
EXTENDS RebFsmProperties, PowertrainValidation, RxWatchdog

CONSTANT Signals    \* the powertrain signals a cycle may see

\* What the state handlers see of an input and of the signals beside it.  They
\* look at the speed of a valid signal only.
sees(in, s, valid) ==
    [in EXCEPT !.speed_is_valid = valid,
               !.vehicle_speed  = IF valid THEN s.vehicle_speed ELSE 0]

ASSUME NodeAssumption == Signals \subseteq signals_t

VARIABLES
    pwt, rxwd,      \* ctx->pwt, ctx->rxwd
    trusted,        \* pwt_out.powertrain_valid of the last cycle
    faults,         \* pwt_out.pt_fault_code of the last cycle
    \* history, read by no action:
    seen,           \* the signals of the last cycle, kept across power cycles
    silent,         \* cycles without reception, up to supervision_end
    swings,         \* cycles in a row in which the speed alternated, up to the limit
    changes,        \* cycles in a row in which the ignition changed, up to the limit
    steady_for      \* cycles in a row with the good signals of the cycle before, up to steady_limit

power_on_vars == <<pwt, rxwd, trusted, faults, silent, swings, changes, steady_for>>
node_vars     == <<vars, power_on_vars, seen>>

\* ctx->fsm.speed_signal_status = SIG_VALID, after pwt_step.
speed_signal_valid_now(s) ==    \* mutant: the recovery gate is ignored
    raw_valid(pwt, s) /\ s.speed_sig_status = "VALID"
speed_signal_valid(s) == powertrain_valid(pwt, s) /\ s.speed_sig_status = "VALID"

supervision_end == MAX_RETRIES * ACK_TIMEOUT_CYCLES
steady_limit    == PWT_RECOVERY_CYCLES + 1

good(s) ==
    /\ in_range(s.vehicle_speed, 2500)
    /\ s.ignition_state <= IGN_START
    /\ in_range(s.brake_pedal, 100)
    /\ s.speed_sig_status = "VALID"

\* reb_fsm_step up to the switch: supervision and validation.
before_the_handlers(in, s) ==
    /\ rxwd' = can_rx_watchdog_step(rxwd, in)
    /\ pwt' = pwt_step(pwt, s)
    /\ trusted' = powertrain_valid(pwt, s)
    /\ faults' = pt_fault_code(pwt, s)
    /\ seen' = s
    /\ silent' = IF channel_rx_ok(in) THEN 0 ELSE saturate(silent + 1, supervision_end)
    /\ swings' = IF /\ s.vehicle_speed # NAN
                    /\ alternates(spd_delta(pwt, s), pwt.spd_delta_prev, 20)
                 THEN saturate(swings + 1, SPD_JITTER_LIMIT) ELSE 0
    /\ changes' = IF s.ignition_state # pwt.ign_prev
                  THEN saturate(changes + 1, IGN_JITTER_LIMIT) ELSE 0
    /\ steady_for' = IF s = seen /\ good(s) THEN saturate(steady_for + 1, steady_limit) ELSE 0

\* pwt_init and can_rx_watchdog_init in reb_fsm_init: nothing of either is restored.
node_boot ==
    /\ pwt' = pwt_init
    /\ rxwd' = can_rx_watchdog_init
    /\ trusted' = TRUE
    /\ faults' = {}
    /\ silent' = 0
    /\ swings' = 0
    /\ changes' = 0
    /\ steady_for' = 0
    /\ seen' = seen

parked_signals ==
    [vehicle_speed |-> 0, ignition_state |-> IGN_OFF, brake_pedal |-> 0, speed_sig_status |-> "VALID"]

NodeInit ==
    /\ Init
    /\ pwt = pwt_init
    /\ rxwd = can_rx_watchdog_init
    /\ trusted = TRUE
    /\ faults = {}
    /\ seen = parked_signals
    /\ silent = 0
    /\ swings = 0
    /\ changes = 0
    /\ steady_for = 0

\* Inputs without a verdict stand for all: sees fills in speed and verdict.
requests == {in \in Inputs : ~in.speed_is_valid /\ in.vehicle_speed = 0}

NodeCycle ==
    \E in \in requests, s \in Signals :
        /\ before_the_handlers(in, s)
        /\ reb_fsm_step(sees(in, s, speed_signal_valid(s)))

NodePowerCycle   == PowerCycle /\ node_boot
NodeFactoryReset == FactoryReset /\ node_boot

NodeNext == NodeCycle \/ NodePowerCycle \/ NodeFactoryReset

NodeSpec        == NodeInit /\ [][NodeNext]_node_vars
NodeRunningSpec == NodeInit /\ [][NodeCycle]_node_vars /\ WF_node_vars(NodeCycle)

-----------------------------------------------------------------------------
(* Properties *)

NodeTypeOK ==
    /\ TypeOK
    /\ pwt \in pwt_ctx_t
    /\ rxwd \in can_rx_watchdog_ctx_t
    /\ trusted \in BOOLEAN
    /\ faults \subseteq fault_names
    /\ seen \in signals_t
    /\ silent \in 0..supervision_end
    /\ swings \in 0..SPD_JITTER_LIMIT
    /\ changes \in 0..IGN_JITTER_LIMIT
    /\ steady_for \in 0..steady_limit

\* Fuel is taken away only while the signals have been good for the whole
\* recovery time: no path into BLOCKING, and no restored BLOCKING, goes with a
\* suspension of powertrain validation (NFR-SAF-002).  A theft may be confirmed
\* at the panel without valid signals; the next cycle drops it.
BlockingOnlyWhileTrusted ==
    state = "BLOCKING" => pwt.recovery_cnt = PWT_RECOVERY_CYCLES

\* Powertrain validation never suspends the signals without a fault that says
\* why, nor reports one of those faults while it trusts them.
SuspensionIsReported == ~trusted <=> faults \ warnings # {}

\* A signal that keeps alternating is not trusted, although its counter is a
\* uint8_t and calls the signal good again each time it wraps: the recovery
\* gate stays closed for longer than that lasts.
JitterIsNeverTrusted ==
    swings >= SPD_JITTER_LIMIT \/ changes >= IGN_JITTER_LIMIT => ~trusted

\* Supervision fails exactly when neither channel has received anything for
\* MAX_RETRIES absence periods in a row.
SupervisionFailsAfterSilence == rx_fail(rxwd) <=> silent >= supervision_end

\* A machine that is blocking a vehicle goes back to IDLE for a command, for
\* somebody at the panel or for a reset; never while the signals are good and
\* what they were in the cycle before.
BlockingKeptOnSteadySignals ==
    [][/\ state = "BLOCKING"
       /\ seen' = seen /\ good(seen')
       /\ acted' = acted /\ panel' = panel /\ nvm_sim_valid'
       => state' # "IDLE"]_node_vars

\* Good signals are trusted again in time: when they have been steady for the
\* recovery time and the one cycle that may still be a jump from where validation
\* starts after a power cycle, and no count of alternations has stayed at its limit,
\* the recovery gate is open, whatever they were before (pwt_step).
TrustedInTime ==
    /\ steady_for > PWT_RECOVERY_CYCLES
    /\ pwt.spd_jitter_cnt < SPD_JITTER_LIMIT /\ pwt.brk_jitter_cnt < BRK_JITTER_LIMIT
    => trusted

\* Once the signals are steady and good and no alternation is being counted,
\* the recovery gate opens and stays open.  The second condition is needed: a
\* quiet cycle does not clear the count of an alternation that has ended.
SteadySignalsAreTrusted ==
    /\ <>[]good(seen) /\ <>[][seen' = seen]_node_vars
    /\ <>[](pwt.spd_jitter_cnt < SPD_JITTER_LIMIT /\ pwt.brk_jitter_cnt < BRK_JITTER_LIMIT)
    => <>[]trusted
=============================================================================
