---------------------------- MODULE RebNodeProofs ----------------------------
(***************************************************************************)
(* Proofs about the controller of RebNode.  Its machine is the one of      *)
(* RebFsm, so whatever is proved there holds here; what is added are the   *)
(* parts in front of the state handlers.                                   *)
(***************************************************************************)
EXTENDS RebNode, RebFsmProofs

USE PwtAssumption, RxWatchdogAssumption

-----------------------------------------------------------------------------
(* The machine of the controller is the machine of RebFsm *)

\* A cycle whose signals count as valid has a speed in range: the gate is shut
\* in any cycle in which a check fails (pwt_step).
LEMMA ValidIsInRange ==
    ASSUME NEW s \in Signals, speed_signal_valid(s)
    PROVE  in_range(s.vehicle_speed, 2500)
<1>1. recovery_cnt(pwt, s) >= PWT_RECOVERY_CYCLES
  BY DEF speed_signal_valid, powertrain_valid
<1>2. CASE ~raw_valid(pwt, s)
  <2>1. recovery_cnt(pwt, s) = 0
    BY <1>2 DEF recovery_cnt
  <2> QED BY <1>1, <2>1
<1>3. CASE raw_valid(pwt, s)
  BY <1>3 DEF raw_valid, speed_valid
<1> QED BY <1>2, <1>3

\* What the handlers see is an input of the machine.
LEMMA SeenIsInput ==
    ASSUME NEW in \in Inputs, NEW s \in Signals
    PROVE  sees(in, s, speed_signal_valid(s)) \in reb_inputs_t
<1>1. speed_signal_valid(s) \in BOOLEAN
  BY DEF speed_signal_valid, powertrain_valid
<1>2. speed_signal_valid(s) => in_range(s.vehicle_speed, 2500)
  BY ValidIsInRange
<1>3. s.vehicle_speed \in Reading
  BY NodeAssumption DEF signals_t
<1>4. in_range(s.vehicle_speed, 2500) => s.vehicle_speed \in Nat
  BY <1>3 DEF in_range, Reading
<1>5. in \in reb_inputs_t
  BY FsmAssumption
<1>6. \A valid \in BOOLEAN, n \in Nat :
        [in EXCEPT !.speed_is_valid = valid, !.vehicle_speed = n] \in reb_inputs_t
  BY <1>5 DEF reb_inputs_t
<1>7. ASSUME NEW valid \in BOOLEAN, valid => s.vehicle_speed \in Nat
      PROVE  sees(in, s, valid) \in reb_inputs_t
  <2>1. (IF valid THEN s.vehicle_speed ELSE 0) \in Nat
    BY <1>7
  <2> QED BY <1>6, <1>7, <2>1, Zenon DEF sees
<1> QED BY <1>1, <1>2, <1>4, <1>7

LEMMA NodeStepIsFsmStep == [NodeNext]_node_vars => [AnyNext]_vars
<1>1. ASSUME NodeCycle PROVE AnyNext
  <2>1. PICK in \in Inputs, s \in Signals : reb_fsm_step(sees(in, s, speed_signal_valid(s)))
    BY <1>1, Zenon DEF NodeCycle, requests
  <2>2. sees(in, s, speed_signal_valid(s)) \in reb_inputs_t
    BY SeenIsInput
  <2> QED BY <2>1, <2>2, Zenon DEF AnyNext, AnyStep
<1>2. ASSUME NodePowerCycle \/ NodeFactoryReset PROVE AnyNext
  BY <1>2, Zenon DEF NodePowerCycle, NodeFactoryReset, AnyNext
<1>3. ASSUME UNCHANGED node_vars PROVE UNCHANGED vars
  BY <1>3, Zenon DEF node_vars
<1> QED BY <1>1, <1>2, <1>3, Zenon DEF NodeNext

\* Whatever the signals, the machine of the controller is the one of RebFsm with a
\* free verdict on the speed signal (reb_fsm_step): every property proved of
\* AnySpec holds of the controller.
THEOREM NodeImplementsFsm == NodeSpec => AnySpec
<1>1. NodeInit => Init
  BY DEF NodeInit
<1> QED BY <1>1, NodeStepIsFsmStep, PTL DEF NodeSpec, AnySpec

\* So the machine keeps its promises whatever watchdog and validation make of the
\* signals.
THEOREM NodeMachineSafe == NodeSpec => MachineIsSafe
  BY NodeImplementsFsm, MachineCorrect, PTL

-----------------------------------------------------------------------------
(* Type correctness *)

LEMMA MinusType ==
    ASSUME NEW a \in Reading, NEW b \in Reading
    PROVE  minus(a, b) \in Reading
BY DEF minus, Reading

\* The counters of alternations wrap inside their width.
LEMMA JitterType ==
    ASSUME NEW cnt \in 0..(UINT8_RANGE - 1), NEW v, NEW d, NEW prev, NEW limit
    PROVE  jitter_cnt(cnt, v, d, prev, limit) \in 0..(UINT8_RANGE - 1)
<1>1. (cnt + 1) % UINT8_RANGE \in 0..(UINT8_RANGE - 1) /\ 0 \in 0..(UINT8_RANGE - 1)
  OBVIOUS
<1> QED BY <1>1, Zenon DEF jitter_cnt

LEMMA PwtStepType ==
    ASSUME NEW c \in pwt_ctx_t, NEW s \in signals_t
    PROVE  pwt_step(c, s) \in pwt_ctx_t
<1>1. /\ s.vehicle_speed \in Reading
      /\ s.brake_pedal \in Reading
      /\ s.ignition_state \in Nat
  BY DEF signals_t
<1>2. /\ c.spd_prev \in Reading /\ c.spd_delta_prev \in Reading
      /\ c.brk_prev \in Reading /\ c.brk_delta_prev \in Reading
      /\ c.spd_jitter_cnt \in 0..(UINT8_RANGE - 1)
      /\ c.brk_jitter_cnt \in 0..(UINT8_RANGE - 1)
      /\ c.ign_jitter_cnt \in 0..(UINT8_RANGE - 1)
      /\ c.recovery_cnt \in 0..PWT_RECOVERY_CYCLES
  BY DEF pwt_ctx_t
<1>3. spd_delta(c, s) \in Reading /\ brk_delta(c, s) \in Reading
  BY <1>1, <1>2, MinusType, Zenon DEF spd_delta, brk_delta
<1>4. /\ spd_jitter_cnt(c, s) \in 0..(UINT8_RANGE - 1)
      /\ brk_jitter_cnt(c, s) \in 0..(UINT8_RANGE - 1)
  BY <1>2, JitterType, Zenon DEF spd_jitter_cnt, brk_jitter_cnt
<1>5. ign_jitter_cnt(c, s) \in 0..(UINT8_RANGE - 1)
  BY <1>2 DEF ign_jitter_cnt
<1>6. recovery_cnt(c, s) \in 0..PWT_RECOVERY_CYCLES
  BY <1>2 DEF recovery_cnt
<1> QED BY <1>1, <1>3, <1>4, <1>5, <1>6, Zenon DEF pwt_step, pwt_ctx_t

LEMMA PwtInitType == pwt_init \in pwt_ctx_t
<1>1. 0 \in Reading /\ 0 \in 0..(UINT8_RANGE - 1) /\ 0 \in Nat
      /\ PWT_RECOVERY_CYCLES \in 0..PWT_RECOVERY_CYCLES
  BY DEF Reading
<1> QED BY <1>1, Zenon DEF pwt_init, pwt_ctx_t, IGN_OFF

LEMMA WatchdogType ==
    ASSUME NEW w \in can_rx_watchdog_ctx_t, NEW in
    PROVE  can_rx_watchdog_step(w, in) \in can_rx_watchdog_ctx_t
BY DEF can_rx_watchdog_step, received, period_ends, can_rx_watchdog_ctx_t, can_rx_watchdog_init

\* What NodeTypeOK adds to TypeOK.
NodeTypeInv ==
    /\ pwt \in pwt_ctx_t
    /\ rxwd \in can_rx_watchdog_ctx_t
    /\ trusted \in BOOLEAN
    /\ faults \subseteq fault_names
    /\ seen \in signals_t
    /\ silent \in 0..supervision_end
    /\ swings \in 0..SPD_JITTER_LIMIT
    /\ changes \in 0..IGN_JITTER_LIMIT
    /\ steady_for \in 0..steady_limit

LEMMA HistoryTypes ==
    ASSUME NEW n \in Nat, NEW m \in 0..n
    PROVE  saturate(m + 1, n) \in 0..n /\ 0 \in 0..n
BY DEF saturate

LEMMA FaultNames ==
    ASSUME NEW c, NEW s
    PROVE  pt_fault_code(c, s) \subseteq fault_names
BY DEF pt_fault_code, fault, fault_names

LEMMA NodeTypeStep == NodeTypeInv /\ [NodeNext]_node_vars => NodeTypeInv'
<1> SUFFICES ASSUME NodeTypeInv, [NodeNext]_node_vars PROVE NodeTypeInv'
  OBVIOUS
<1> USE DEF NodeTypeInv
<1>0. /\ supervision_end \in Nat /\ steady_limit \in Nat
      /\ SPD_JITTER_LIMIT \in Nat /\ IGN_JITTER_LIMIT \in Nat
  BY DEF supervision_end, steady_limit
<1>1. CASE NodeCycle
  <2>1. PICK in \in Inputs, s \in Signals : before_the_handlers(in, s)
    BY <1>1, Zenon DEF NodeCycle, requests
  <2>2. s \in signals_t
    BY NodeAssumption
  <2>3. pwt' \in pwt_ctx_t /\ rxwd' \in can_rx_watchdog_ctx_t /\ seen' \in signals_t
    BY <2>1, <2>2, PwtStepType, WatchdogType, Zenon DEF before_the_handlers
  <2>4. trusted' \in BOOLEAN
    BY <2>1 DEF before_the_handlers, powertrain_valid
  <2>5. faults' \subseteq fault_names
    BY <2>1, FaultNames, Zenon DEF before_the_handlers
  <2>6. silent' \in 0..supervision_end
    BY <1>0, <2>1, HistoryTypes, Zenon DEF before_the_handlers
  <2>7. swings' \in 0..SPD_JITTER_LIMIT /\ changes' \in 0..IGN_JITTER_LIMIT
    BY <1>0, <2>1, HistoryTypes, Zenon DEF before_the_handlers
  <2>8. steady_for' \in 0..steady_limit
    BY <1>0, <2>1, HistoryTypes, Zenon DEF before_the_handlers
  <2> QED BY <2>3, <2>4, <2>5, <2>6, <2>7, <2>8, Zenon DEF supervision_end, steady_limit
<1>2. CASE NodePowerCycle \/ NodeFactoryReset
  <2>1. node_boot
    BY <1>2, Zenon DEF NodePowerCycle, NodeFactoryReset
  <2>2. can_rx_watchdog_init \in can_rx_watchdog_ctx_t
    BY DEF can_rx_watchdog_init, can_rx_watchdog_ctx_t
  <2>3. /\ 0 \in 0..supervision_end /\ 0 \in 0..steady_limit
        /\ 0 \in 0..SPD_JITTER_LIMIT /\ 0 \in 0..IGN_JITTER_LIMIT
    BY <1>0
  <2> QED BY <2>1, <2>2, <2>3, PwtInitType, Zenon DEF node_boot, supervision_end, steady_limit
<1>3. CASE UNCHANGED node_vars
  BY <1>3, Zenon DEF node_vars, power_on_vars, supervision_end, steady_limit
<1> QED BY <1>1, <1>2, <1>3, Zenon DEF NodeNext

\* Every variable of the controller holds a value of its C type, whatever the
\* signals and the width of the counters (powertrain_validation.c, can_rx.c).
THEOREM NodeTypeCorrect == NodeSpec => []NodeTypeOK
<1>1. NodeInit => NodeTypeInv
  <2> SUFFICES ASSUME NodeInit PROVE NodeTypeInv
    OBVIOUS
  <2>1. parked_signals \in signals_t
    BY DEF parked_signals, signals_t, Reading, IGN_OFF
  <2>2. can_rx_watchdog_init \in can_rx_watchdog_ctx_t
    BY DEF can_rx_watchdog_init, can_rx_watchdog_ctx_t
  <2>3. /\ 0 \in 0..supervision_end /\ 0 \in 0..steady_limit
        /\ 0 \in 0..SPD_JITTER_LIMIT /\ 0 \in 0..IGN_JITTER_LIMIT
    BY DEF supervision_end, steady_limit
  <2> QED BY <2>1, <2>2, <2>3, PwtInitType, Zenon DEF NodeInit, NodeTypeInv
<1>2. NodeTypeInv /\ TypeOK => NodeTypeOK
  BY Zenon DEF NodeTypeInv, NodeTypeOK
<1> QED
  BY <1>1, <1>2, NodeTypeStep, NodeImplementsFsm, InputsOnlyNarrow, TypeCorrect, PTL DEF NodeSpec

-----------------------------------------------------------------------------
(* Fuel and the recovery gate *)

\* A cycle that ends in BLOCKING saw a valid speed: every handler has looked at
\* it before it stays in BLOCKING or goes there.
LEMMA BlockingSawValidSpeed ==
    ASSUME NEW in, reb_fsm_step(in), state' = "BLOCKING"
    PROVE  in.speed_is_valid
<1>1. CASE returns(in, FALSE)
  <2>1. \A first, pnl : return_to_idle(first, pnl, in, FALSE) => state' = "IDLE"
    BY Zenon DEF return_to_idle
  <2>2. \A src : theft_returns(src, in, FALSE) => state' = "IDLE"
    BY <2>1, Zenon DEF theft_returns
  <2>3. state' = "IDLE"
    BY <1>1, <2>1, <2>2, Zenon
       DEF returns, TheftRemoteUnblocks, TheftSignalFault, TheftOwnerDenies, TheftWindowAborts,
           BlockingSignalFault, BlockingRemoteUnblocks, BlockingPanelUnblocks,
           BlockedRemoteUnblocks, BlockedPanelUnblocks
  <2> QED BY <2>3
<1>2. CASE keeps_or_advances(in)
  <2>1. \A new, phase, parked, after, ramp :
          do_transition(new, phase, parked, after, ramp) => state' = new
    BY Zenon DEF do_transition
  <2>2. CASE IdlePanelActivates(in) \/ IdleRemoteActivates(in) \/ IdleSensorsActivate(in)
    <3>1. state' = "THEFT_CONFIRMED"
      BY <2>1, <2>2, Zenon DEF IdlePanelActivates, IdleRemoteActivates, IdleSensorsActivate,
                               enter_theft_confirmed
    <3> QED BY <3>1
  <2>3. CASE IdleWatches(in) \/ BlockedStays(in)
    <3>1. state' \in {"IDLE", "BLOCKED"}
      BY <2>3 DEF IdleWatches, BlockedStays
    <3> QED BY <3>1
  <2>4. CASE \/ TheftOwnerConfirms(in) \/ TheftWindowExpires(in) \/ TheftWindowRuns(in)
             \/ TheftHoldElapses(in) \/ TheftHolds(in)
    BY <2>4, Zenon DEF TheftOwnerConfirms, TheftWindowExpires, TheftWindowRuns,
                       TheftHoldElapses, TheftHolds, theft_goes_on
  <2>5. CASE BlockingParks(in) \/ BlockingContinues(in)
    BY <2>5, Zenon DEF BlockingParks, BlockingContinues, blocking_goes_on
  <2> QED BY <1>2, <2>2, <2>3, <2>4, <2>5, Zenon DEF keeps_or_advances
<1> QED BY <1>1, <1>2, Zenon DEF reb_fsm_step

LEMMA BlockingTrustedStep ==
    NodeTypeInv /\ BlockingOnlyWhileTrusted /\ [NodeNext]_node_vars => BlockingOnlyWhileTrusted'
<1> SUFFICES ASSUME NodeTypeInv, BlockingOnlyWhileTrusted, [NodeNext]_node_vars,
                    state' = "BLOCKING"
             PROVE  pwt'.recovery_cnt = PWT_RECOVERY_CYCLES
  BY DEF BlockingOnlyWhileTrusted
<1>1. CASE NodeCycle
  <2>1. PICK in \in Inputs, s \in Signals :
          /\ before_the_handlers(in, s)
          /\ reb_fsm_step(sees(in, s, speed_signal_valid(s)))
    BY <1>1, Zenon DEF NodeCycle, requests
  <2>2. sees(in, s, speed_signal_valid(s)).speed_is_valid
    BY <2>1, BlockingSawValidSpeed
  <2>3. in \in reb_inputs_t
    BY FsmAssumption
  <2>4. speed_signal_valid(s)
    BY <2>2, <2>3 DEF sees, reb_inputs_t
  <2>5. recovery_cnt(pwt, s) >= PWT_RECOVERY_CYCLES
    BY <2>4 DEF speed_signal_valid, powertrain_valid
  <2>6. pwt'.recovery_cnt = recovery_cnt(pwt, s)
    BY <2>1 DEF before_the_handlers, pwt_step
  <2>7. pwt'.recovery_cnt \in 0..PWT_RECOVERY_CYCLES
    BY NodeTypeStep DEF NodeTypeInv, pwt_ctx_t
  <2> QED BY <2>5, <2>6, <2>7
<1>2. CASE NodePowerCycle \/ NodeFactoryReset
  <2>1. pwt' = pwt_init
    BY <1>2, Zenon DEF NodePowerCycle, NodeFactoryReset, node_boot
  <2> QED BY <2>1 DEF pwt_init
<1>3. CASE UNCHANGED node_vars
  BY <1>3 DEF node_vars, vars, power_on_vars, BlockingOnlyWhileTrusted
<1> QED BY <1>1, <1>2, <1>3, Zenon DEF NodeNext

LEMMA NodeTypeInvariant == NodeSpec => []NodeTypeInv
<1>1. NodeTypeOK => NodeTypeInv
  BY Zenon DEF NodeTypeInv, NodeTypeOK
<1> QED BY <1>1, NodeTypeCorrect, PTL

\* In BLOCKING the recovery gate is open, across power cycles too: fuel is only
\* ever taken away while the signals have been good for the whole recovery time
\* (during_blocking, during_theft_confirmed and pwt_init).
THEOREM BlockingTrusted == NodeSpec => []BlockingOnlyWhileTrusted
<1>1. NodeInit => BlockingOnlyWhileTrusted
  BY DEF NodeInit, Init, BlockingOnlyWhileTrusted
<1> QED BY <1>1, BlockingTrustedStep, NodeTypeInvariant, PTL DEF NodeSpec

-----------------------------------------------------------------------------
(* Supervision of the channels *)

\* The counts of the watchdog are the length of the silence.
CountsMeasureSilence ==
    silent = IF rxwd.absence_count < MAX_RETRIES
             THEN rxwd.absence_count * ACK_TIMEOUT_CYCLES + rxwd.timer_count
             ELSE supervision_end

LEMMA PeriodsAdd ==
    ASSUME NEW a \in Nat, NEW m \in Nat, NEW t \in Nat, a < m
    PROVE  /\ (a + 1) * t = a * t + t
           /\ (a + 1) * t <= m * t
           /\ a * t \in Nat /\ m * t \in Nat
<1>1. PICK k \in Nat : m = a + 1 + k
  <2>1. m - a - 1 \in Nat /\ m = a + 1 + (m - a - 1)
    OBVIOUS
  <2> QED BY <2>1
<1>2. (a + 1 + k) * t = (a + 1) * t + k * t /\ k * t \in Nat
  OBVIOUS
<1> QED BY <1>1, <1>2

LEMMA SupervisionCycle ==
    ASSUME NodeTypeInv, CountsMeasureSilence, NEW in, NEW s, before_the_handlers(in, s)
    PROVE  CountsMeasureSilence'
<1> DEFINE a == rxwd.absence_count
           n == rxwd.timer_count
           T == ACK_TIMEOUT_CYCLES
<1>1. /\ a \in 0..MAX_RETRIES /\ n \in 0..(T - 1)
      /\ rxwd = [absence_count |-> a, timer_count |-> n]
  BY DEF NodeTypeInv, can_rx_watchdog_ctx_t
<1>2. /\ rxwd' = can_rx_watchdog_step(rxwd, in)
      /\ silent' = IF channel_rx_ok(in) THEN 0 ELSE saturate(silent + 1, supervision_end)
  BY DEF before_the_handlers
<1>3. CASE channel_rx_ok(in)
  <2>1. silent' = 0 /\ rxwd' = [absence_count |-> 0, timer_count |-> 0]
    BY <1>2, <1>3 DEF channel_rx_ok, received, period_ends, can_rx_watchdog_step, can_rx_watchdog_init
  <2>2. rxwd'.absence_count = 0 /\ rxwd'.timer_count = 0
    BY <2>1
  <2>3. 0 * ACK_TIMEOUT_CYCLES = 0 /\ 0 < MAX_RETRIES
    OBVIOUS
  <2> QED BY <2>1, <2>2, <2>3 DEF CountsMeasureSilence
<1>4. CASE ~channel_rx_ok(in) /\ a < MAX_RETRIES
  <2>1. silent = a * T + n /\ silent' = saturate(silent + 1, supervision_end)
    BY <1>2, <1>4 DEF CountsMeasureSilence
  <2>2. /\ (a + 1) * T = a * T + T /\ (a + 1) * T <= supervision_end
        /\ a * T \in Nat /\ supervision_end \in Nat
    BY <1>1, <1>4, PeriodsAdd DEF supervision_end
  <2>3. CASE n + 1 >= T
    <3>1. rxwd' = [absence_count |-> a + 1, timer_count |-> 0]
      BY <1>1, <1>2, <1>4, <2>3 DEF channel_rx_ok, received, period_ends, can_rx_watchdog_step
    <3>2. rxwd'.absence_count = a + 1 /\ rxwd'.timer_count = 0
      BY <3>1
    <3>3. silent + 1 = (a + 1) * T
      BY <1>1, <2>1, <2>2, <2>3
    <3>4. silent' = (a + 1) * T
      BY <2>1, <2>2, <3>3 DEF saturate
    <3>5. a + 1 < MAX_RETRIES \/ a + 1 = MAX_RETRIES
      BY <1>1, <1>4
    <3> QED BY <1>1, <2>2, <3>2, <3>4, <3>5 DEF CountsMeasureSilence, supervision_end
  <2>4. CASE n + 1 < T
    <3>1. rxwd' = [absence_count |-> a, timer_count |-> n + 1]
      BY <1>1, <1>2, <1>4, <2>4 DEF channel_rx_ok, received, period_ends, can_rx_watchdog_step
    <3>2. rxwd'.absence_count = a /\ rxwd'.timer_count = n + 1
      BY <3>1
    <3>3. silent + 1 = a * T + (n + 1) /\ silent + 1 <= supervision_end
      BY <1>1, <2>1, <2>2, <2>4
    <3>4. silent' = a * T + (n + 1)
      BY <2>1, <2>2, <3>3 DEF saturate
    <3> QED BY <1>4, <3>2, <3>4 DEF CountsMeasureSilence
  <2> QED BY <1>1, <2>3, <2>4
<1>5. CASE ~channel_rx_ok(in) /\ ~(a < MAX_RETRIES)
  <2>1. a = MAX_RETRIES
    BY <1>1, <1>5
  <2>2. rxwd'.absence_count = MAX_RETRIES
    BY <1>1, <1>2, <1>5, <2>1 DEF channel_rx_ok, received, period_ends, can_rx_watchdog_step
  <2>3. supervision_end \in Nat
    BY DEF supervision_end
  <2>4. silent' = supervision_end
    BY <1>2, <1>5, <2>1, <2>3 DEF CountsMeasureSilence, saturate
  <2>5. supervision_end' = supervision_end
    BY DEF supervision_end
  <2> QED BY <2>2, <2>4, <2>5 DEF CountsMeasureSilence
<1> QED BY <1>3, <1>4, <1>5

LEMMA SupervisionStep ==
    NodeTypeInv /\ CountsMeasureSilence /\ [NodeNext]_node_vars => CountsMeasureSilence'
<1> SUFFICES ASSUME NodeTypeInv, CountsMeasureSilence, [NodeNext]_node_vars
             PROVE  CountsMeasureSilence'
  OBVIOUS
<1>1. CASE NodeCycle
  BY <1>1, SupervisionCycle, Zenon DEF NodeCycle, requests
<1>2. CASE NodePowerCycle \/ NodeFactoryReset
  <2>1. rxwd' = can_rx_watchdog_init /\ silent' = 0
    BY <1>2, Zenon DEF NodePowerCycle, NodeFactoryReset, node_boot
  <2> QED BY <2>1 DEF can_rx_watchdog_init, CountsMeasureSilence
<1>3. CASE UNCHANGED node_vars
  BY <1>3, Zenon DEF node_vars, power_on_vars, CountsMeasureSilence, supervision_end
<1> QED BY <1>1, <1>2, <1>3, Zenon DEF NodeNext

\* Supervision fails when, and only when, neither channel has received anything
\* for MAX_RETRIES whole absence periods (can_rx_watchdog_step).
THEOREM SupervisionExact == NodeSpec => []SupervisionFailsAfterSilence
<1>1. NodeInit => CountsMeasureSilence
  BY DEF NodeInit, can_rx_watchdog_init, CountsMeasureSilence
<1>2. NodeTypeInv /\ CountsMeasureSilence => SupervisionFailsAfterSilence
  <2> SUFFICES ASSUME NodeTypeInv, CountsMeasureSilence PROVE SupervisionFailsAfterSilence
    OBVIOUS
  <2> DEFINE a == rxwd.absence_count
  <2>1. a \in 0..MAX_RETRIES /\ rxwd.timer_count \in 0..(ACK_TIMEOUT_CYCLES - 1)
    BY DEF NodeTypeInv, can_rx_watchdog_ctx_t
  <2>2. CASE a < MAX_RETRIES
    <3>1. /\ (a + 1) * ACK_TIMEOUT_CYCLES = a * ACK_TIMEOUT_CYCLES + ACK_TIMEOUT_CYCLES
          /\ (a + 1) * ACK_TIMEOUT_CYCLES <= supervision_end
          /\ a * ACK_TIMEOUT_CYCLES \in Nat /\ supervision_end \in Nat
      BY <2>1, <2>2, PeriodsAdd DEF supervision_end
    <3>2. silent < supervision_end
      BY <2>1, <2>2, <3>1 DEF CountsMeasureSilence
    <3> QED BY <2>1, <2>2, <3>1, <3>2 DEF SupervisionFailsAfterSilence, rx_fail, CountsMeasureSilence
  <2>3. CASE ~(a < MAX_RETRIES)
    BY <2>1, <2>3 DEF SupervisionFailsAfterSilence, rx_fail, CountsMeasureSilence, supervision_end
  <2> QED BY <2>2, <2>3
<1> QED BY <1>1, <1>2, SupervisionStep, NodeTypeInvariant, PTL DEF NodeSpec

-----------------------------------------------------------------------------
(* Alternating signals *)

\* How the counter of an alternating signal, the cycles in a row in which it
\* alternated and the gate belong together.  A counter at its limit keeps the
\* gate shut; one that is below the run of alternations has wrapped, and the
\* gate has counted no more good cycles than the counter has seen since.
ShutByJitter(cnt, run, limit) ==
    /\ cnt >= limit => pwt.recovery_cnt = 0
    /\ cnt < run => pwt.recovery_cnt <= cnt + 1

JitterInv ==
    /\ ShutByJitter(pwt.spd_jitter_cnt, swings, SPD_JITTER_LIMIT)
    /\ ShutByJitter(pwt.ign_jitter_cnt, changes, IGN_JITTER_LIMIT)
    /\ trusted => pwt.recovery_cnt >= PWT_RECOVERY_CYCLES

\* One cycle of one signal: r is the gate's count before and r2 after it.
LEMMA JitterCycle ==
    ASSUME NEW limit \in 1..(UINT8_RANGE - 1),
           NEW cnt \in 0..(UINT8_RANGE - 1), NEW cnt2 \in 0..(UINT8_RANGE - 1),
           NEW run \in 0..limit, NEW run2 \in 0..limit,
           NEW r \in 0..PWT_RECOVERY_CYCLES, NEW r2 \in 0..PWT_RECOVERY_CYCLES,
           cnt >= limit => r = 0,
           cnt < run => r <= cnt + 1,
           \/ run2 = 0
           \/ run2 <= run + 1 /\ cnt2 = (cnt + 1) % UINT8_RANGE,
           r2 <= r + 1,
           cnt2 >= limit => r2 = 0
    PROVE  cnt2 < run2 => r2 <= cnt2 + 1
<1> SUFFICES ASSUME cnt2 < run2 PROVE r2 <= cnt2 + 1
  OBVIOUS
<1>1. run2 <= run + 1 /\ cnt2 = (cnt + 1) % UINT8_RANGE
  OBVIOUS
<1>2. CASE cnt = UINT8_RANGE - 1
  <2>1. r = 0
    BY <1>2
  <2> QED BY <2>1
<1>3. CASE cnt # UINT8_RANGE - 1
  <2>1. cnt + 1 \in 0..(UINT8_RANGE - 1)
    BY <1>3
  <2>2. cnt2 = cnt + 1
    BY <1>1, <2>1
  <2> QED BY <1>1, <2>2
<1> QED BY <1>2, <1>3

LEMMA RecoveryCycle ==
    ASSUME NEW c \in pwt_ctx_t, NEW s
    PROVE  /\ recovery_cnt(c, s) <= c.recovery_cnt + 1
           /\ spd_jitter_cnt(c, s) >= SPD_JITTER_LIMIT => recovery_cnt(c, s) = 0
           /\ ign_jitter_cnt(c, s) >= IGN_JITTER_LIMIT => recovery_cnt(c, s) = 0
<1>1. c.recovery_cnt \in 0..PWT_RECOVERY_CYCLES
  BY DEF pwt_ctx_t
<1>2. ~raw_valid(c, s) => recovery_cnt(c, s) = 0
  BY DEF recovery_cnt
<1>3. recovery_cnt(c, s) <= c.recovery_cnt + 1
  BY <1>1 DEF recovery_cnt
<1>4. c.spd_jitter_cnt \in 0..(UINT8_RANGE - 1) /\ c.ign_jitter_cnt \in 0..(UINT8_RANGE - 1)
  BY DEF pwt_ctx_t
<1>5. /\ spd_jitter_cnt(c, s) \in 0..(UINT8_RANGE - 1)
      /\ ign_jitter_cnt(c, s) \in 0..(UINT8_RANGE - 1)
  <2>1. spd_jitter_cnt(c, s) \in 0..(UINT8_RANGE - 1)
    BY <1>4, JitterType, Zenon DEF spd_jitter_cnt
  <2>2. ign_jitter_cnt(c, s) \in 0..(UINT8_RANGE - 1)
    BY <1>4 DEF ign_jitter_cnt
  <2> QED BY <2>1, <2>2
<1>6. spd_jitter_cnt(c, s) >= SPD_JITTER_LIMIT => ~speed_valid(c, s)
  BY <1>5 DEF speed_valid
<1>7. ign_jitter_cnt(c, s) >= IGN_JITTER_LIMIT => ~ign_valid(c, s)
  BY <1>5 DEF ign_valid
<1> QED BY <1>2, <1>3, <1>6, <1>7, Zenon DEF raw_valid

LEMMA JitterStep == NodeTypeInv /\ JitterInv /\ [NodeNext]_node_vars => JitterInv'
<1> SUFFICES ASSUME NodeTypeInv, JitterInv, [NodeNext]_node_vars PROVE JitterInv'
  OBVIOUS
<1>1. CASE NodeCycle
  <2>1. PICK in \in Inputs, s \in Signals : before_the_handlers(in, s)
    BY <1>1, Zenon DEF NodeCycle, requests
  <2>2. /\ pwt \in pwt_ctx_t
        /\ swings \in 0..SPD_JITTER_LIMIT
        /\ changes \in 0..IGN_JITTER_LIMIT
    BY DEF NodeTypeInv
  <2>3. /\ pwt' \in pwt_ctx_t
        /\ swings' \in 0..SPD_JITTER_LIMIT
        /\ changes' \in 0..IGN_JITTER_LIMIT
    BY NodeTypeStep, Zenon DEF NodeTypeInv
  <2>4. /\ pwt'.spd_jitter_cnt = spd_jitter_cnt(pwt, s)
        /\ pwt'.ign_jitter_cnt = ign_jitter_cnt(pwt, s)
        /\ pwt'.recovery_cnt = recovery_cnt(pwt, s)
    BY <2>1 DEF before_the_handlers, pwt_step
  <2>5. /\ pwt.spd_jitter_cnt \in 0..(UINT8_RANGE - 1)
        /\ pwt.ign_jitter_cnt \in 0..(UINT8_RANGE - 1)
        /\ pwt.recovery_cnt \in 0..PWT_RECOVERY_CYCLES
        /\ pwt'.spd_jitter_cnt \in 0..(UINT8_RANGE - 1)
        /\ pwt'.ign_jitter_cnt \in 0..(UINT8_RANGE - 1)
        /\ pwt'.recovery_cnt \in 0..PWT_RECOVERY_CYCLES
    BY <2>2, <2>3 DEF pwt_ctx_t
  <2>6. /\ pwt'.recovery_cnt <= pwt.recovery_cnt + 1
        /\ pwt'.spd_jitter_cnt >= SPD_JITTER_LIMIT => pwt'.recovery_cnt = 0
        /\ pwt'.ign_jitter_cnt >= IGN_JITTER_LIMIT => pwt'.recovery_cnt = 0
    BY <2>2, <2>4, RecoveryCycle, Zenon
  <2>7. \/ swings' = 0
        \/ /\ swings' = saturate(swings + 1, SPD_JITTER_LIMIT)
           /\ pwt'.spd_jitter_cnt = (pwt.spd_jitter_cnt + 1) % UINT8_RANGE
    BY <2>1, <2>4, Zenon DEF before_the_handlers, spd_jitter_cnt, jitter_cnt, alternates
  <2>8. \/ changes' = 0
        \/ /\ changes' = saturate(changes + 1, IGN_JITTER_LIMIT)
           /\ pwt'.ign_jitter_cnt = (pwt.ign_jitter_cnt + 1) % UINT8_RANGE
    BY <2>1, <2>4, Zenon DEF before_the_handlers, ign_jitter_cnt
  <2>9. /\ saturate(swings + 1, SPD_JITTER_LIMIT) <= swings + 1
        /\ saturate(changes + 1, IGN_JITTER_LIMIT) <= changes + 1
    BY <2>2 DEF saturate
  <2>10. ShutByJitter(pwt.spd_jitter_cnt, swings, SPD_JITTER_LIMIT)'
    <3>1. pwt'.spd_jitter_cnt < swings' => pwt'.recovery_cnt <= pwt'.spd_jitter_cnt + 1
      <4>1. \/ swings' = 0
            \/ /\ swings' <= swings + 1
               /\ pwt'.spd_jitter_cnt = (pwt.spd_jitter_cnt + 1) % UINT8_RANGE
        BY <2>7, <2>9
      <4>2. /\ pwt.spd_jitter_cnt >= SPD_JITTER_LIMIT => pwt.recovery_cnt = 0
            /\ pwt.spd_jitter_cnt < swings => pwt.recovery_cnt <= pwt.spd_jitter_cnt + 1
        BY DEF JitterInv, ShutByJitter
      <4>3. SPD_JITTER_LIMIT \in 1..(UINT8_RANGE - 1)
        OBVIOUS
      <4> HIDE DEF NodeTypeInv, JitterInv
      <4> QED BY <2>2, <2>3, <2>5, <2>6, <4>1, <4>2, <4>3, JitterCycle
    <3> QED BY <2>6, <3>1, Zenon DEF ShutByJitter
  <2>11. ShutByJitter(pwt.ign_jitter_cnt, changes, IGN_JITTER_LIMIT)'
    <3>1. pwt'.ign_jitter_cnt < changes' => pwt'.recovery_cnt <= pwt'.ign_jitter_cnt + 1
      <4>1. \/ changes' = 0
            \/ /\ changes' <= changes + 1
               /\ pwt'.ign_jitter_cnt = (pwt.ign_jitter_cnt + 1) % UINT8_RANGE
        BY <2>8, <2>9
      <4>2. /\ pwt.ign_jitter_cnt >= IGN_JITTER_LIMIT => pwt.recovery_cnt = 0
            /\ pwt.ign_jitter_cnt < changes => pwt.recovery_cnt <= pwt.ign_jitter_cnt + 1
        BY DEF JitterInv, ShutByJitter
      <4>3. IGN_JITTER_LIMIT \in 1..(UINT8_RANGE - 1)
        OBVIOUS
      <4> QED BY <2>2, <2>3, <2>5, <2>6, <4>1, <4>2, <4>3, JitterCycle
    <3> QED BY <2>6, <3>1, Zenon DEF ShutByJitter
  <2>12. trusted' => pwt'.recovery_cnt >= PWT_RECOVERY_CYCLES
    BY <2>1, <2>4, Zenon DEF before_the_handlers, powertrain_valid
  <2> QED BY <2>10, <2>11, <2>12, Zenon DEF JitterInv
<1>2. CASE NodePowerCycle \/ NodeFactoryReset
  <2>1. pwt' = pwt_init /\ swings' = 0 /\ changes' = 0
    BY <1>2, Zenon DEF NodePowerCycle, NodeFactoryReset, node_boot
  <2> QED BY <2>1 DEF pwt_init, JitterInv, ShutByJitter
<1>3. CASE UNCHANGED node_vars
  BY <1>3, Zenon DEF node_vars, power_on_vars, JitterInv, ShutByJitter
<1> QED BY <1>1, <1>2, <1>3, Zenon DEF NodeNext

\* A signal that keeps alternating is never trusted, however often its uint8_t
\* counter wraps: what the wrap calls good is shorter than the recovery time
\* (GateAssumption; pwt_step).
THEOREM JitterDistrusted == NodeSpec => []JitterIsNeverTrusted
<1>1. NodeInit => JitterInv
  BY DEF NodeInit, pwt_init, JitterInv, ShutByJitter
<1>2. NodeTypeInv /\ JitterInv => JitterIsNeverTrusted
  <2> SUFFICES ASSUME NodeTypeInv, JitterInv, trusted,
                      swings >= SPD_JITTER_LIMIT \/ changes >= IGN_JITTER_LIMIT
               PROVE  FALSE
    BY DEF JitterIsNeverTrusted
  <2>1. /\ pwt.spd_jitter_cnt \in 0..(UINT8_RANGE - 1)
        /\ pwt.ign_jitter_cnt \in 0..(UINT8_RANGE - 1)
        /\ pwt.recovery_cnt \in 0..PWT_RECOVERY_CYCLES
        /\ swings \in 0..SPD_JITTER_LIMIT /\ changes \in 0..IGN_JITTER_LIMIT
    BY DEF NodeTypeInv, pwt_ctx_t
  <2>2. pwt.recovery_cnt >= PWT_RECOVERY_CYCLES
    BY DEF JitterInv
  <2>3. CASE swings >= SPD_JITTER_LIMIT
    <3>1. pwt.recovery_cnt = 0 \/ pwt.recovery_cnt <= SPD_JITTER_LIMIT
      BY <2>1, <2>3 DEF JitterInv, ShutByJitter
    <3> QED BY <2>1, <2>2, <3>1, GateAssumption
  <2>4. CASE changes >= IGN_JITTER_LIMIT
    <3>1. pwt.recovery_cnt = 0 \/ pwt.recovery_cnt <= IGN_JITTER_LIMIT
      BY <2>1, <2>4 DEF JitterInv, ShutByJitter
    <3> QED BY <2>1, <2>2, <3>1, GateAssumption
  <2> QED BY <2>3, <2>4
<1> QED BY <1>1, <1>2, JitterStep, NodeTypeInvariant, PTL DEF NodeSpec

-----------------------------------------------------------------------------
(* Reports *)

\* In any cycle some fault that is not a warning is raised exactly when the gate
\* is shut.
LEMMA GateAndFaults ==
    ASSUME NEW c \in pwt_ctx_t, NEW s \in signals_t
    PROVE  ~powertrain_valid(c, s) <=> pt_fault_code(c, s) \ warnings # {}
<1> DEFINE code == pt_fault_code(c, s)
<1>1. /\ "speed_not_finite" \in code <=> s.vehicle_speed = NAN
      /\ "speed_range" \in code <=> s.vehicle_speed # NAN /\ ~in_range(s.vehicle_speed, 2500)
      /\ "speed_jump" \in code <=> ~spd_no_jump(c, s)
      /\ "speed_jitter" \in code <=> spd_jitter_cnt(c, s) >= SPD_JITTER_LIMIT
      /\ "ignition_range" \in code <=> s.ignition_state > IGN_START
      /\ "ignition_jitter" \in code <=> ign_jitter_cnt(c, s) >= IGN_JITTER_LIMIT
      /\ "brake_not_finite" \in code <=> s.brake_pedal = NAN
      /\ "brake_range" \in code <=> s.brake_pedal # NAN /\ ~in_range(s.brake_pedal, 100)
      /\ "brake_jitter" \in code <=> brk_jitter_cnt(c, s) >= BRK_JITTER_LIMIT
      /\ "recovering" \in code <=> raw_valid(c, s) /\ recovery_cnt(c, s) < PWT_RECOVERY_CYCLES
  BY DEF pt_fault_code, fault
<1> DEFINE faulty == \/ s.vehicle_speed = NAN
                     \/ s.vehicle_speed # NAN /\ ~in_range(s.vehicle_speed, 2500)
                     \/ ~spd_no_jump(c, s)
                     \/ spd_jitter_cnt(c, s) >= SPD_JITTER_LIMIT
                     \/ s.ignition_state > IGN_START
                     \/ ign_jitter_cnt(c, s) >= IGN_JITTER_LIMIT
                     \/ s.brake_pedal = NAN
                     \/ s.brake_pedal # NAN /\ ~in_range(s.brake_pedal, 100)
                     \/ brk_jitter_cnt(c, s) >= BRK_JITTER_LIMIT
<1>2. code \ warnings # {} <=>
        faulty \/ (raw_valid(c, s) /\ recovery_cnt(c, s) < PWT_RECOVERY_CYCLES)
  <2>1. code \ warnings \subseteq
          { "speed_not_finite", "speed_range", "speed_jump", "speed_jitter",
            "ignition_range", "ignition_jitter",
            "brake_not_finite", "brake_range", "brake_jitter", "recovering" }
    BY FaultNames DEF fault_names, warnings
  <2> HIDE DEF code
  <2> QED BY <1>1, <2>1 DEF warnings
<1>3. /\ c.spd_jitter_cnt \in 0..(UINT8_RANGE - 1)
      /\ c.ign_jitter_cnt \in 0..(UINT8_RANGE - 1)
      /\ c.brk_jitter_cnt \in 0..(UINT8_RANGE - 1)
      /\ c.recovery_cnt \in 0..PWT_RECOVERY_CYCLES
      /\ s.ignition_state \in Nat
  BY DEF pwt_ctx_t, signals_t
<1>4. /\ spd_jitter_cnt(c, s) \in 0..(UINT8_RANGE - 1)
      /\ brk_jitter_cnt(c, s) \in 0..(UINT8_RANGE - 1)
  BY <1>3, JitterType, Zenon DEF spd_jitter_cnt, brk_jitter_cnt
<1>5. ign_jitter_cnt(c, s) \in 0..(UINT8_RANGE - 1)
  BY <1>3 DEF ign_jitter_cnt
<1>6. faulty <=> ~raw_valid(c, s)
  <2>1. faulty \/ (/\ s.vehicle_speed # NAN /\ in_range(s.vehicle_speed, 2500)
                   /\ spd_no_jump(c, s) /\ spd_jitter_cnt(c, s) < SPD_JITTER_LIMIT
                   /\ s.ignition_state <= IGN_START /\ ign_jitter_cnt(c, s) < IGN_JITTER_LIMIT
                   /\ s.brake_pedal # NAN /\ in_range(s.brake_pedal, 100)
                   /\ brk_jitter_cnt(c, s) < BRK_JITTER_LIMIT)
    BY <1>3, <1>4, <1>5 DEF IGN_START
  <2> QED BY <1>3, <1>4, <1>5, <2>1
          DEF raw_valid, speed_valid, ign_valid, brake_valid, in_range, IGN_START
<1>7. /\ ~raw_valid(c, s) => recovery_cnt(c, s) = 0
      /\ recovery_cnt(c, s) \in 0..PWT_RECOVERY_CYCLES
  BY <1>3 DEF recovery_cnt
<1> HIDE DEF faulty
<1> QED BY <1>2, <1>6, <1>7 DEF powertrain_valid

\* Powertrain validation suspends the signals in exactly the cycles in which it
\* reports a fault that is more than a warning (pt_fault_code in pwt_step).
THEOREM SuspensionReported == NodeSpec => []SuspensionIsReported
<1>1. NodeInit => SuspensionIsReported
  BY DEF NodeInit, SuspensionIsReported
<1>2. NodeTypeInv /\ SuspensionIsReported /\ [NodeNext]_node_vars => SuspensionIsReported'
  <2> SUFFICES ASSUME NodeTypeInv, SuspensionIsReported, [NodeNext]_node_vars
               PROVE  SuspensionIsReported'
    OBVIOUS
  <2>1. CASE NodeCycle
    <3>1. PICK in \in Inputs, s \in Signals : before_the_handlers(in, s)
      BY <2>1, Zenon DEF NodeCycle, requests
    <3>2. trusted' = powertrain_valid(pwt, s) /\ faults' = pt_fault_code(pwt, s)
      BY <3>1, Zenon DEF before_the_handlers
    <3>3. s \in signals_t /\ pwt \in pwt_ctx_t
      BY NodeAssumption DEF NodeTypeInv
    <3>4. ~powertrain_valid(pwt, s) <=> pt_fault_code(pwt, s) \ warnings # {}
      BY <3>3, GateAndFaults
    <3> QED BY <3>2, <3>4, Zenon DEF SuspensionIsReported
  <2>2. CASE NodePowerCycle \/ NodeFactoryReset
    <3>1. trusted' = TRUE /\ faults' = {}
      BY <2>2, Zenon DEF NodePowerCycle, NodeFactoryReset, node_boot
    <3> QED BY <3>1 DEF SuspensionIsReported
  <2>3. CASE UNCHANGED node_vars
    BY <2>3, Zenon DEF node_vars, power_on_vars, SuspensionIsReported
  <2> QED BY <2>1, <2>2, <2>3, Zenon DEF NodeNext
<1> QED BY <1>1, <1>2, NodeTypeInvariant, PTL DEF NodeSpec
-----------------------------------------------------------------------------
(* BLOCKING is kept on steady and good signals *)

\* An attempt at the panel leaves its mark: it takes the edge of a button.
LEMMA AttemptChangesPanel ==
    ASSUME NEW ctx \in panel_auth_ctx_t, NEW in \in reb_inputs_t, panel_auth_ok(ctx, in)
    PROVE  panel_auth_step(ctx, in) # ctx
<1> DEFINE seen_ctx == [ctx EXCEPT !.prev_auth_pulse = in.auth_manual_out,
                                   !.prev_cancel_req = in.cancel_request]
<1>1. /\ ~ctx.lockout_active
      /\ \/ in.auth_manual_out /\ ~ctx.prev_auth_pulse
         \/ in.cancel_request /\ ~ctx.prev_cancel_req
  BY DEF panel_auth_ok, panel_attempt
<1>2. ~panel_auth_fails(ctx, in)
  BY DEF panel_auth_ok, panel_auth_fails
<1>3. panel_auth_step(ctx, in) = [seen_ctx EXCEPT !.wrong_cnt = 0, !.auth_ok = TRUE]
  BY <1>1, <1>2, Zenon DEF panel_auth_step
<1>4. /\ panel_auth_step(ctx, in).prev_auth_pulse = in.auth_manual_out
      /\ panel_auth_step(ctx, in).prev_cancel_req = in.cancel_request
  BY <1>3 DEF panel_auth_ctx_t
<1> QED BY <1>1, <1>4

\* A cycle that sees a valid speed and takes no command and nobody at the panel
\* does not take BLOCKING back.
LEMMA BlockingGivenUpByOrder ==
    ASSUME NEW in \in reb_inputs_t, reb_fsm_step(in), state = "BLOCKING", in.speed_is_valid,
           panel \in panel_auth_ctx_t, acted \in Seq(0..MAX_NONCE),
           acted' = acted, panel' = panel
    PROVE  state' # "IDLE"
<1>1. CASE keeps_or_advances(in)
  <2>1. BlockingParks(in) \/ BlockingContinues(in)
    BY <1>1, Zenon DEF keeps_or_advances, IdlePanelActivates, IdleRemoteActivates,
         IdleSensorsActivate, IdleWatches, TheftOwnerConfirms, TheftWindowExpires,
         TheftWindowRuns, TheftHoldElapses, TheftHolds, theft_goes_on, BlockedStays
  <2>2. state' \in {"BLOCKED", "BLOCKING"}
    BY <2>1 DEF BlockingParks, BlockingContinues, do_transition
  <2> QED BY <2>2
<1>2. CASE returns(in, FALSE)
  <2>1. BlockingRemoteUnblocks(in, FALSE) \/ BlockingPanelUnblocks(in, FALSE)
    BY <1>2, Zenon DEF returns, TheftRemoteUnblocks, TheftSignalFault, TheftOwnerDenies,
         TheftWindowAborts, theft_goes_on, BlockingSignalFault, BlockedRemoteUnblocks,
         BlockedPanelUnblocks
  <2>2. acted # Append(acted, in.cmd_nonce)
    <3>1. Len(Append(acted, in.cmd_nonce)) = Len(acted) + 1 /\ Len(acted) \in Nat
      OBVIOUS
    <3> QED BY <3>1
  <2>3. BlockingPanelUnblocks(in, FALSE)
    BY <2>1, <2>2, Zenon DEF BlockingRemoteUnblocks
  <2>4. panel_auth_ok(panel, in) /\ panel' = panel_auth_step(panel, in)
    BY <2>3, Zenon DEF BlockingPanelUnblocks, return_to_idle
  <2> QED BY <2>4, AttemptChangesPanel
<1> QED BY <1>1, <1>2, Zenon DEF reb_fsm_step

\* What validation compares a signal with is the signal of the last cycle, and
\* the gate is open only while neither count of alternations is at its limit.
SteadyInv ==
    /\ pwt.spd_prev = seen.vehicle_speed
    /\ pwt.brk_prev = seen.brake_pedal
    /\ pwt.ign_prev = seen.ignition_state
    /\ pwt.recovery_cnt = PWT_RECOVERY_CYCLES
         => /\ pwt.spd_jitter_cnt < SPD_JITTER_LIMIT
            /\ pwt.brk_jitter_cnt < BRK_JITTER_LIMIT

LEMMA SteadyStep == NodeTypeInv /\ SteadyInv /\ [NodeCycle]_node_vars => SteadyInv'
<1> SUFFICES ASSUME NodeTypeInv, SteadyInv, [NodeCycle]_node_vars PROVE SteadyInv'
  OBVIOUS
<1>1. CASE NodeCycle
  <2>1. PICK in \in Inputs, s \in Signals : before_the_handlers(in, s)
    BY <1>1, Zenon DEF NodeCycle, requests
  <2>2. pwt' = pwt_step(pwt, s) /\ seen' = s
    BY <2>1, Zenon DEF before_the_handlers
  <2>3. recovery_cnt(pwt, s) = PWT_RECOVERY_CYCLES => raw_valid(pwt, s)
    BY DEF recovery_cnt
  <2>4. raw_valid(pwt, s) => /\ spd_jitter_cnt(pwt, s) < SPD_JITTER_LIMIT
                             /\ brk_jitter_cnt(pwt, s) < BRK_JITTER_LIMIT
    BY DEF raw_valid, speed_valid, brake_valid
  <2>5. /\ pwt'.spd_prev = s.vehicle_speed
        /\ pwt'.brk_prev = s.brake_pedal
        /\ pwt'.ign_prev = s.ignition_state
        /\ pwt'.recovery_cnt = recovery_cnt(pwt, s)
        /\ pwt'.spd_jitter_cnt = spd_jitter_cnt(pwt, s)
        /\ pwt'.brk_jitter_cnt = brk_jitter_cnt(pwt, s)
    BY <2>2 DEF pwt_step
  <2> QED BY <2>2, <2>3, <2>4, <2>5, Zenon DEF SteadyInv
<1>2. CASE UNCHANGED node_vars
  BY <1>2 DEF SteadyInv, node_vars, power_on_vars
<1> QED BY <1>1, <1>2

\* A good signal that repeats itself is no jump and no swing: it leaves the counts
\* of alternations where they are, and unless one of them is at its limit it is valid.
LEMMA SteadySignal ==
    ASSUME NEW c \in pwt_ctx_t, NEW s \in signals_t, good(s),
           c.spd_prev = s.vehicle_speed, c.brk_prev = s.brake_pedal,
           c.ign_prev = s.ignition_state
    PROVE  /\ spd_jitter_cnt(c, s) = c.spd_jitter_cnt
           /\ brk_jitter_cnt(c, s) = c.brk_jitter_cnt
           /\ c.spd_jitter_cnt < SPD_JITTER_LIMIT /\ c.brk_jitter_cnt < BRK_JITTER_LIMIT
                => raw_valid(c, s)
<1>1. /\ in_range(s.vehicle_speed, 2500) /\ in_range(s.brake_pedal, 100)
      /\ s.ignition_state <= IGN_START
  BY DEF good
<1>2. /\ s.vehicle_speed \in Int /\ s.vehicle_speed # NAN
      /\ s.brake_pedal \in Int /\ s.brake_pedal # NAN
  BY <1>1 DEF in_range, signals_t, Reading
<1>3. spd_delta(c, s) = 0 /\ brk_delta(c, s) = 0
  BY <1>2 DEF spd_delta, brk_delta, minus
<1>4. 0 # NAN /\ ~magnitude_above(0, 20) /\ ~magnitude_above(0, 5) /\ magnitude_at_most(0, 200)
  BY DEF magnitude_above, magnitude_at_most
<1>5. /\ spd_jitter_cnt(c, s) = c.spd_jitter_cnt
      /\ brk_jitter_cnt(c, s) = c.brk_jitter_cnt
  BY <1>3, <1>4, Zenon DEF spd_jitter_cnt, brk_jitter_cnt, jitter_cnt, swings_twice
<1>6. ign_jitter_cnt(c, s) < IGN_JITTER_LIMIT
  BY DEF ign_jitter_cnt
<1>7. c.spd_jitter_cnt < SPD_JITTER_LIMIT => speed_valid(c, s)
  BY <1>1, <1>3, <1>4, <1>5 DEF speed_valid, spd_no_jump
<1>8. ign_valid(c, s) /\ (c.brk_jitter_cnt < BRK_JITTER_LIMIT => brake_valid(c, s))
  BY <1>1, <1>5, <1>6 DEF ign_valid, brake_valid
<1> QED BY <1>5, <1>7, <1>8, Zenon DEF raw_valid

\* So the gate stays open on it.
LEMMA SteadyIsValid ==
    ASSUME NodeTypeInv, SteadyInv, NEW s \in signals_t, s = seen, good(s),
           pwt.recovery_cnt = PWT_RECOVERY_CYCLES
    PROVE  speed_signal_valid(s)
<1>1. pwt \in pwt_ctx_t
  BY Zenon DEF NodeTypeInv
<1>2. raw_valid(pwt, s)
  BY <1>1, SteadySignal, Zenon DEF SteadyInv
<1>3. recovery_cnt(pwt, s) = PWT_RECOVERY_CYCLES
  BY <1>2 DEF recovery_cnt
<1> QED BY <1>3 DEF speed_signal_valid, powertrain_valid, good

LEMMA BlockingKeptStep ==
    /\ NodeTypeOK /\ BlockingOnlyWhileTrusted /\ SteadyInv
    /\ [NodeCycle]_node_vars
    => [/\ state = "BLOCKING"
        /\ seen' = seen /\ good(seen')
        /\ acted' = acted /\ panel' = panel /\ nvm_sim_valid'
        => state' # "IDLE"]_node_vars
<1> SUFFICES ASSUME NodeTypeOK, BlockingOnlyWhileTrusted, SteadyInv, NodeCycle,
                    state = "BLOCKING", seen' = seen, good(seen'), acted' = acted, panel' = panel
             PROVE  state' # "IDLE"
  BY Zenon
<1>1. PICK in \in Inputs, s \in Signals :
        /\ before_the_handlers(in, s)
        /\ reb_fsm_step(sees(in, s, speed_signal_valid(s)))
  BY Zenon DEF NodeCycle, requests
<1>2. s \in signals_t /\ s = seen /\ good(s)
  BY <1>1, NodeAssumption, Zenon DEF before_the_handlers
<1>3. NodeTypeInv /\ TypeOK
  BY Zenon DEF NodeTypeOK, NodeTypeInv
<1>4. speed_signal_valid(s)
  <2>1. pwt.recovery_cnt = PWT_RECOVERY_CYCLES
    BY DEF BlockingOnlyWhileTrusted
  <2> QED BY <1>2, <1>3, <2>1, SteadyIsValid, Zenon
<1>5. sees(in, s, speed_signal_valid(s)) \in reb_inputs_t
  BY SeenIsInput
<1>6. in \in reb_inputs_t
  BY FsmAssumption
<1>7. sees(in, s, speed_signal_valid(s)).speed_is_valid
  BY <1>4, <1>6 DEF sees, reb_inputs_t
<1>8. panel \in panel_auth_ctx_t /\ acted \in Seq(0..MAX_NONCE)
  BY <1>3, Zenon DEF TypeOK, ContextTypeOK
<1> QED BY <1>1, <1>5, <1>7, <1>8, BlockingGivenUpByOrder

\* A controller that runs and is blocking a vehicle gives that up for a command
\* or for somebody at the panel, never while the signals are good and repeat
\* themselves (during_blocking and pwt_step).
THEOREM BlockingKept == NodeRunningSpec => BlockingKeptOnSteadySignals
<1>1. [NodeCycle]_node_vars => [NodeNext]_node_vars
  BY Zenon DEF NodeNext
<1>2. NodeInit => SteadyInv
  BY DEF NodeInit, SteadyInv, pwt_init, parked_signals
<1>3. NodeRunningSpec => NodeSpec
  BY <1>1, PTL DEF NodeRunningSpec, NodeSpec
<1> QED
  BY <1>2, <1>3, SteadyStep, BlockingKeptStep, NodeTypeCorrect, NodeTypeInvariant,
     BlockingTrusted, PTL
  DEF NodeRunningSpec, BlockingKeptOnSteadySignals

-----------------------------------------------------------------------------
(* Good signals are trusted again in time *)

\* While the signals are steady validation compares them with themselves, and
\* unless a count of alternations is stuck at its limit the recovery gate has
\* counted each of their cycles but the first.
TrustInv ==
    /\ trusted <=> pwt.recovery_cnt >= PWT_RECOVERY_CYCLES
    /\ steady_for > 0 =>
           /\ pwt.spd_prev = seen.vehicle_speed
           /\ pwt.brk_prev = seen.brake_pedal
           /\ pwt.ign_prev = seen.ignition_state
           /\ pwt.spd_jitter_cnt < SPD_JITTER_LIMIT /\ pwt.brk_jitter_cnt < BRK_JITTER_LIMIT
                => pwt.recovery_cnt >= steady_for - 1

LEMMA TrustStep == NodeTypeInv /\ TrustInv /\ [NodeNext]_node_vars => TrustInv'
<1> SUFFICES ASSUME NodeTypeInv, TrustInv, [NodeNext]_node_vars PROVE TrustInv'
  OBVIOUS
<1>1. CASE NodeCycle
  <2>1. PICK in \in Inputs, s \in Signals : before_the_handlers(in, s)
    BY <1>1, Zenon DEF NodeCycle, requests
  <2>2. /\ pwt' = pwt_step(pwt, s) /\ seen' = s /\ trusted' = powertrain_valid(pwt, s)
        /\ steady_for' = IF s = seen /\ good(s) THEN saturate(steady_for + 1, steady_limit) ELSE 0
    BY <2>1, Zenon DEF before_the_handlers
  <2>3. s \in signals_t /\ pwt \in pwt_ctx_t /\ steady_for \in 0..steady_limit
    BY NodeAssumption DEF NodeTypeInv
  <2>4. /\ pwt'.spd_prev = s.vehicle_speed
        /\ pwt'.brk_prev = s.brake_pedal
        /\ pwt'.ign_prev = s.ignition_state
        /\ pwt'.recovery_cnt = recovery_cnt(pwt, s)
        /\ pwt'.spd_jitter_cnt = spd_jitter_cnt(pwt, s)
        /\ pwt'.brk_jitter_cnt = brk_jitter_cnt(pwt, s)
    BY <2>2 DEF pwt_step
  <2>5. /\ pwt.recovery_cnt \in 0..PWT_RECOVERY_CYCLES
        /\ recovery_cnt(pwt, s) \in 0..PWT_RECOVERY_CYCLES
    BY <2>3 DEF pwt_ctx_t, recovery_cnt
  <2>6. ASSUME steady_for' > 0,
               pwt'.spd_jitter_cnt < SPD_JITTER_LIMIT, pwt'.brk_jitter_cnt < BRK_JITTER_LIMIT
        PROVE  pwt'.recovery_cnt >= steady_for' - 1
    <3>1. s = seen /\ good(s) /\ steady_for' = saturate(steady_for + 1, steady_limit)
      BY <2>2, <2>6
    <3>2. CASE steady_for = 0
      BY <2>4, <2>5, <3>1, <3>2 DEF saturate, steady_limit
    <3>3. CASE steady_for > 0
      <4>1. /\ pwt.spd_prev = s.vehicle_speed
            /\ pwt.brk_prev = s.brake_pedal
            /\ pwt.ign_prev = s.ignition_state
        BY <3>1, <3>3 DEF TrustInv
      <4>2. /\ pwt.spd_jitter_cnt < SPD_JITTER_LIMIT /\ pwt.brk_jitter_cnt < BRK_JITTER_LIMIT
            /\ raw_valid(pwt, s)
        BY <2>3, <2>4, <2>6, <3>1, <4>1, SteadySignal
      <4>3. pwt.recovery_cnt >= steady_for - 1
        BY <3>3, <4>2 DEF TrustInv
      <4> QED BY <2>3, <2>4, <2>5, <3>1, <3>3, <4>2, <4>3
              DEF recovery_cnt, saturate, steady_limit
    <3> QED BY <2>3, <3>2, <3>3
  <2>7. trusted' <=> pwt'.recovery_cnt >= PWT_RECOVERY_CYCLES
    BY <2>2, <2>4 DEF powertrain_valid
  <2> QED BY <2>2, <2>4, <2>6, <2>7, Zenon DEF TrustInv
<1>2. CASE NodePowerCycle \/ NodeFactoryReset
  <2>1. pwt' = pwt_init /\ trusted' = TRUE /\ steady_for' = 0
    BY <1>2, Zenon DEF NodePowerCycle, NodeFactoryReset, node_boot
  <2> QED BY <2>1 DEF TrustInv, pwt_init
<1>3. CASE UNCHANGED node_vars
  BY <1>3, Zenon DEF TrustInv, node_vars, power_on_vars
<1> QED BY <1>1, <1>2, <1>3, Zenon DEF NodeNext

\* However wild they were and whatever power cycles came, signals that have been
\* good and steady for the recovery time and one cycle more are trusted, unless a
\* count of alternations has stayed at its limit (pwt_step).
THEOREM TrustReturns == NodeSpec => []TrustedInTime
<1>1. NodeInit => TrustInv
  BY DEF NodeInit, TrustInv, pwt_init
<1>2. NodeTypeInv /\ TrustInv => TrustedInTime
  <2> SUFFICES ASSUME NodeTypeInv, TrustInv, steady_for > PWT_RECOVERY_CYCLES,
                      pwt.spd_jitter_cnt < SPD_JITTER_LIMIT, pwt.brk_jitter_cnt < BRK_JITTER_LIMIT
               PROVE  trusted
    BY DEF TrustedInTime
  <2>1. steady_for \in 0..steady_limit /\ pwt.recovery_cnt \in 0..PWT_RECOVERY_CYCLES
    BY DEF NodeTypeInv, pwt_ctx_t
  <2>2. pwt.recovery_cnt >= steady_for - 1
    BY <2>1 DEF TrustInv
  <2>3. pwt.recovery_cnt >= PWT_RECOVERY_CYCLES
    BY <2>1, <2>2
  <2> QED BY <2>3 DEF TrustInv
<1> QED BY <1>1, <1>2, TrustStep, NodeTypeInvariant, PTL DEF NodeSpec
=============================================================================
