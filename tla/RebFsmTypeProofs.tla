-------------------------- MODULE RebFsmTypeProofs --------------------------
(***************************************************************************)
(* Type correctness of RebFsm, for every value of its constants, on any    *)
(* input and with power cuts: TypeOK with CountersBelowLimits is inductive.*)
(***************************************************************************)
EXTENDS RebFsmProperties, OperatorLemmas

MemoryTypeOK == nvm_sim_valid \in BOOLEAN /\ nvm_sim_buf \in nvm_data_t

\* All of the type invariant but the history of nonces.
TypeInv == ContextTypeOK /\ CountersBelowLimits /\ MemoryTypeOK

-----------------------------------------------------------------------------
(* The parts the handlers share *)

\* The verdicts of the panel and of the nonce check are well typed.
LEMMA CycleVerdicts ==
    ASSUME TypeInv, NEW in \in reb_inputs_t
    PROVE  /\ panel_auth_ok(panel, in) \in BOOLEAN
           /\ panel_auth_step(panel, in) \in panel_auth_ctx_t
           /\ nonce_checked(in) \in 0..MAX_NONCE
           /\ sf_step(sf, in) \in sf_ctx_t /\ sf_counting(sf_step(sf, in))
<1>1. panel_auth_ok(panel, in) \in BOOLEAN
  BY DEF panel_auth_ok
<1>2. nonce_checked(in) \in 0..MAX_NONCE
  BY NonceAfterType DEF nonce_checked, TypeInv, ContextTypeOK
<1> QED BY <1>1, <1>2, PanelStepType, FusionStepType
        DEF TypeInv, ContextTypeOK, CountersBelowLimits

\* The transmission counters and the standstill count.
LEMMA EndOfStepType ==
    ASSUME ContextTypeOK, NEW in \in reb_inputs_t, end_of_step(in)
    PROVE  /\ status_timer' \in 0..(STATUS_PERIOD_CYCLES - 1)
           /\ derate_timer' \in 0..(DERATE_CMD_PERIOD_CYCLES - 1)
           /\ still' \in 0..T_PARKED_CYCLES
<1>1. /\ 0 \in 0..(STATUS_PERIOD_CYCLES - 1)
      /\ 0 \in 0..(DERATE_CMD_PERIOD_CYCLES - 1)
      /\ 0 \in 0..T_PARKED_CYCLES
      /\ still + 1 \in Nat
      /\ T_PARKED_CYCLES \in Nat
  BY FsmAssumption DEF ContextTypeOK
<1> QED BY <1>1, CounterTypes, FsmAssumption DEF end_of_step, ContextTypeOK

\* reb_fsm_init restores a well-typed context from a well-typed snapshot.
LEMMA BootType ==
    ASSUME NEW d \in nvm_data_t, boot(d)
    PROVE  ContextTypeOK' /\ CountersBelowLimits'
<1>1. /\ d.last_state \in reb_state_t
      /\ d.last_block_phase \in reb_block_phase_t
      /\ d.last_source \in activation_source_t
      /\ d.last_nonce \in 0..MAX_NONCE
      /\ d.parked_timer \in 0..T_PARKED_CYCLES
      /\ d.min_after_timer \in 0..T_MIN_AFTER_CYCLES
      /\ d.derate_ramp \in 0..RAMP_INIT
      /\ d.panel_wrong_cnt \in 0..MAX_AUTH_ATTEMPTS
      /\ d.lockout_active \in BOOLEAN
      /\ d.lockout_remaining_s \in 0..(LOCKOUT_CYCLES \div CYCLES_PER_SECOND)
  BY DEF nvm_data_t
<1>2. panel' \in panel_auth_ctx_t
  BY <1>1, PanelRestoreType DEF boot
<1>3. act' \in actuator_output_t
  BY ActInitType, ActInhibitType DEF boot, restored_act
<1>4. starter' \in starter_ctx_t
  <2>1. (d.last_state = "BLOCKED") \in BOOLEAN
    OBVIOUS
  <2> QED BY <2>1, StarterInitType, Zenon DEF boot, starter_ctx_t
<1>5. /\ sf' \in sf_ctx_t /\ sf_counting(sf')
      /\ rw' \in rw_ctx_t /\ rw_counting(rw')
      /\ alert' \in alert_ctx_t
  BY FusionInitType, WindowInitType, AlertInitType DEF boot
<1>6. /\ status_timer' \in 0..(STATUS_PERIOD_CYCLES - 1)
      /\ derate_timer' \in 0..(DERATE_CMD_PERIOD_CYCLES - 1)
      /\ still' \in 0..T_PARKED_CYCLES
  BY FsmAssumption DEF boot
<1> QED BY <1>1, <1>2, <1>3, <1>4, <1>5, <1>6
        DEF ContextTypeOK, CountersBelowLimits, boot

\* The two snapshots reb_fsm_init may find when none was written.
LEMMA DefaultSnapshots == factory_defaults \in nvm_data_t /\ nvm_zero \in nvm_data_t
<1>1. /\ 0 \in 0..MAX_NONCE /\ 0 \in 0..T_PARKED_CYCLES
      /\ 0 \in 0..T_MIN_AFTER_CYCLES /\ 0 \in 0..RAMP_INIT /\ RAMP_INIT \in 0..RAMP_INIT
  BY RampConstants, FsmAssumption, SecurityAssumption
<1>2. /\ "IDLE" \in reb_state_t /\ "PREALERT" \in reb_block_phase_t
      /\ "REMOTE" \in activation_source_t /\ "PANEL" \in activation_source_t
  BY DEF reb_state_t, reb_block_phase_t, activation_source_t
<1> QED BY <1>1, <1>2, PanelInitType, SnapshotType DEF factory_defaults, nvm_zero

\* A return to IDLE, cut short by a power failure or not.
LEMMA ReturnType ==
    ASSUME ContextTypeOK, NEW first \in nvm_data_t, NEW pnl \in panel_auth_ctx_t,
           NEW in \in reb_inputs_t, NEW cut, return_to_idle(first, pnl, in, cut)
    PROVE  TypeInv'
<1>1. CASE nvm_write_state(first) /\ boot(first)
  BY <1>1, BootType DEF TypeInv, MemoryTypeOK, nvm_write_state
<1>2. CASE ~(nvm_write_state(first) /\ boot(first))
  <2>1. /\ state' = "IDLE" /\ block_phase' = "PREALERT"
        /\ source' = first.last_source /\ last_nonce' = first.last_nonce
        /\ parked_timer' = 0 /\ min_after_timer' = 0
        /\ panel' = pnl /\ derate_ramp' = RAMP_INIT
        /\ act' = act_init /\ starter' = starter_init /\ alert' = alert_mgr_stop
        /\ rw' = rw_init /\ sf' = sf_init
        /\ nvm_write_state(idle_snapshot(first))
        /\ end_of_step(in)
    BY <1>2, Zenon DEF return_to_idle
  <2>2. /\ 0 \in 0..T_PARKED_CYCLES /\ 0 \in 0..T_MIN_AFTER_CYCLES
        /\ RAMP_INIT \in 0..RAMP_INIT
        /\ "IDLE" \in reb_state_t /\ "PREALERT" \in reb_block_phase_t
    BY RampConstants, FsmAssumption DEF reb_state_t, reb_block_phase_t
  <2>3. first.last_source \in activation_source_t /\ first.last_nonce \in 0..MAX_NONCE
    BY DEF nvm_data_t
  <2>4. idle_snapshot(first) \in nvm_data_t
    BY <2>2, Zenon DEF idle_snapshot, nvm_data_t
  <2>5. ContextTypeOK'
    BY <2>1, <2>2, <2>3, EndOfStepType, ActInitType, StarterInitType, AlertInitType,
       WindowInitType, FusionInitType, Zenon DEF ContextTypeOK
  <2>6. CountersBelowLimits'
    BY <2>1, WindowInitType, FusionInitType DEF CountersBelowLimits
  <2> QED BY <2>1, <2>4, <2>5, <2>6 DEF TypeInv, MemoryTypeOK, nvm_write_state
<1> QED BY <1>1, <1>2

\* do_transition writes a well-typed snapshot.
LEMMA DoTransitionType ==
    ASSUME NEW new \in reb_state_t, NEW phase \in reb_block_phase_t,
           NEW parked \in 0..T_PARKED_CYCLES, NEW min_after \in 0..T_MIN_AFTER_CYCLES,
           NEW ramp \in 0..RAMP_INIT,
           source' \in activation_source_t, last_nonce' \in 0..MAX_NONCE,
           panel' \in panel_auth_ctx_t,
           do_transition(new, phase, parked, min_after, ramp)
    PROVE  state' \in reb_state_t /\ MemoryTypeOK'
  BY SnapshotType DEF do_transition, nvm_write_state, MemoryTypeOK

\* What every context lets a handler use.
LEMMA Constants ==
    /\ 0 \in 0..T_PARKED_CYCLES
    /\ 0 \in 0..T_MIN_AFTER_CYCLES
    /\ \A n \in 0..T_MIN_AFTER_CYCLES :
          saturate(n + 1, T_MIN_AFTER_CYCLES) \in 0..T_MIN_AFTER_CYCLES
    /\ {"IDLE", "THEFT_CONFIRMED", "BLOCKING", "BLOCKED"} \subseteq reb_state_t
    /\ {"PREALERT", "DERATING", "PARKED"} \subseteq reb_block_phase_t
    /\ {"PANEL", "REMOTE", "AUTO"} \subseteq activation_source_t
<1>1. /\ 0 \in 0..T_PARKED_CYCLES
      /\ 0 \in 0..T_MIN_AFTER_CYCLES
      /\ \A n \in 0..T_MIN_AFTER_CYCLES : n + 1 \in Nat
      /\ T_MIN_AFTER_CYCLES \in Nat
  BY FsmAssumption
<1> QED BY <1>1, CounterTypes DEF reb_state_t, reb_block_phase_t, activation_source_t

-----------------------------------------------------------------------------
(* during_idle *)

\* The entry into THEFT_CONFIRMED.
LEMMA EnterTheftConfirmedType ==
    ASSUME TypeInv, NEW in \in reb_inputs_t, NEW src \in activation_source_t,
           enter_theft_confirmed(in, src),
           last_nonce' \in 0..MAX_NONCE, sf' \in sf_ctx_t, sf_counting(sf')
    PROVE  TypeInv'
<1> USE DEF TypeInv, CountersBelowLimits
<1>1. /\ panel' \in panel_auth_ctx_t
      /\ source' \in activation_source_t
      /\ alert' \in alert_ctx_t
      /\ rw' \in rw_ctx_t /\ rw_counting(rw')
  BY CycleVerdicts, AlertStepType, WindowInitType, WindowMarkType
     DEF enter_theft_confirmed, ContextTypeOK
<1>2. state' \in reb_state_t /\ MemoryTypeOK'
  BY <1>1, DoTransitionType, Constants DEF enter_theft_confirmed, ContextTypeOK
<1>3. ContextTypeOK'
  BY <1>1, <1>2, EndOfStepType, Constants DEF enter_theft_confirmed, ContextTypeOK
<1> QED BY <1>1, <1>2, <1>3

\* Every branch of during_idle.
LEMMA IdleType ==
    ASSUME TypeInv, NEW in \in reb_inputs_t,
           \/ IdlePanelActivates(in) \/ IdleRemoteActivates(in)
           \/ IdleSensorsActivate(in) \/ IdleWatches(in)
    PROVE  TypeInv'
<1>1. CASE IdlePanelActivates(in)
  BY <1>1, EnterTheftConfirmedType, Constants
     DEF IdlePanelActivates, TypeInv, ContextTypeOK, CountersBelowLimits
<1>2. CASE IdleRemoteActivates(in)
  BY <1>2, EnterTheftConfirmedType, Constants, NonceAfterType
     DEF IdleRemoteActivates, TypeInv, ContextTypeOK, CountersBelowLimits
<1>3. CASE IdleSensorsActivate(in)
  BY <1>3, EnterTheftConfirmedType, Constants, CycleVerdicts
     DEF IdleSensorsActivate, TypeInv, ContextTypeOK, CountersBelowLimits
<1>4. CASE IdleWatches(in)
  <2>1. ContextTypeOK'
    BY <1>4, EndOfStepType, CycleVerdicts, AlertStepType
       DEF IdleWatches, TypeInv, ContextTypeOK
  <2>2. CountersBelowLimits' /\ MemoryTypeOK'
    BY <1>4, CycleVerdicts
       DEF IdleWatches, TypeInv, CountersBelowLimits, MemoryTypeOK, nvm_vars
  <2> QED BY <2>1, <2>2 DEF TypeInv
<1> QED BY <1>1, <1>2, <1>3, <1>4

-----------------------------------------------------------------------------
(* during_theft_confirmed *)

\* The entry into BLOCKING.
LEMMA EnterBlockingType ==
    ASSUME TypeInv, NEW in \in reb_inputs_t, enter_blocking(in),
           rw' \in rw_ctx_t, rw_counting(rw'), alert' \in alert_ctx_t,
           min_after_timer' \in 0..T_MIN_AFTER_CYCLES
    PROVE  TypeInv'
<1>1. /\ panel' \in panel_auth_ctx_t
      /\ last_nonce' \in 0..MAX_NONCE
      /\ source' \in activation_source_t
  BY CycleVerdicts DEF enter_blocking, TypeInv, ContextTypeOK
<1>2. state' \in reb_state_t /\ MemoryTypeOK'
  BY <1>1, DoTransitionType, Constants DEF enter_blocking, TypeInv, ContextTypeOK
<1>3. ContextTypeOK'
  BY <1>1, <1>2, EndOfStepType, Constants DEF enter_blocking, TypeInv, ContextTypeOK
<1>4. CountersBelowLimits'
  BY DEF enter_blocking, TypeInv, CountersBelowLimits
<1> QED BY <1>2, <1>3, <1>4 DEF TypeInv

\* A cycle that stays in THEFT_CONFIRMED.
LEMMA TheftStaysType ==
    ASSUME TypeInv, NEW in \in reb_inputs_t, theft_stays(in),
           rw' \in rw_ctx_t, rw_counting(rw'), alert' \in alert_ctx_t
    PROVE  TypeInv'
<1>1. ContextTypeOK'
  BY CycleVerdicts, EndOfStepType, Constants DEF theft_stays, TypeInv, ContextTypeOK
<1>2. CountersBelowLimits' /\ MemoryTypeOK'
  BY CycleVerdicts DEF theft_stays, TypeInv, CountersBelowLimits, MemoryTypeOK, nvm_vars
<1> QED BY <1>1, <1>2 DEF TypeInv

\* Every branch of during_theft_confirmed that does not.
LEMMA TheftGoesOnType ==
    ASSUME TypeInv, NEW in \in reb_inputs_t,
           \/ TheftOwnerConfirms(in) \/ TheftWindowExpires(in) \/ TheftHoldElapses(in)
           \/ TheftWindowRuns(in) \/ TheftHolds(in)
    PROVE  TypeInv'
<1>1. /\ rw \in rw_ctx_t /\ rw_counting(rw)
      /\ alert \in alert_ctx_t
      /\ min_after_timer \in 0..T_MIN_AFTER_CYCLES
      /\ panel_auth_ok(panel, in) \in BOOLEAN
  BY CycleVerdicts DEF TypeInv, ContextTypeOK, CountersBelowLimits
<1>2. LET stepped == rw_step(rw, panel_auth_ok(panel, in))
      IN  stepped \in rw_ctx_t /\ rw_counting(stepped)
  BY <1>1, WindowStepType
<1>3. CASE TheftOwnerConfirms(in)
  BY <1>1, <1>3, EnterBlockingType, WindowMarkType, AlertInitType DEF TheftOwnerConfirms
<1>4. CASE TheftWindowExpires(in)
  BY <1>1, <1>2, <1>4, EnterBlockingType, WindowMarkType, AlertInitType, AlertStepType
     DEF TheftWindowExpires
<1>5. CASE TheftHoldElapses(in)
  BY <1>1, <1>5, EnterBlockingType, WindowMarkType, AlertStepType, Constants
     DEF TheftHoldElapses
<1>6. CASE TheftWindowRuns(in)
  BY <1>1, <1>2, <1>6, TheftStaysType, AlertInitType, AlertStepType DEF TheftWindowRuns
<1>7. CASE TheftHolds(in)
  BY <1>1, <1>7, TheftStaysType, AlertStepType DEF TheftHolds
<1> QED BY <1>3, <1>4, <1>5, <1>6, <1>7

-----------------------------------------------------------------------------
(* during_blocking *)

\* The values of one cycle of the body.
LEMMA BlockingCycleType ==
    ASSUME ContextTypeOK, NEW in \in reb_inputs_t
    PROVE  /\ next_phase(in) \in reb_block_phase_t
           /\ next_parked(in) \in 0..T_PARKED_CYCLES
           /\ next_ramp(in) \in 0..RAMP_INIT
           /\ next_act(in) \in actuator_output_t
<1>1. parked_timer + 1 \in Nat /\ T_PARKED_CYCLES \in Nat
  BY FsmAssumption DEF ContextTypeOK
<1>2. next_phase(in) \in reb_block_phase_t
  BY Constants DEF next_phase
<1>3. next_parked(in) \in 0..T_PARKED_CYCLES
  BY <1>1, CounterTypes, Constants DEF next_parked
<1>4. next_ramp(in) \in 0..RAMP_INIT
  BY CalcDerateRampBounds DEF next_ramp, ContextTypeOK
<1>5. next_ramp(in) \div RAMP_SCALE \in 0..DERATE_PCT_INIT
  BY <1>4, RampPercent
<1>6. next_act(in) \in actuator_output_t
  BY <1>5, ActDerateMoving DEF next_act, ContextTypeOK
<1> QED BY <1>2, <1>3, <1>4, <1>6

\* Every branch of during_blocking that does not.
LEMMA BlockingGoesOnType ==
    ASSUME TypeInv, NEW in \in reb_inputs_t, BlockingParks(in) \/ BlockingContinues(in)
    PROVE  TypeInv'
<1>1. ContextTypeOK
  BY DEF TypeInv
<1>2. CASE BlockingParks(in)
  <2>1. act' \in actuator_output_t
    BY <1>1, <1>2, BlockingCycleType, ActDerateBlocked, ActInhibitType DEF BlockingParks
  <2>2. /\ panel' \in panel_auth_ctx_t
        /\ source' \in activation_source_t
        /\ last_nonce' \in 0..MAX_NONCE
    BY <1>1, <1>2 DEF BlockingParks, ContextTypeOK
  <2>3. state' \in reb_state_t /\ MemoryTypeOK'
    BY <1>1, <1>2, <2>2, BlockingCycleType, DoTransitionType, Constants
       DEF BlockingParks, ContextTypeOK
  <2>4. ContextTypeOK'
    BY <1>1, <1>2, <2>1, <2>2, <2>3, BlockingCycleType, AlertStepType, EndOfStepType, Constants
       DEF BlockingParks, ContextTypeOK
  <2> QED BY <1>2, <2>3, <2>4 DEF BlockingParks, TypeInv, CountersBelowLimits
<1>3. CASE BlockingContinues(in)
  <2>1. alert' \in alert_ctx_t
    BY <1>3, AlertStepType, AlertInitType DEF BlockingContinues
  <2>2. ContextTypeOK'
    BY <1>1, <1>3, <2>1, BlockingCycleType, CycleVerdicts, EndOfStepType
       DEF BlockingContinues, ContextTypeOK
  <2> QED BY <1>3, <2>2 DEF BlockingContinues, TypeInv, CountersBelowLimits, MemoryTypeOK, nvm_vars
<1> QED BY <1>2, <1>3

-----------------------------------------------------------------------------
(* during_blocked *)

\* A cycle that stays in BLOCKED.
LEMMA BlockedStaysType ==
    ASSUME TypeInv, NEW in \in reb_inputs_t, BlockedStays(in)
    PROVE  TypeInv'
<1>1. ContextTypeOK'
  BY CycleVerdicts, StarterStepType, ActInhibitType, AlertInitType, EndOfStepType
     DEF BlockedStays, TypeInv, ContextTypeOK
<1> QED BY <1>1 DEF BlockedStays, TypeInv, CountersBelowLimits, MemoryTypeOK, nvm_vars

-----------------------------------------------------------------------------
(* The returns to IDLE *)

\* Every return to IDLE goes through return_to_idle with a snapshot that says
\* IDLE, has a ramp the machine has reached, and has a nonce at least as high as
\* the last one: that of the command, if a command caused the return.
Returning(first, pnl, in, cut) ==
    /\ return_to_idle(first, pnl, in, cut)
    /\ first.last_state = "IDLE"
    /\ first.derate_ramp \in {derate_ramp, next_ramp(in), RAMP_INIT}
    /\ \/ acted' = acted /\ first.last_nonce \in {last_nonce, nonce_checked(in)}
       \/ /\ acted' = Append(acted, in.cmd_nonce)
          /\ sec_mgr_verify(last_nonce, in)
          /\ first.last_nonce = nonce_after(last_nonce, in)

\* The snapshot of a return, from whatever values the handler has reached.
LEMMA ReturningBy ==
    ASSUME NEW in \in reb_inputs_t, NEW cut, NEW phase \in reb_block_phase_t,
           NEW src \in activation_source_t, NEW nonce \in 0..MAX_NONCE,
           NEW parked \in 0..T_PARKED_CYCLES, NEW min_after \in 0..T_MIN_AFTER_CYCLES,
           NEW ramp \in 0..RAMP_INIT, ramp \in {derate_ramp, next_ramp(in), RAMP_INIT},
           NEW pnl \in panel_auth_ctx_t,
           return_to_idle(snapshot("IDLE", phase, src, nonce, parked, min_after, ramp, pnl),
                          pnl, in, cut),
           \/ acted' = acted /\ nonce \in {last_nonce, nonce_checked(in)}
           \/ /\ acted' = Append(acted, in.cmd_nonce)
              /\ sec_mgr_verify(last_nonce, in)
              /\ nonce = nonce_after(last_nonce, in)
    PROVE  \E first \in nvm_data_t, p \in panel_auth_ctx_t : Returning(first, p, in, cut)
<1> DEFINE first == snapshot("IDLE", phase, src, nonce, parked, min_after, ramp, pnl)
<1>1. first \in nvm_data_t
  BY SnapshotType, Constants
<1>2. first.last_state = "IDLE" /\ first.derate_ramp = ramp /\ first.last_nonce = nonce
  BY DEF snapshot
<1> HIDE DEF first
<1>3. Returning(first, pnl, in, cut)
  BY <1>2 DEF Returning, first
<1> QED BY <1>1, <1>3

\* All nine returns are of this kind.
LEMMA ReturningSnapshot ==
    ASSUME TypeInv, NEW in \in reb_inputs_t, NEW cut, returns(in, cut)
    PROVE  \E first \in nvm_data_t, pnl \in panel_auth_ctx_t : Returning(first, pnl, in, cut)
<1> DEFINE pnl == panel_auth_step(panel, in)
<1>1. /\ block_phase \in reb_block_phase_t /\ source \in activation_source_t
      /\ last_nonce \in 0..MAX_NONCE /\ parked_timer \in 0..T_PARKED_CYCLES
      /\ min_after_timer \in 0..T_MIN_AFTER_CYCLES /\ derate_ramp \in 0..RAMP_INIT
      /\ panel \in panel_auth_ctx_t /\ ContextTypeOK
      /\ pnl \in panel_auth_ctx_t /\ nonce_checked(in) \in 0..MAX_NONCE
      /\ RAMP_INIT \in 0..RAMP_INIT
      /\ "REMOTE" \in activation_source_t /\ "PANEL" \in activation_source_t
  BY CycleVerdicts, RampConstants, Constants DEF TypeInv, ContextTypeOK
<1>2. /\ next_phase(in) \in reb_block_phase_t
      /\ next_parked(in) \in 0..T_PARKED_CYCLES
      /\ next_ramp(in) \in 0..RAMP_INIT
  BY <1>1, BlockingCycleType
<1>3. unblock_accepted(in) => /\ sec_mgr_verify(last_nonce, in)
                              /\ nonce_checked(in) = nonce_after(last_nonce, in)
  BY DEF unblock_accepted, nonce_checked
<1> HIDE DEF pnl
<1>4. CASE TheftRemoteUnblocks(in, cut)
  BY <1>1, <1>3, <1>4, ReturningBy DEF TheftRemoteUnblocks, theft_returns, pnl
<1>5. CASE TheftSignalFault(in, cut)
  BY <1>1, <1>5, ReturningBy DEF TheftSignalFault, theft_returns, pnl
<1>6. CASE TheftOwnerDenies(in, cut)
  BY <1>1, <1>6, ReturningBy DEF TheftOwnerDenies, theft_returns, pnl
<1>7. CASE TheftWindowAborts(in, cut)
  BY <1>1, <1>7, ReturningBy DEF TheftWindowAborts, theft_returns, pnl
<1>8. CASE BlockingSignalFault(in, cut)
  BY <1>1, <1>8, ReturningBy DEF BlockingSignalFault
<1>9. CASE BlockingRemoteUnblocks(in, cut)
  BY <1>1, <1>2, <1>3, <1>9, ReturningBy DEF BlockingRemoteUnblocks
<1>10. CASE BlockingPanelUnblocks(in, cut)
  BY <1>1, <1>2, <1>10, ReturningBy DEF BlockingPanelUnblocks, pnl
<1>11. CASE BlockedRemoteUnblocks(in, cut)
  BY <1>1, <1>3, <1>11, ReturningBy DEF BlockedRemoteUnblocks
<1>12. CASE BlockedPanelUnblocks(in, cut)
  BY <1>1, <1>12, ReturningBy DEF BlockedPanelUnblocks, pnl
<1> QED BY <1>4, <1>5, <1>6, <1>7, <1>8, <1>9, <1>10, <1>11, <1>12 DEF returns

-----------------------------------------------------------------------------
(* The machine on any input *)

\* Inputs is what a run lets the machine see; the machine itself takes whatever
\* a reb_inputs_t can hold.  What is proved of these specifications holds for
\* every value of Inputs, and wherever the machine is fed by something else: the
\* validated signals of RebNode, the frames of CanNode, the requests of Backend.
AnyStep == \E in \in reb_inputs_t : reb_fsm_step(in)
AnyCutStep == \E in \in reb_inputs_t : returns(in, TRUE)

AnyNext         == AnyStep \/ PowerCycle \/ FactoryReset
AnyNextWithCuts == AnyNext \/ AnyCutStep

AnySpec         == Init /\ [][AnyNext]_vars
AnySpecWithCuts == Init /\ [][AnyNextWithCuts]_vars

\* Choosing the inputs, leaving out the power cuts, the restarts or both, and
\* asking for fairness only takes behaviours away: every specification of RebFsm
\* is one of the machine on any input.
THEOREM InputsOnlyNarrow ==
    /\ Spec => AnySpec
    /\ SpecWithCuts => AnySpecWithCuts
    /\ RunningSpec => AnySpec
    /\ RestartSpec => AnySpec
    /\ AnySpec => AnySpecWithCuts
<1>1. Step => AnyStep
  BY FsmAssumption DEF Step, AnyStep
<1>2. CutStep => AnyCutStep
  BY FsmAssumption DEF CutStep, AnyCutStep
<1>3. /\ [Next]_vars => [AnyNext]_vars
      /\ [NextWithCuts]_vars => [AnyNextWithCuts]_vars
      /\ [Step]_vars => [AnyNext]_vars
      /\ [Step \/ PowerCycle]_vars => [AnyNext]_vars
      /\ [AnyNext]_vars => [AnyNextWithCuts]_vars
  BY <1>1, <1>2 DEF Next, NextWithCuts, AnyNext, AnyNextWithCuts
<1> QED BY <1>3, PTL
        DEF Spec, SpecWithCuts, RunningSpec, RestartSpec, AnySpec, AnySpecWithCuts

-----------------------------------------------------------------------------
(* The theorem *)

\* reb_fsm_init finds nothing but well-typed snapshots.
LEMMA InitType == Init => TypeInv
<1> SUFFICES ASSUME Init PROVE TypeInv
  OBVIOUS
<1>1. RAMP_INIT \in 0..RAMP_INIT /\ 0 \in 0..MAX_NONCE
  BY RampConstants, SecurityAssumption
<1>2. /\ 0 \in 0..(STATUS_PERIOD_CYCLES - 1)
      /\ 0 \in 0..(DERATE_CMD_PERIOD_CYCLES - 1)
  BY FsmAssumption
<1>3. ContextTypeOK
  BY <1>1, <1>2, Constants, PanelInitType, FusionInitType, WindowInitType, ActInitType,
     StarterInitType, AlertInitType DEF Init, ContextTypeOK
<1> QED BY <1>3, FusionInitType, WindowInitType, DefaultSnapshots
        DEF Init, TypeInv, CountersBelowLimits, MemoryTypeOK

\* A power cycle and a factory reset.
LEMMA RestartType ==
    ASSUME TypeInv, PowerCycle \/ FactoryReset
    PROVE  TypeInv'
<1>1. CASE PowerCycle
  <2>1. (IF nvm_sim_valid THEN nvm_sim_buf ELSE factory_defaults) \in nvm_data_t
    BY DefaultSnapshots DEF TypeInv, MemoryTypeOK
  <2>2. ContextTypeOK' /\ CountersBelowLimits'
    BY <1>1, <2>1, BootType DEF PowerCycle
  <2> QED BY <1>1, <2>2 DEF PowerCycle, TypeInv, MemoryTypeOK, nvm_vars
<1>2. CASE FactoryReset
  BY <1>2, BootType, DefaultSnapshots DEF FactoryReset, TypeInv, MemoryTypeOK
<1> QED BY <1>1, <1>2

\* Every step.
LEMMA NextType ==
    ASSUME TypeInv, [AnyNextWithCuts]_vars
    PROVE  TypeInv'
<1>1. ASSUME NEW in \in reb_inputs_t, keeps_or_advances(in)
      PROVE  TypeInv'
  BY <1>1, IdleType, TheftGoesOnType, BlockingGoesOnType, BlockedStaysType
     DEF keeps_or_advances
<1>2. ASSUME NEW in \in reb_inputs_t, NEW cut, returns(in, cut)
      PROVE  TypeInv'
  BY <1>2, ReturningSnapshot, ReturnType DEF Returning, TypeInv
<1>3. CASE UNCHANGED vars
  BY <1>3 DEF vars, TypeInv, ContextTypeOK, CountersBelowLimits, MemoryTypeOK
<1> QED BY <1>1, <1>2, <1>3, RestartType DEF AnyNextWithCuts, AnyNext, AnyStep, AnyCutStep,
        reb_fsm_step

\* What a step does to the history of nonces: nothing, the command of the cycle
\* is added, or a factory reset starts it again.
LEMMA ActedStep ==
    ASSUME TypeInv, [AnyNextWithCuts]_vars
    PROVE  \/ acted' = acted
           \/ \E in \in reb_inputs_t : acted' = Append(acted, in.cmd_nonce)
           \/ acted' = <<>>
<1>1. ASSUME NEW in \in reb_inputs_t, keeps_or_advances(in)
      PROVE  acted' = acted \/ acted' = Append(acted, in.cmd_nonce)
  BY <1>1 DEF keeps_or_advances, IdlePanelActivates, IdleRemoteActivates, IdleSensorsActivate,
     IdleWatches, TheftOwnerConfirms, TheftWindowExpires, TheftWindowRuns, TheftHoldElapses,
     TheftHolds, theft_stays, enter_blocking, BlockingParks, BlockingContinues, BlockedStays
<1>2. ASSUME NEW in \in reb_inputs_t, NEW cut, returns(in, cut)
      PROVE  acted' = acted \/ acted' = Append(acted, in.cmd_nonce)
  BY <1>2, ReturningSnapshot DEF Returning
<1> QED BY <1>1, <1>2 DEF AnyNextWithCuts, AnyNext, AnyStep, AnyCutStep,
        reb_fsm_step, PowerCycle, FactoryReset, vars

\* The inductive invariant, with the history of nonces.
LEMMA TypeInvariant == AnySpecWithCuts => [](TypeInv /\ acted \in Seq(0..MAX_NONCE))
<1> DEFINE Inv == TypeInv /\ acted \in Seq(0..MAX_NONCE)
<1>1. Init => Inv
  BY InitType DEF Init
<1>2. Inv /\ [AnyNextWithCuts]_vars => Inv'
  <2> SUFFICES ASSUME Inv, [AnyNextWithCuts]_vars PROVE Inv'
    OBVIOUS
  <2>1. \A in \in reb_inputs_t : in.cmd_nonce \in 0..MAX_NONCE
    BY DEF reb_inputs_t
  <2>2. acted' \in Seq(0..MAX_NONCE)
    <3>1. /\ <<>> \in Seq(0..MAX_NONCE)
          /\ \A n \in 0..MAX_NONCE : Append(acted, n) \in Seq(0..MAX_NONCE)
      OBVIOUS
    <3> QED BY <2>1, <3>1, ActedStep
  <2> QED BY <2>2, NextType
<1> QED BY <1>1, <1>2, PTL DEF AnySpecWithCuts

\* TypeOK holds in every reachable state, whatever the inputs, the periods and
\* the limits, and however often the power fails (reb_types.h, and the limit of
\* every counter in the handlers).
THEOREM TypeCorrect == AnySpecWithCuts => []TypeOK
<1>1. TypeInv /\ acted \in Seq(0..MAX_NONCE) => TypeOK
  BY DEF TypeInv, MemoryTypeOK, TypeOK
<1> QED BY <1>1, TypeInvariant, PTL
=============================================================================
