---------------------------- MODULE RebFsmProofs ----------------------------
(***************************************************************************)
(* The machine of RebFsm, for every value of its constants: the invariants *)
(* with power cuts allowed, the action properties and the implementation   *)
(* of EngineBlocker with power cycles between cycles only.                 *)
(***************************************************************************)
EXTENDS RebFsmTypeProofs, SequenceTheorems

-----------------------------------------------------------------------------
(* What the steps do, summarised *)

\* A return to IDLE restrains nothing and leaves a memory that says IDLE; the
\* nonce and, unless power is cut, the reset timer and ramp are in it too.
LEMMA ReturnEffect ==
    ASSUME TypeInv, NEW in \in reb_inputs_t, NEW cut, NEW first \in nvm_data_t, NEW pnl,
           Returning(first, pnl, in, cut)
    PROVE  /\ state' = "IDLE"
           /\ ~act'.starter_inhibit_active /\ act'.derate_pct = DERATE_PCT_INIT
           /\ ~starter'.inhibit_active
           /\ ~alert'.alerts_active
           /\ nvm_sim_valid'
           /\ nvm_sim_buf'.last_state = "IDLE"
           /\ nvm_sim_buf'.last_source = source'
           /\ nvm_sim_buf'.last_nonce = first.last_nonce
           /\ last_nonce' = first.last_nonce
           /\ derate_ramp' \in {first.derate_ramp, RAMP_INIT}
           /\ nvm_sim_buf'.derate_ramp \in {first.derate_ramp, RAMP_INIT}
           /\ cut = FALSE => /\ parked_timer' = 0
                             /\ derate_ramp' = RAMP_INIT
                             /\ nvm_sim_buf'.parked_timer = 0
                             /\ nvm_sim_buf'.derate_ramp = RAMP_INIT
<1>1. CASE cut /\ nvm_write_state(first) /\ boot(first)
  <2>1. first.last_state = "IDLE"
    BY DEF Returning
  <2>2. ~act'.starter_inhibit_active /\ act'.derate_pct = DERATE_PCT_INIT
    BY <1>1, <2>1, ActInitType, ActInhibitType DEF boot, restored_act, act_init
  <2>3. ~starter'.inhibit_active
    BY <1>1, <2>1, Zenon DEF boot, starter_init
  <2>4. ~alert'.alerts_active
    BY <1>1, AlertInitType DEF boot
  <2> QED BY <1>1, <2>1, <2>2, <2>3, <2>4 DEF boot, nvm_write_state
<1>2. CASE ~(cut /\ nvm_write_state(first) /\ boot(first))
  <2>1. /\ state' = "IDLE" /\ source' = first.last_source
        /\ last_nonce' = first.last_nonce
        /\ parked_timer' = 0 /\ derate_ramp' = RAMP_INIT
        /\ act' = act_init /\ starter' = starter_init /\ alert' = alert_mgr_stop
        /\ nvm_sim_valid' = TRUE /\ nvm_sim_buf' = idle_snapshot(first)
    BY <1>2, Zenon DEF Returning, return_to_idle, nvm_write_state
  <2>2. /\ idle_snapshot(first).last_state = first.last_state
        /\ idle_snapshot(first).last_source = first.last_source
        /\ idle_snapshot(first).last_nonce = first.last_nonce
        /\ idle_snapshot(first).parked_timer = 0
        /\ idle_snapshot(first).derate_ramp = RAMP_INIT
    BY Zenon DEF idle_snapshot, nvm_data_t
  <2>3. ~act_init.starter_inhibit_active /\ act_init.derate_pct = DERATE_PCT_INIT
    BY DEF act_init
  <2> QED BY <2>1, <2>2, <2>3, StarterInitType, AlertInitType DEF Returning
<1> QED BY <1>1, <1>2

\* Any other step keeps the state, the source and the memory, or goes on to the
\* next state and writes the memory with it.
Stays == state' = state /\ source' = source /\ UNCHANGED nvm_vars

Advances ==
    /\ <<state, state'>> \in { <<"IDLE", "THEFT_CONFIRMED">>,
                               <<"THEFT_CONFIRMED", "BLOCKING">>,
                               <<"BLOCKING", "BLOCKED">> }
    /\ nvm_sim_valid'
    /\ nvm_sim_buf'.last_state = state'
    /\ nvm_sim_buf'.last_source = source'
    /\ nvm_sim_buf'.last_nonce = last_nonce'
    /\ nvm_sim_buf'.derate_ramp = derate_ramp'
    /\ state' # "BLOCKED" => /\ nvm_sim_buf'.parked_timer = parked_timer
                             /\ parked_timer' = 0
                             /\ derate_ramp' = derate_ramp

\* The branches of keeps_or_advances are of these two kinds.
LEMMA AdvanceEffect ==
    ASSUME NEW in, keeps_or_advances(in)
    PROVE  Stays \/ Advances
<1> USE DEF Stays, Advances, do_transition, nvm_write_state, snapshot
<1>1. ASSUME NEW src, enter_theft_confirmed(in, src), state = "IDLE"
      PROVE  Advances
  BY <1>1 DEF enter_theft_confirmed
<1>2. ASSUME enter_blocking(in), state = "THEFT_CONFIRMED"
      PROVE  Advances
  BY <1>2 DEF enter_blocking
<1>3. CASE IdlePanelActivates(in)
  BY <1>1, <1>3 DEF IdlePanelActivates
<1>4. CASE IdleRemoteActivates(in)
  BY <1>1, <1>4 DEF IdleRemoteActivates
<1>5. CASE IdleSensorsActivate(in)
  BY <1>1, <1>5 DEF IdleSensorsActivate
<1>6. CASE TheftOwnerConfirms(in)
  BY <1>2, <1>6 DEF TheftOwnerConfirms, theft_goes_on
<1>7. CASE TheftWindowExpires(in)
  BY <1>2, <1>7 DEF TheftWindowExpires, theft_goes_on
<1>8. CASE TheftHoldElapses(in)
  BY <1>2, <1>8 DEF TheftHoldElapses, theft_goes_on
<1>9. CASE BlockingParks(in)
  BY <1>9 DEF BlockingParks
<1>10. CASE \/ IdleWatches(in) \/ TheftWindowRuns(in) \/ TheftHolds(in)
            \/ BlockingContinues(in) \/ BlockedStays(in)
  BY <1>10 DEF IdleWatches, TheftWindowRuns, TheftHolds, theft_stays, BlockingContinues,
     BlockedStays, nvm_vars
<1> QED BY <1>3, <1>4, <1>5, <1>6, <1>7, <1>8, <1>9, <1>10 DEF keeps_or_advances

\* The cycle of BLOCKING: it never touches the starter, and the fuel stays at or
\* above the floor if it was there.
LEMMA BlockingCycle ==
    ASSUME ContextTypeOK, NEW in \in reb_inputs_t
    PROVE  /\ next_act(in) \in actuator_output_t
           /\ next_act(in).starter_inhibit_active = act.starter_inhibit_active
           /\ act.derate_pct >= FUEL_FLOOR_PCT => next_act(in).derate_pct >= FUEL_FLOOR_PCT
           /\ derate_ramp >= RAMP_FLOOR => next_ramp(in) >= RAMP_FLOOR
<1>1. next_ramp(in) \in 0..RAMP_INIT /\ next_act(in) \in actuator_output_t
  BY BlockingCycleType
<1>2. CASE in_motion(in.vehicle_speed)
  <2> DEFINE pct == next_ramp(in) \div RAMP_SCALE
  <2>1. pct \in 0..DERATE_PCT_INIT
    BY <1>1, RampPercent
  <2>2. next_act(in) = act_apply_derate("BLOCKING", in.vehicle_speed, pct, act)
    BY <1>2 DEF next_act
  <2> HIDE DEF pct
  <2>3. /\ next_act(in).starter_inhibit_active = act.starter_inhibit_active
        /\ next_act(in).derate_pct = IF pct > FUEL_FLOOR_PCT THEN pct ELSE FUEL_FLOOR_PCT
    <3>1. act \in actuator_output_t
      BY DEF ContextTypeOK
    <3>2. LET new == act_apply_derate("BLOCKING", in.vehicle_speed, pct, act)
          IN  /\ new.derate_pct = IF pct > FUEL_FLOOR_PCT THEN pct ELSE FUEL_FLOOR_PCT
              /\ new.starter_inhibit_active = act.starter_inhibit_active
      BY <1>2, <2>1, <3>1, ActDerateMoving
    <3> QED BY <2>2, <3>2
  <2>4. next_act(in).derate_pct >= FUEL_FLOOR_PCT
    BY <2>1, <2>3, ActuatorAssumption
  <2>5. next_ramp(in) >= RAMP_FLOOR
    BY <1>2, CalcDerateRampBounds, RampConstants DEF next_ramp, ContextTypeOK
  <2> QED BY <1>1, <2>3, <2>4, <2>5
<1>3. CASE ~in_motion(in.vehicle_speed)
  BY <1>1, <1>3 DEF next_act, next_ramp
<1> QED BY <1>2, <1>3

-----------------------------------------------------------------------------
(* StarterInhibitedOnlyInBlocked *)

\* No branch that stays or goes on breaks it.
LEMMA StarterKept ==
    ASSUME TypeInv, StarterInhibitedOnlyInBlocked, NEW in \in reb_inputs_t,
           keeps_or_advances(in)
    PROVE  StarterInhibitedOnlyInBlocked'
<1> USE DEF StarterInhibitedOnlyInBlocked
<1>1. ContextTypeOK /\ act \in actuator_output_t /\ starter \in starter_ctx_t
  BY DEF TypeInv, ContextTypeOK
<1>2. ASSUME NEW src, enter_theft_confirmed(in, src), state = "IDLE"
      PROVE  StarterInhibitedOnlyInBlocked'
  BY <1>2 DEF enter_theft_confirmed, do_transition
<1>3. ASSUME enter_blocking(in), state = "THEFT_CONFIRMED"
      PROVE  StarterInhibitedOnlyInBlocked'
  BY <1>3 DEF enter_blocking, do_transition
<1>4. CASE IdlePanelActivates(in) \/ IdleRemoteActivates(in) \/ IdleSensorsActivate(in)
  BY <1>2, <1>4 DEF IdlePanelActivates, IdleRemoteActivates, IdleSensorsActivate
<1>5. CASE TheftOwnerConfirms(in) \/ TheftWindowExpires(in) \/ TheftHoldElapses(in)
  BY <1>3, <1>5 DEF TheftOwnerConfirms, TheftWindowExpires, TheftHoldElapses, theft_goes_on
<1>6. CASE IdleWatches(in) \/ TheftWindowRuns(in) \/ TheftHolds(in)
  BY <1>6 DEF IdleWatches, TheftWindowRuns, TheftHolds, theft_stays
<1>7. CASE BlockingParks(in)
  <2>1. next_act(in) \in actuator_output_t
    BY <1>1, BlockingCycle
  <2>2. act_apply_derate("BLOCKED", 0, DERATE_PCT_INIT, next_act(in)) \in actuator_output_t
    BY <2>1, ActDerateBlocked
  <2>3. act'.starter_inhibit_active = TRUE /\ state' = "BLOCKED"
    BY <1>7, <2>2, ActInhibitType DEF BlockingParks, do_transition
  <2> QED BY <2>3
<1>8. CASE BlockingContinues(in)
  BY <1>1, <1>8, BlockingCycle DEF BlockingContinues, blocking_goes_on
<1>9. CASE BlockedStays(in)
  <2>1. act'.starter_inhibit_active = TRUE /\ state' = "BLOCKED"
    BY <1>1, <1>9, ActInhibitType DEF BlockedStays
  <2> QED BY <2>1
<1> QED BY <1>4, <1>5, <1>6, <1>7, <1>8, <1>9 DEF keeps_or_advances

\* Nor does a restart: boot re-asserts the inhibit exactly for BLOCKED.
LEMMA StarterRestored ==
    ASSUME NEW d, boot(d)
    PROVE  StarterInhibitedOnlyInBlocked'
<1>1. (d.last_state = "BLOCKED") \in BOOLEAN
  OBVIOUS
<1>2. act'.starter_inhibit_active = (d.last_state = "BLOCKED")
  BY <1>1, ActInitType, ActInhibitType DEF boot, restored_act
<1>3. starter'.inhibit_active = (d.last_state = "BLOCKED")
  BY <1>1, Zenon DEF boot, starter_init
<1> QED BY <1>2, <1>3 DEF StarterInhibitedOnlyInBlocked, boot

\* The starter is inhibited in BLOCKED and only there, power cuts included.
THEOREM StarterSafe == AnySpecWithCuts => []StarterInhibitedOnlyInBlocked
<1>1. Init => StarterInhibitedOnlyInBlocked
  BY StarterInitType DEF Init, StarterInhibitedOnlyInBlocked, act_init
<1>2. TypeInv /\ StarterInhibitedOnlyInBlocked /\ [AnyNextWithCuts]_vars
         => StarterInhibitedOnlyInBlocked'
  <2> SUFFICES ASSUME TypeInv, StarterInhibitedOnlyInBlocked, [AnyNextWithCuts]_vars
               PROVE  StarterInhibitedOnlyInBlocked'
    OBVIOUS
  <2>1. ASSUME NEW in \in reb_inputs_t, keeps_or_advances(in)
        PROVE  StarterInhibitedOnlyInBlocked'
    BY <2>1, StarterKept
  <2>2. ASSUME NEW in \in reb_inputs_t, NEW cut, returns(in, cut)
        PROVE  StarterInhibitedOnlyInBlocked'
    BY <2>2, ReturningSnapshot, ReturnEffect DEF StarterInhibitedOnlyInBlocked
  <2>3. CASE PowerCycle \/ FactoryReset
    BY <2>3, StarterRestored DEF PowerCycle, FactoryReset
  <2>4. CASE UNCHANGED vars
    BY <2>4 DEF vars, StarterInhibitedOnlyInBlocked
  <2> QED BY <2>1, <2>2, <2>3, <2>4 DEF AnyNextWithCuts, AnyNext, AnyStep,
          AnyCutStep, reb_fsm_step
<1> QED BY <1>1, <1>2, TypeInvariant, PTL DEF AnySpecWithCuts

-----------------------------------------------------------------------------
(* MemoryMirrorsState *)

\* Between two cycles the memory holds the state and the source the machine is
\* in, power cuts in the middle of a cycle included: whichever of the two
\* snapshots of a return to IDLE was the last, both say IDLE.
THEOREM MemorySafe == AnySpecWithCuts => []MemoryMirrorsState
<1>1. Init => MemoryMirrorsState
  BY DEF Init, MemoryMirrorsState
<1>2. TypeInv /\ MemoryMirrorsState /\ [AnyNextWithCuts]_vars => MemoryMirrorsState'
  <2> SUFFICES ASSUME TypeInv, MemoryMirrorsState, [AnyNextWithCuts]_vars
               PROVE  MemoryMirrorsState'
    OBVIOUS
  <2>1. ASSUME NEW in \in reb_inputs_t, keeps_or_advances(in)
        PROVE  MemoryMirrorsState'
    BY <2>1, AdvanceEffect DEF Stays, Advances, MemoryMirrorsState, nvm_vars
  <2>2. ASSUME NEW in \in reb_inputs_t, NEW cut, returns(in, cut)
        PROVE  MemoryMirrorsState'
    BY <2>2, ReturningSnapshot, ReturnEffect DEF MemoryMirrorsState
  <2>3. CASE PowerCycle
    BY <2>3 DEF PowerCycle, boot, MemoryMirrorsState, nvm_vars, factory_defaults, snapshot
  <2>4. CASE FactoryReset
    BY <2>4 DEF FactoryReset, boot, MemoryMirrorsState, factory_defaults, snapshot
  <2>5. CASE UNCHANGED vars
    BY <2>5 DEF vars, MemoryMirrorsState
  <2> QED BY <2>1, <2>2, <2>3, <2>4, <2>5 DEF AnyNextWithCuts, AnyNext, AnyStep,
          AnyCutStep, reb_fsm_step
<1> QED BY <1>1, <1>2, TypeInvariant, PTL DEF AnySpecWithCuts

-----------------------------------------------------------------------------
(* BlockedAfterDwell and RampStartsFull, without cuts *)

DwellInv == TypeInv /\ AfreshBeforeBlocking /\ DwellIsStandstill

\* A branch that stays or goes on keeps the timers of the states before BLOCKING
\* at rest, and the dwell timer behind the standstill.
LEMMA DwellKept ==
    ASSUME DwellInv, NEW in \in reb_inputs_t, keeps_or_advances(in)
    PROVE  /\ AfreshBeforeBlocking' /\ DwellIsStandstill'
           /\ state # "BLOCKED" /\ state' = "BLOCKED" => still' = T_PARKED_CYCLES
           /\ state # "BLOCKING" /\ state' = "BLOCKING" => derate_ramp' = RAMP_INIT
<1> USE DEF AfreshBeforeBlocking, DwellIsStandstill
<1>1. /\ parked_timer \in 0..T_PARKED_CYCLES /\ still \in 0..T_PARKED_CYCLES
      /\ T_PARKED_CYCLES \in Nat \ {0}
  BY FsmAssumption DEF DwellInv, TypeInv, ContextTypeOK
<1>2. end_of_step(in) => /\ still' \in 0..T_PARKED_CYCLES
                         /\ state = "BLOCKING" /\ in.speed_is_valid => next_parked(in) <= still'
  <2> SUFFICES ASSUME end_of_step(in)
               PROVE  /\ still' \in 0..T_PARKED_CYCLES
                      /\ state = "BLOCKING" /\ in.speed_is_valid => next_parked(in) <= still'
    OBVIOUS
  <2>1. still' = IF in.speed_is_valid /\ ~in_motion(in.vehicle_speed)
                 THEN saturate(still + 1, T_PARKED_CYCLES) ELSE 0
    BY DEF end_of_step
  <2>2. CASE in_motion(in.vehicle_speed)
    BY <1>1, <2>1, <2>2 DEF next_parked
  <2>3. CASE ~in_motion(in.vehicle_speed)
    BY <1>1, <2>1, <2>3 DEF next_parked, saturate, DwellInv
  <2> QED BY <2>2, <2>3
<1>3. CASE BlockingParks(in)
  <2>1. end_of_step(in) /\ state = "BLOCKING" /\ in.speed_is_valid
        /\ next_parked(in) >= T_PARKED_CYCLES /\ state' = "BLOCKED"
        /\ nvm_sim_buf'.last_state = "BLOCKED"
    BY <1>3 DEF BlockingParks, do_transition, nvm_write_state, snapshot
  <2>2. next_parked(in) \in 0..T_PARKED_CYCLES
    BY BlockingCycleType DEF DwellInv, TypeInv
  <2> QED BY <1>1, <1>2, <2>1, <2>2
<1>4. CASE BlockingContinues(in)
  BY <1>2, <1>4 DEF BlockingContinues, blocking_goes_on, DwellInv, nvm_vars
<1>5. CASE IdleWatches(in) \/ TheftWindowRuns(in) \/ TheftHolds(in) \/ BlockedStays(in)
  <2>1. /\ state' = state /\ state # "BLOCKING"
        /\ parked_timer' = parked_timer /\ derate_ramp' = derate_ramp
        /\ nvm_sim_valid' = nvm_sim_valid /\ nvm_sim_buf' = nvm_sim_buf
    BY <1>5 DEF IdleWatches, TheftWindowRuns, TheftHolds, theft_stays, BlockedStays,
       theft_goes_on, nvm_vars
  <2> QED BY <2>1 DEF DwellInv
<1>6. CASE IdlePanelActivates(in) \/ IdleRemoteActivates(in) \/ IdleSensorsActivate(in)
  <2>1. PICK src : enter_theft_confirmed(in, src) /\ state = "IDLE"
    BY <1>6 DEF IdlePanelActivates, IdleRemoteActivates, IdleSensorsActivate
  <2>2. Stays \/ Advances
    BY AdvanceEffect
  <2>3. state' = "THEFT_CONFIRMED" /\ parked_timer' = 0 /\ derate_ramp' = derate_ramp
    BY <2>1 DEF enter_theft_confirmed, do_transition
  <2> QED BY <2>1, <2>2, <2>3 DEF Stays, Advances, DwellInv
<1>7. CASE TheftOwnerConfirms(in) \/ TheftWindowExpires(in) \/ TheftHoldElapses(in)
  <2>1. enter_blocking(in) /\ state = "THEFT_CONFIRMED"
    BY <1>7 DEF TheftOwnerConfirms, TheftWindowExpires, TheftHoldElapses, theft_goes_on
  <2>2. Stays \/ Advances
    BY AdvanceEffect
  <2>3. state' = "BLOCKING" /\ parked_timer' = 0 /\ derate_ramp' = derate_ramp
        /\ still' \in 0..T_PARKED_CYCLES
    BY <1>2, <2>1 DEF enter_blocking, do_transition
  <2> QED BY <2>1, <2>2, <2>3 DEF Stays, Advances, DwellInv
<1> QED BY <1>3, <1>4, <1>5, <1>6, <1>7 DEF keeps_or_advances

\* So does every other step; a power cycle resumes BLOCKING with a dwell timer
\* of zero, and neither it nor a return enters BLOCKING or BLOCKED.
LEMMA DwellStep ==
    ASSUME DwellInv, MemoryMirrorsState, [AnyNext]_vars
    PROVE  /\ AfreshBeforeBlocking' /\ DwellIsStandstill'
           /\ state # "BLOCKED" /\ state' = "BLOCKED" => still' = T_PARKED_CYCLES
           /\ state # "BLOCKING" /\ state' = "BLOCKING" => derate_ramp' = RAMP_INIT
<1>1. ASSUME NEW in \in reb_inputs_t, returns(in, FALSE)
      PROVE  /\ state' = "IDLE"
             /\ AfreshBeforeBlocking' /\ DwellIsStandstill'
  BY <1>1, ReturningSnapshot, ReturnEffect
     DEF DwellInv, AfreshBeforeBlocking, DwellIsStandstill
<1>2. CASE PowerCycle
  <2>1. CASE nvm_sim_valid
    <3>1. /\ state' = nvm_sim_buf.last_state /\ parked_timer' = nvm_sim_buf.parked_timer
          /\ derate_ramp' = nvm_sim_buf.derate_ramp /\ still' = 0 /\ UNCHANGED nvm_vars
          /\ state' = state
      BY <1>2, <2>1 DEF PowerCycle, boot, MemoryMirrorsState
    <3> QED BY <2>1, <3>1 DEF DwellInv, AfreshBeforeBlocking, DwellIsStandstill, nvm_vars
  <2>2. CASE ~nvm_sim_valid
    BY <1>2, <2>2 DEF PowerCycle, boot, factory_defaults, snapshot, nvm_vars, DwellInv,
       AfreshBeforeBlocking, DwellIsStandstill
  <2> QED BY <2>1, <2>2
<1>3. CASE FactoryReset
  BY <1>3 DEF FactoryReset, boot, factory_defaults, snapshot, AfreshBeforeBlocking,
     DwellIsStandstill
<1>4. CASE UNCHANGED vars
  BY <1>4 DEF vars, DwellInv, AfreshBeforeBlocking, DwellIsStandstill
<1> QED BY <1>1, <1>2, <1>3, <1>4, DwellKept DEF AnyNext, AnyStep, reb_fsm_step

\* The invariant behind the two theorems below.
LEMMA DwellInvariant == AnySpec => [](DwellInv /\ MemoryMirrorsState)
<1>1. Init => AfreshBeforeBlocking /\ DwellIsStandstill
  BY DEF Init, AfreshBeforeBlocking, DwellIsStandstill
<1>2. DwellInv /\ MemoryMirrorsState /\ [AnyNext]_vars
         => AfreshBeforeBlocking' /\ DwellIsStandstill'
  BY DwellStep
<1>3. DwellInv <=> TypeInv /\ AfreshBeforeBlocking /\ DwellIsStandstill
  BY DEF DwellInv
<1> QED BY <1>1, <1>2, <1>3, TypeInvariant, MemorySafe, InputsOnlyNarrow, PTL DEF AnySpec

\* BLOCKED is only entered after a full dwell at standstill, power cycles between
\* any two cycles included.
THEOREM DwellSafe == AnySpec => BlockedAfterDwell
<1>1. DwellInv /\ MemoryMirrorsState /\ [AnyNext]_vars
         => [state # "BLOCKED" /\ state' = "BLOCKED" => still' = T_PARKED_CYCLES]_vars
  BY DwellStep
<1> QED BY <1>1, DwellInvariant, PTL DEF AnySpec, BlockedAfterDwell

\* The ramp is full whenever BLOCKING is entered.
THEOREM RampSafe == AnySpec => RampStartsFull
<1>1. DwellInv /\ MemoryMirrorsState /\ [AnyNext]_vars
         => [state # "BLOCKING" /\ state' = "BLOCKING" => derate_ramp' = RAMP_INIT]_vars
  BY DwellStep
<1> QED BY <1>1, DwellInvariant, PTL DEF AnySpec, RampStartsFull

-----------------------------------------------------------------------------
(* FuelNeverBelowFloor *)

\* What a step does to the ramp and to the fuel command.
LEMMA FuelStep ==
    ASSUME TypeInv, FuelNeverBelowFloor, NEW in \in reb_inputs_t, keeps_or_advances(in)
    PROVE  act'.derate_pct >= FUEL_FLOOR_PCT /\ derate_ramp' >= RAMP_FLOOR
<1>1. /\ ContextTypeOK /\ act \in actuator_output_t /\ act.derate_pct >= FUEL_FLOOR_PCT
      /\ derate_ramp >= RAMP_FLOOR
  BY DEF TypeInv, ContextTypeOK, FuelNeverBelowFloor
<1>2. CASE BlockingParks(in)
  <2>1. /\ next_act(in) \in actuator_output_t
        /\ next_ramp(in) >= RAMP_FLOOR
    BY <1>1, BlockingCycle
  <2>2. LET new == act_apply_derate("BLOCKED", 0, DERATE_PCT_INIT, next_act(in))
        IN  new \in actuator_output_t /\ new.derate_pct = DERATE_PCT_INIT
    BY <2>1, ActDerateBlocked
  <2>3. act'.derate_pct = DERATE_PCT_INIT /\ derate_ramp' = next_ramp(in)
    BY <1>2, <2>2, ActInhibitType DEF BlockingParks
  <2> QED BY <2>1, <2>3, ActuatorAssumption
<1>3. CASE BlockingContinues(in)
  BY <1>1, <1>3, BlockingCycle DEF BlockingContinues
<1>4. CASE BlockedStays(in)
  <2>1. act'.derate_pct = act.derate_pct /\ derate_ramp' = derate_ramp
    BY <1>1, <1>4, ActInhibitType DEF BlockedStays
  <2> QED BY <1>1, <2>1
<1>5. CASE ~BlockingParks(in) /\ ~BlockingContinues(in) /\ ~BlockedStays(in)
  <2>1. act' = act /\ derate_ramp' = derate_ramp
    BY <1>5 DEF keeps_or_advances, IdlePanelActivates, IdleRemoteActivates, IdleSensorsActivate,
       IdleWatches, enter_theft_confirmed, TheftOwnerConfirms, TheftWindowExpires,
       TheftHoldElapses, enter_blocking, TheftWindowRuns, TheftHolds, theft_stays
  <2> QED BY <1>1, <2>1
<1> QED BY <1>2, <1>3, <1>4, <1>5

\* No fuel command is below the floor, power cuts included.
THEOREM FuelSafe == AnySpecWithCuts => []FuelNeverBelowFloor
<1>1. Init => FuelNeverBelowFloor
  BY RampConstants, ActuatorAssumption DEF Init, FuelNeverBelowFloor, act_init
<1>2. TypeInv /\ FuelNeverBelowFloor /\ [AnyNextWithCuts]_vars => FuelNeverBelowFloor'
  <2> SUFFICES ASSUME TypeInv, FuelNeverBelowFloor, [AnyNextWithCuts]_vars
               PROVE  FuelNeverBelowFloor'
    OBVIOUS
  <2>1. DERATE_PCT_INIT >= FUEL_FLOOR_PCT /\ RAMP_INIT >= RAMP_FLOOR
    BY RampConstants, ActuatorAssumption
  <2>2. ASSUME NEW in \in reb_inputs_t, keeps_or_advances(in)
        PROVE  FuelNeverBelowFloor'
    BY <2>2, FuelStep, AdvanceEffect
       DEF Stays, Advances, FuelNeverBelowFloor, nvm_vars
  <2>3. ASSUME NEW in \in reb_inputs_t, NEW cut, returns(in, cut)
        PROVE  FuelNeverBelowFloor'
    <3>1. PICK first \in nvm_data_t, pnl \in panel_auth_ctx_t : Returning(first, pnl, in, cut)
      BY <2>3, ReturningSnapshot
    <3>2. next_ramp(in) >= RAMP_FLOOR
      BY BlockingCycle DEF TypeInv, FuelNeverBelowFloor
    <3>3. first.derate_ramp >= RAMP_FLOOR
      BY <2>1, <3>1, <3>2 DEF Returning, FuelNeverBelowFloor
    <3> QED BY <2>1, <3>1, <3>3, ReturnEffect DEF FuelNeverBelowFloor
  <2>4. ASSUME NEW d \in nvm_data_t, boot(d), d.derate_ramp >= RAMP_FLOOR
        PROVE  act'.derate_pct >= FUEL_FLOOR_PCT /\ derate_ramp' >= RAMP_FLOOR
    <3>1. act'.derate_pct = act_init.derate_pct
      BY <2>4, ActInitType, ActInhibitType DEF boot, restored_act
    <3> QED BY <2>1, <2>4, <3>1 DEF boot, act_init
  <2>5. factory_defaults \in nvm_data_t /\ factory_defaults.derate_ramp >= RAMP_FLOOR
    BY <2>1, DefaultSnapshots DEF factory_defaults, snapshot
  <2>6. CASE PowerCycle
    BY <2>4, <2>5, <2>6 DEF PowerCycle, TypeInv, MemoryTypeOK, FuelNeverBelowFloor, nvm_vars
  <2>7. CASE FactoryReset
    BY <2>4, <2>5, <2>7 DEF FactoryReset, FuelNeverBelowFloor
  <2>8. CASE UNCHANGED vars
    BY <2>8 DEF vars, FuelNeverBelowFloor
  <2> QED BY <2>2, <2>3, <2>6, <2>7, <2>8 DEF AnyNextWithCuts, AnyNext, AnyStep,
          AnyCutStep, reb_fsm_step
<1> QED BY <1>1, <1>2, TypeInvariant, PTL DEF AnySpecWithCuts

-----------------------------------------------------------------------------
(* AlertsOnlyForAutomatic *)

\* The alerts are driven for an automatic activation only, power cuts included.
THEOREM AlertsSafe == AnySpecWithCuts => []AlertsOnlyForAutomatic
<1>1. Init => AlertsOnlyForAutomatic
  BY AlertInitType DEF Init, AlertsOnlyForAutomatic
<1>2. TypeInv /\ AlertsOnlyForAutomatic /\ [AnyNextWithCuts]_vars => AlertsOnlyForAutomatic'
  <2> SUFFICES ASSUME TypeInv, AlertsOnlyForAutomatic, [AnyNextWithCuts]_vars
               PROVE  AlertsOnlyForAutomatic'
    OBVIOUS
  <2>1. alert_mgr_step(alert).alerts_active = alert.alerts_active
    BY AlertStepType DEF TypeInv, ContextTypeOK
  <2>2. ASSUME NEW in \in reb_inputs_t, keeps_or_advances(in)
        PROVE  AlertsOnlyForAutomatic'
    <3>1. CASE state = "IDLE"
      BY <2>1, <2>2, <3>1 DEF keeps_or_advances, IdlePanelActivates, IdleRemoteActivates,
         IdleSensorsActivate, IdleWatches, enter_theft_confirmed, AlertsOnlyForAutomatic,
         TheftOwnerConfirms, TheftWindowExpires, TheftHoldElapses, TheftWindowRuns, TheftHolds,
         theft_goes_on, BlockingParks, BlockingContinues, blocking_goes_on, BlockedStays
    <3>2. CASE state = "THEFT_CONFIRMED"
      <4>1. source' = source /\ state' # "IDLE"
        BY <2>2, <3>2 DEF keeps_or_advances, IdlePanelActivates, IdleRemoteActivates,
           IdleSensorsActivate, IdleWatches, TheftOwnerConfirms, TheftWindowExpires,
           TheftHoldElapses, TheftWindowRuns, TheftHolds, theft_goes_on, theft_stays,
           enter_blocking, do_transition, BlockingParks, BlockingContinues, blocking_goes_on,
           BlockedStays
      <4>2. source = "AUTO" \/ alert' = alert_mgr_step(alert)
        BY <2>2, <3>2 DEF keeps_or_advances, IdlePanelActivates, IdleRemoteActivates,
           IdleSensorsActivate, IdleWatches, TheftOwnerConfirms, TheftWindowExpires,
           TheftHoldElapses, TheftWindowRuns, TheftHolds, theft_goes_on, BlockingParks,
           BlockingContinues, blocking_goes_on, BlockedStays
      <4> QED BY <2>1, <4>1, <4>2 DEF AlertsOnlyForAutomatic
    <3>3. CASE state \in {"BLOCKING", "BLOCKED"}
      <4>1. source' = source /\ state' # "IDLE"
        BY <2>2, <3>3 DEF keeps_or_advances, IdlePanelActivates, IdleRemoteActivates,
           IdleSensorsActivate, IdleWatches, TheftOwnerConfirms, TheftWindowExpires,
           TheftHoldElapses, TheftWindowRuns, TheftHolds, theft_goes_on, BlockingParks,
           do_transition, BlockingContinues, blocking_goes_on, BlockedStays
      <4>2. \/ alert' = alert_mgr_step(alert)
            \/ source = "AUTO"
            \/ alert' = alert_mgr_step(alert_mgr_stop)
            \/ alert' = alert_mgr_stop
        BY <2>2, <3>3 DEF keeps_or_advances, IdlePanelActivates, IdleRemoteActivates,
           IdleSensorsActivate, IdleWatches, TheftOwnerConfirms, TheftWindowExpires,
           TheftHoldElapses, TheftWindowRuns, TheftHolds, theft_goes_on, BlockingParks,
           BlockingContinues, blocking_goes_on, BlockedStays
      <4>3. ~alert_mgr_stop.alerts_active /\ ~alert_mgr_step(alert_mgr_stop).alerts_active
        BY AlertInitType, AlertStepType
      <4> QED BY <2>1, <4>1, <4>2, <4>3 DEF AlertsOnlyForAutomatic
    <3> QED BY <3>1, <3>2, <3>3 DEF TypeInv, ContextTypeOK, reb_state_t
  <2>3. ASSUME NEW in \in reb_inputs_t, NEW cut, returns(in, cut)
        PROVE  AlertsOnlyForAutomatic'
    BY <2>3, ReturningSnapshot, ReturnEffect DEF AlertsOnlyForAutomatic
  <2>4. CASE PowerCycle \/ FactoryReset
    BY <2>4, AlertInitType DEF PowerCycle, FactoryReset, boot, AlertsOnlyForAutomatic
  <2>5. CASE UNCHANGED vars
    BY <2>5 DEF vars, AlertsOnlyForAutomatic
  <2> QED BY <2>2, <2>3, <2>4, <2>5 DEF AnyNextWithCuts, AnyNext, AnyStep,
          AnyCutStep, reb_fsm_step
<1> QED BY <1>1, <1>2, TypeInvariant, PTL DEF AnySpecWithCuts

-----------------------------------------------------------------------------
(* ActedNoncesIncrease *)

ReplayInv == ActedNoncesIncrease /\ ActedNoncesRemembered

\* A nonce above every other may be added to an increasing history.
LEMMA AppendNonce ==
    ASSUME NEW s \in Seq(0..MAX_NONCE), NEW n \in 0..MAX_NONCE, NEW top \in 0..MAX_NONCE,
           n > top,
           \A i \in 1..Len(s) : s[i] <= top,
           \A i, j \in 1..Len(s) : i < j => s[i] < s[j]
    PROVE  LET t == Append(s, n)
           IN  /\ \A i \in 1..Len(t) : t[i] <= n
               /\ \A i, j \in 1..Len(t) : i < j => t[i] < t[j]
<1> DEFINE t == Append(s, n)
<1>1. /\ Len(s) \in Nat /\ Len(t) = Len(s) + 1
      /\ \A i \in 1..Len(s) : t[i] = s[i]
      /\ t[Len(s) + 1] = n
  BY AppendProperties, LenProperties
<1>2. \A i \in 1..Len(s) : s[i] \in 0..MAX_NONCE
  BY ElementOfSeq
<1> HIDE DEF t
<1>3. \A i \in 1..Len(s) : t[i] < n /\ t[i] <= n
  BY <1>1, <1>2
<1>4. \A i \in 1..Len(t) : i = Len(s) + 1 \/ i \in 1..Len(s)
  BY <1>1
<1>5. \A i \in 1..Len(t) : t[i] <= n
  <2>1. t[Len(s) + 1] <= n
    BY <1>1
  <2> QED BY <1>3, <1>4, <2>1
<1>6. ASSUME NEW i \in 1..Len(t), NEW j \in 1..Len(t), i < j
      PROVE  t[i] < t[j]
  <2>1. i \in 1..Len(s)
    BY <1>1, <1>6
  <2> QED BY <1>1, <1>3, <1>4, <1>6, <2>1
<1> QED BY <1>5, <1>6 DEF t

\* What a cycle does to the nonces: the last one never falls in RAM, the memory
\* is not written or written with it, and only a command with a higher nonce is
\* added to the history.
NonceStep ==
    /\ last_nonce' >= last_nonce
    /\ last_nonce' \in 0..MAX_NONCE
    /\ \/ acted' = acted /\ UNCHANGED nvm_vars
       \/ /\ nvm_sim_valid' /\ nvm_sim_buf'.last_nonce = last_nonce'
          /\ \/ acted' = acted
             \/ acted' = Append(acted, last_nonce') /\ last_nonce' > last_nonce

LEMMA CycleNonce ==
    ASSUME TypeInv, NEW in \in reb_inputs_t, NEW cut, keeps_or_advances(in) \/ returns(in, cut)
    PROVE  NonceStep
<1>1. last_nonce \in 0..MAX_NONCE /\ last_nonce >= last_nonce
  BY SecurityAssumption DEF TypeInv, ContextTypeOK
<1>2. /\ nonce_checked(in) \in 0..MAX_NONCE /\ nonce_checked(in) >= last_nonce
      /\ nonce_after(last_nonce, in) \in 0..MAX_NONCE
      /\ nonce_after(last_nonce, in) >= last_nonce
      /\ sec_mgr_verify(last_nonce, in) => /\ nonce_after(last_nonce, in) = in.cmd_nonce
                                            /\ in.cmd_nonce > last_nonce
  BY <1>1, NonceAfterType DEF nonce_checked
<1>3. CASE returns(in, cut)
  <2>1. PICK first \in nvm_data_t, pnl \in panel_auth_ctx_t : Returning(first, pnl, in, cut)
    BY <1>3, ReturningSnapshot
  <2>2. /\ nvm_sim_valid' /\ nvm_sim_buf'.last_nonce = first.last_nonce
        /\ last_nonce' = first.last_nonce
    BY <2>1, ReturnEffect
  <2> QED BY <1>1, <1>2, <2>1, <2>2 DEF Returning, NonceStep
<1>4. CASE IdleRemoteActivates(in)
  <2>1. /\ last_nonce' = nonce_after(last_nonce, in) /\ acted' = Append(acted, in.cmd_nonce)
        /\ sec_mgr_verify(last_nonce, in) /\ state = "IDLE" /\ state' = "THEFT_CONFIRMED"
    BY <1>4 DEF IdleRemoteActivates, block_accepted, enter_theft_confirmed, do_transition
  <2>2. Advances
    BY <1>4, <2>1, AdvanceEffect DEF Stays, keeps_or_advances
  <2> QED BY <1>2, <2>1, <2>2 DEF Advances, NonceStep
<1>5. CASE keeps_or_advances(in) /\ ~IdleRemoteActivates(in)
  <2>1. acted' = acted /\ last_nonce' \in {last_nonce, nonce_checked(in)}
    BY <1>5 DEF keeps_or_advances, IdlePanelActivates, IdleSensorsActivate, IdleWatches,
       TheftOwnerConfirms, TheftWindowExpires, TheftWindowRuns, TheftHoldElapses, TheftHolds,
       theft_stays, enter_blocking, BlockingParks, BlockingContinues, BlockedStays
  <2> QED BY <1>1, <1>2, <1>5, <2>1, AdvanceEffect DEF Stays, Advances, NonceStep
<1> QED BY <1>3, <1>4, <1>5

\* No command that moved the machine moves it again, power cuts included.
THEOREM NoReplay == AnySpecWithCuts => []ActedNoncesIncrease
<1> DEFINE Typed == TypeInv /\ acted \in Seq(0..MAX_NONCE)
<1>1. Init => ReplayInv
  BY DEF Init, ReplayInv, ActedNoncesIncrease, ActedNoncesRemembered
<1>2. Typed /\ ReplayInv /\ [AnyNextWithCuts]_vars => ReplayInv'
  <2> SUFFICES ASSUME Typed, ReplayInv, [AnyNextWithCuts]_vars
               PROVE  ReplayInv'
    OBVIOUS
  <2>1. /\ last_nonce \in 0..MAX_NONCE
        /\ Len(acted) \in Nat
        /\ \A i \in 1..Len(acted) : acted[i] \in 0..MAX_NONCE
    BY LenProperties, ElementOfSeq DEF TypeInv, ContextTypeOK
  <2> USE DEF ReplayInv, ActedNoncesIncrease, ActedNoncesRemembered
  <2>2. ASSUME NonceStep
        PROVE  ReplayInv'
    <3>1. \A i \in 1..Len(acted) : acted[i] <= last_nonce'
      BY <2>1, <2>2, SecurityAssumption DEF NonceStep
    <3>2. CASE acted' = acted /\ UNCHANGED nvm_vars
      BY <3>1, <3>2 DEF nvm_vars
    <3>3. CASE nvm_sim_valid' /\ nvm_sim_buf'.last_nonce = last_nonce' /\ acted' = acted
      BY <3>1, <3>3
    <3>4. CASE /\ nvm_sim_valid' /\ nvm_sim_buf'.last_nonce = last_nonce'
               /\ acted' = Append(acted, last_nonce') /\ last_nonce' > last_nonce
      <4>1. LET t == Append(acted, last_nonce')
            IN  /\ \A i \in 1..Len(t) : t[i] <= last_nonce'
                /\ \A i, j \in 1..Len(t) : i < j => t[i] < t[j]
        BY <2>1, <2>2, <3>4, AppendNonce DEF NonceStep
      <4> QED BY <3>4, <4>1
    <3> QED BY <2>2, <3>2, <3>3, <3>4 DEF NonceStep
  <2>3. ASSUME NEW in \in reb_inputs_t, NEW cut, keeps_or_advances(in) \/ returns(in, cut)
        PROVE  ReplayInv'
    BY <2>2, <2>3, CycleNonce
  <2>4. CASE PowerCycle
    <3>1. acted' = acted /\ UNCHANGED nvm_vars
          /\ (nvm_sim_valid => last_nonce' = nvm_sim_buf.last_nonce)
      BY <2>4 DEF PowerCycle, boot
    <3>2. CASE nvm_sim_valid
      BY <3>1, <3>2 DEF nvm_vars
    <3>3. CASE ~nvm_sim_valid
      BY <3>1, <3>3 DEF nvm_vars
    <3> QED BY <3>2, <3>3
  <2>5. CASE FactoryReset
    BY <2>5 DEF FactoryReset
  <2>6. CASE UNCHANGED vars
    BY <2>6 DEF vars
  <2> QED BY <2>3, <2>4, <2>5, <2>6 DEF AnyNextWithCuts, AnyNext, AnyStep,
          AnyCutStep, reb_fsm_step
<1>3. ReplayInv => ActedNoncesIncrease
  BY DEF ReplayInv
<1> QED BY <1>1, <1>2, <1>3, TypeInvariant, PTL DEF AnySpecWithCuts

-----------------------------------------------------------------------------
(* What the branches that stay or go on do to the fuel *)

\* Nothing, on the way to BLOCKING, and in a cycle without motion there;
HoldsFuel ==
    /\ \/ state' = state
       \/ state = "IDLE" /\ state' = "THEFT_CONFIRMED"
       \/ state = "THEFT_CONFIRMED" /\ state' = "BLOCKING"
    /\ act'.derate_pct = act.derate_pct
    /\ act'.fuel_derating_active = act.fuel_derating_active
    /\ derate_ramp' = derate_ramp

\* one step down the ramp, in BLOCKING, for a vehicle in motion;
TakesFuel ==
    /\ state = "BLOCKING" /\ state' = "BLOCKING"
    /\ derate_ramp' = calc_derate_ramp(derate_ramp)
    /\ act'.derate_pct = derate_ramp' \div RAMP_SCALE
    /\ still' = 0

\* or full fuel again, when the starter takes over.
ReturnsFuel ==
    /\ state = "BLOCKING" /\ state' = "BLOCKED"
    /\ act'.derate_pct = DERATE_PCT_INIT
    /\ act'.fuel_derating_active = FALSE

LEMMA FuelEffect ==
    ASSUME TypeInv, FuelNeverBelowFloor, NEW in \in reb_inputs_t, keeps_or_advances(in)
    PROVE  HoldsFuel \/ TakesFuel \/ ReturnsFuel
<1>1. ContextTypeOK /\ act \in actuator_output_t /\ derate_ramp \in 0..RAMP_INIT
  BY DEF TypeInv, ContextTypeOK
<1>2. CASE BlockingParks(in)
  <2>1. next_act(in) \in actuator_output_t
    BY <1>1, BlockingCycle
  <2>2. LET new == act_apply_derate("BLOCKED", 0, DERATE_PCT_INIT, next_act(in))
        IN  /\ new \in actuator_output_t /\ new.derate_pct = DERATE_PCT_INIT
            /\ new.fuel_derating_active = FALSE
    BY <2>1, ActDerateBlocked
  <2>3. ReturnsFuel
    BY <1>2, <2>2, ActInhibitType DEF BlockingParks, do_transition, ReturnsFuel
  <2> QED BY <2>3
<1>3. CASE BlockingContinues(in) /\ ~in_motion(in.vehicle_speed)
  BY <1>3 DEF BlockingContinues, blocking_goes_on, next_act, next_ramp, HoldsFuel
<1>4. CASE BlockingContinues(in) /\ in_motion(in.vehicle_speed)
  <2> DEFINE pct == next_ramp(in) \div RAMP_SCALE
  <2>1. /\ state = "BLOCKING" /\ state' = "BLOCKING"
        /\ derate_ramp' = next_ramp(in) /\ act' = next_act(in) /\ end_of_step(in)
    BY <1>4 DEF BlockingContinues, blocking_goes_on
  <2>2. next_ramp(in) = calc_derate_ramp(derate_ramp) /\ still' = 0
    BY <1>4, <2>1 DEF next_ramp, end_of_step
  <2>3. next_ramp(in) \in 0..RAMP_INIT /\ next_ramp(in) >= RAMP_FLOOR
    BY <1>1, <2>2, CalcDerateRampBounds, RampConstants
  <2>4. pct \in 0..DERATE_PCT_INIT /\ pct >= FUEL_FLOOR_PCT
    BY <2>3, RampPercent
  <2>5. next_act(in) = act_apply_derate("BLOCKING", in.vehicle_speed, pct, act)
    BY <1>4 DEF next_act
  <2> HIDE DEF pct
  <2>6. act_apply_derate("BLOCKING", in.vehicle_speed, pct, act).derate_pct
          = IF pct > FUEL_FLOOR_PCT THEN pct ELSE FUEL_FLOOR_PCT
    BY <1>1, <1>4, <2>4, ActDerateMoving
  <2>7. next_act(in).derate_pct = pct
    BY <2>4, <2>5, <2>6, ActuatorAssumption
  <2>8. act'.derate_pct = derate_ramp' \div RAMP_SCALE
    BY <2>1, <2>7 DEF pct
  <2> QED BY <2>1, <2>2, <2>8 DEF TakesFuel
<1>5. CASE BlockedStays(in)
  BY <1>1, <1>5, ActInhibitType DEF BlockedStays, HoldsFuel
<1>6. CASE ~BlockingParks(in) /\ ~BlockingContinues(in) /\ ~BlockedStays(in)
  BY <1>6 DEF keeps_or_advances, IdlePanelActivates, IdleRemoteActivates, IdleSensorsActivate,
     IdleWatches, enter_theft_confirmed, TheftOwnerConfirms, TheftWindowExpires,
     TheftHoldElapses, enter_blocking, TheftWindowRuns, TheftHolds, theft_stays, theft_goes_on,
     do_transition, HoldsFuel
<1> QED BY <1>2, <1>3, <1>4, <1>5, <1>6

\* A return to IDLE, and a boot, leave the actuator layer without any derating.
LEMMA BootFuel ==
    ASSUME NEW d, boot(d)
    PROVE  act'.derate_pct = DERATE_PCT_INIT /\ ~act'.fuel_derating_active /\ still' = 0
<1>1. (d.last_state = "BLOCKED") \in BOOLEAN
  OBVIOUS
<1>2. /\ act'.derate_pct = act_init.derate_pct
      /\ act'.fuel_derating_active = act_init.fuel_derating_active
  BY <1>1, ActInitType, ActInhibitType DEF boot, restored_act
<1> QED BY <1>2 DEF boot, act_init

LEMMA ReturnFuel ==
    ASSUME NEW in, NEW first, NEW pnl, Returning(first, pnl, in, FALSE)
    PROVE  /\ act' = act_init /\ ~act'.fuel_derating_active
           /\ act'.derate_pct = DERATE_PCT_INIT
           /\ ~act'.starter_inhibit_active
           /\ end_of_step(in)
<1>1. act' = act_init /\ end_of_step(in)
  BY DEF Returning, return_to_idle
<1> QED BY <1>1 DEF act_init

-----------------------------------------------------------------------------
(* FuelFollowsRamp *)

PromiseInv ==
    /\ DwellInv /\ MemoryMirrorsState
    /\ FuelNeverBelowFloor /\ StarterInhibitedOnlyInBlocked

\* No step parts the fuel command from the ramp.
LEMMA FuelFollowsStep ==
    ASSUME PromiseInv, FuelFollowsRamp, [AnyNext]_vars
    PROVE  FuelFollowsRamp'
<1>1. /\ TypeInv /\ act \in actuator_output_t /\ derate_ramp \in 0..RAMP_INIT
      /\ DERATE_PCT_INIT \in Nat /\ RAMP_INIT \div RAMP_SCALE = DERATE_PCT_INIT
  BY RampConstants, ActuatorAssumption DEF PromiseInv, DwellInv, TypeInv, ContextTypeOK
<1>2. ASSUME NEW in \in reb_inputs_t, keeps_or_advances(in)
      PROVE  FuelFollowsRamp'
  <2>1. HoldsFuel \/ TakesFuel \/ ReturnsFuel
    BY <1>2, FuelEffect DEF PromiseInv, DwellInv
  <2>2. CASE HoldsFuel
    BY <2>2 DEF HoldsFuel, FuelFollowsRamp
  <2>3. CASE TakesFuel
    BY <2>3 DEF TakesFuel, FuelFollowsRamp
  <2>4. CASE ReturnsFuel
    BY <1>1, <2>4 DEF ReturnsFuel, FuelFollowsRamp
  <2> QED BY <2>1, <2>2, <2>3, <2>4
<1>3. ASSUME NEW in \in reb_inputs_t, returns(in, FALSE)
      PROVE  FuelFollowsRamp'
  <2>1. PICK first \in nvm_data_t, pnl \in panel_auth_ctx_t : Returning(first, pnl, in, FALSE)
    BY <1>1, <1>3, ReturningSnapshot
  <2>2. derate_ramp' = RAMP_INIT
    BY <1>1, <2>1, ReturnEffect
  <2>3. act'.derate_pct = DERATE_PCT_INIT /\ ~act'.fuel_derating_active
    BY <2>1, ReturnFuel
  <2> QED BY <1>1, <2>2, <2>3 DEF FuelFollowsRamp
<1>4. ASSUME NEW d, boot(d), d.last_state # "BLOCKED" => d.derate_ramp = RAMP_INIT
      PROVE  FuelFollowsRamp'
  <2>1. act'.derate_pct = DERATE_PCT_INIT /\ ~act'.fuel_derating_active
    BY <1>4, BootFuel
  <2>2. state' # "BLOCKED" => derate_ramp' = RAMP_INIT
    BY <1>4 DEF boot
  <2> QED BY <1>1, <2>1, <2>2 DEF FuelFollowsRamp
<1>5. factory_defaults.derate_ramp = RAMP_INIT
  BY DEF factory_defaults, snapshot
<1>6. CASE PowerCycle
  BY <1>4, <1>5, <1>6 DEF PowerCycle, PromiseInv, DwellInv, AfreshBeforeBlocking
<1>7. CASE FactoryReset
  BY <1>4, <1>5, <1>7 DEF FactoryReset
<1>8. CASE UNCHANGED vars
  BY <1>8 DEF vars, FuelFollowsRamp
<1> QED BY <1>2, <1>3, <1>6, <1>7, <1>8 DEF AnyNext, AnyStep, reb_fsm_step

LEMMA PromiseInvariant == AnySpec => [](PromiseInv /\ FuelFollowsRamp)
<1>1. Init => FuelFollowsRamp
  BY RampConstants, ActuatorAssumption DEF Init, FuelFollowsRamp, act_init
<1>2. PromiseInv /\ FuelFollowsRamp /\ [AnyNext]_vars => FuelFollowsRamp'
  BY FuelFollowsStep
<1>3. AnySpec => []PromiseInv
  BY DwellInvariant, FuelSafe, StarterSafe, InputsOnlyNarrow, PTL DEF PromiseInv
<1> QED BY <1>1, <1>2, <1>3, PTL DEF AnySpec

\* The fuel command is the ramp until the starter takes over, and fuel is only
\* taken away in BLOCKING (calc_derate_ramp and act_apply_derate against the
\* ramp do_transition and entry_idle save and reset).
THEOREM FuelFollows == AnySpec => []FuelFollowsRamp
  BY PromiseInvariant, PTL

-----------------------------------------------------------------------------
(* The refinement *)

\* The history of the standstill, as EngineBlocker sees it.
LEMMA StandstillObserved ==
    ASSUME ContextTypeOK, NEW in, end_of_step(in)
    PROVE  Promise!Observe
<1>1. still \in 0..T_PARKED_CYCLES /\ T_PARKED_CYCLES \in Nat
  BY FsmAssumption DEF ContextTypeOK
<1>2. still' \in {0, saturate(still + 1, T_PARKED_CYCLES)}
  BY DEF end_of_step
<1>3. saturate(still + 1, T_PARKED_CYCLES)
        = IF still < T_PARKED_CYCLES THEN still + 1 ELSE T_PARKED_CYCLES
  BY <1>1 DEF saturate
<1> QED BY <1>2, <1>3 DEF Promise!Observe

\* Every cycle ends in end_of_step.
LEMMA CycleEnds ==
    ASSUME NEW in, keeps_or_advances(in)
    PROVE  end_of_step(in)
  BY DEF keeps_or_advances, IdlePanelActivates, IdleRemoteActivates, IdleSensorsActivate,
     IdleWatches, enter_theft_confirmed, TheftOwnerConfirms, TheftWindowExpires,
     TheftHoldElapses, enter_blocking, TheftWindowRuns, TheftHolds, theft_stays,
     BlockingParks, BlockingContinues, BlockedStays

\* How far a quotient falls with its dividend.
LEMMA DivDrop ==
    ASSUME NEW b \in Nat \ {0}, NEW a \in Nat, NEW low \in 0..a, NEW drop \in Nat,
           a + (b - 1) <= low + drop
    PROVE  a \div b - low \div b <= drop \div b
<1> DEFINE qa == a \div b
           ql == low \div b
           qd == drop \div b
<1>1. /\ qa \in Nat /\ ql \in Nat /\ qd \in Nat
      /\ b * qa <= a
      /\ low <= b * ql + (b - 1)
      /\ drop <= b * qd + (b - 1)
  OBVIOUS
<1> HIDE DEF qa, ql, qd
<1>2. b * qa <= b * ql + b * qd + (b - 1)
  BY <1>1
<1>3. ASSUME qa >= ql + qd + 1
      PROVE  FALSE
  <2>1. b * qa >= b * (ql + qd + 1)
    BY <1>1, <1>3
  <2> QED BY <1>1, <1>2, <2>1
<1> QED BY <1>1, <1>3 DEF qa, ql, qd

\* One step down the ramp lowers the percentage by at most DERATE_STEP, rounded up.
LEMMA RampDrop ==
    ASSUME NEW ramp \in RAMP_FLOOR..RAMP_INIT
    PROVE  LET low == calc_derate_ramp(ramp) \div RAMP_SCALE
               top == ramp \div RAMP_SCALE
           IN  /\ low <= top
               /\ top - low <= (DERATE_STEP + RAMP_SCALE - 1) \div RAMP_SCALE
<1> DEFINE low  == calc_derate_ramp(ramp)
           drop == DERATE_STEP + RAMP_SCALE - 1
<1>1. /\ RAMP_SCALE \in Nat \ {0} /\ DERATE_STEP \in Nat \ {0}
      /\ ramp \in Nat /\ RAMP_FLOOR \in Nat /\ RAMP_FLOOR <= ramp
  BY RampConstants, FsmAssumption
<1>2. low \in Nat /\ low <= ramp /\ ramp - low <= DERATE_STEP
  BY <1>1 DEF calc_derate_ramp
<1>3. drop \in Nat /\ ramp + (RAMP_SCALE - 1) <= low + drop
  BY <1>1, <1>2
<1> HIDE DEF low, drop
<1>4. low \div RAMP_SCALE <= ramp \div RAMP_SCALE
  BY <1>1, <1>2, DivMonotonic
<1>5. ramp \div RAMP_SCALE - low \div RAMP_SCALE <= drop \div RAMP_SCALE
  BY <1>1, <1>2, <1>3, DivDrop
<1> QED BY <1>4, <1>5 DEF low, drop

\* A cycle in BLOCKING takes away no more than one step of the ramp, and nothing
\* below the floor.
LEMMA FuelDrop ==
    ASSUME PromiseInv, FuelFollowsRamp, NEW in \in reb_inputs_t, keeps_or_advances(in),
           state = "BLOCKING", state' = "BLOCKING"
    PROVE  /\ act'.derate_pct \in FUEL_FLOOR_PCT..act.derate_pct
           /\ act.derate_pct - act'.derate_pct <= (DERATE_STEP + RAMP_SCALE - 1) \div RAMP_SCALE
           /\ act.derate_pct \in Nat
<1>1. /\ TypeInv /\ derate_ramp \in 0..RAMP_INIT
      /\ act.derate_pct \in 0..DERATE_PCT_INIT /\ DERATE_PCT_INIT \in Nat
      /\ FuelNeverBelowFloor
  BY ActuatorAssumption DEF PromiseInv, DwellInv, TypeInv, ContextTypeOK, actuator_output_t
<1>2. HoldsFuel \/ TakesFuel
  BY <1>1, FuelEffect DEF ReturnsFuel
<1>3. CASE HoldsFuel
  BY <1>1, <1>3, FsmAssumption, ActuatorAssumption DEF HoldsFuel, FuelNeverBelowFloor
<1>4. CASE TakesFuel
  <2>1. act.derate_pct = derate_ramp \div RAMP_SCALE
    BY <1>4 DEF TakesFuel, FuelFollowsRamp
  <2>2. /\ act'.derate_pct = calc_derate_ramp(derate_ramp) \div RAMP_SCALE
        /\ calc_derate_ramp(derate_ramp) \in 0..RAMP_INIT
        /\ calc_derate_ramp(derate_ramp) >= RAMP_FLOOR
        /\ derate_ramp \in RAMP_FLOOR..RAMP_INIT
    BY <1>1, <1>4, CalcDerateRampBounds, RampConstants DEF TakesFuel, FuelNeverBelowFloor
  <2>3. act'.derate_pct \in 0..DERATE_PCT_INIT /\ act'.derate_pct >= FUEL_FLOOR_PCT
    BY <2>2, RampPercent
  <2>4. /\ act'.derate_pct <= act.derate_pct
        /\ act.derate_pct - act'.derate_pct <= (DERATE_STEP + RAMP_SCALE - 1) \div RAMP_SCALE
    BY <2>1, <2>2, RampDrop
  <2> QED BY <1>1, <2>3, <2>4, ActuatorAssumption
<1> QED BY <1>2, <1>3, <1>4

\* A cycle that stays or goes on is a Watch, Confirm, Limit, Derate or Immobilise.
LEMMA AdvanceKeepsPromise ==
    ASSUME PromiseInv, FuelFollowsRamp, StarterInhibitedOnlyInBlocked',
           NEW in \in reb_inputs_t, keeps_or_advances(in)
    PROVE  Promise!Next
<1>1. /\ TypeInv /\ ContextTypeOK /\ state \in reb_state_t
      /\ act \in actuator_output_t /\ derate_ramp \in 0..RAMP_INIT
      /\ act.derate_pct \in 0..DERATE_PCT_INIT /\ DERATE_PCT_INIT \in Nat
      /\ FuelNeverBelowFloor /\ DwellInv
  BY ActuatorAssumption DEF PromiseInv, DwellInv, TypeInv, ContextTypeOK, actuator_output_t
<1>2. Promise!Observe
  BY <1>1, CycleEnds, StandstillObserved
<1>3. HoldsFuel \/ TakesFuel \/ ReturnsFuel
  BY <1>1, FuelEffect
<1>4. /\ act.starter_inhibit_active <=> state = "BLOCKED"
      /\ act'.starter_inhibit_active <=> state' = "BLOCKED"
  BY DEF PromiseInv, StarterInhibitedOnlyInBlocked
<1>5. state # "BLOCKING" => act.derate_pct = DERATE_PCT_INIT
  BY <1>1 DEF FuelFollowsRamp
<1>6. CASE HoldsFuel /\ state' = state
  <2>1. CASE state = "BLOCKING"
    BY <1>2, <1>4, <1>6, <2>1, FuelDrop DEF Promise!Next, Promise!Derate, HoldsFuel
  <2>2. CASE state # "BLOCKING"
    BY <1>1, <1>2, <1>4, <1>6, <2>2 DEF Promise!Next, Promise!Watch, HoldsFuel, reb_state_t
  <2> QED BY <2>1, <2>2
<1>7. CASE HoldsFuel /\ state = "IDLE" /\ state' = "THEFT_CONFIRMED"
  BY <1>2, <1>4, <1>5, <1>7 DEF Promise!Next, Promise!Confirm, Promise!Unrestrained, HoldsFuel
<1>8. CASE HoldsFuel /\ state = "THEFT_CONFIRMED" /\ state' = "BLOCKING"
  BY <1>2, <1>4, <1>5, <1>8 DEF Promise!Next, Promise!Limit, Promise!Unrestrained, HoldsFuel
<1>9. CASE TakesFuel
  BY <1>2, <1>4, <1>9, FuelDrop DEF Promise!Next, Promise!Derate, TakesFuel
<1>10. CASE ReturnsFuel
  <2>1. still' = T_PARKED_CYCLES
    BY <1>1, <1>10, DwellKept DEF ReturnsFuel
  <2> QED BY <1>2, <1>4, <1>10, <2>1 DEF Promise!Next, Promise!Immobilise, ReturnsFuel
<1> QED BY <1>3, <1>6, <1>7, <1>8, <1>9, <1>10 DEF HoldsFuel

\* Every step is one EngineBlocker allows, or changes nothing it sees.
LEMMA PromiseStep ==
    ASSUME PromiseInv, FuelFollowsRamp, StarterInhibitedOnlyInBlocked', [AnyNext]_vars
    PROVE  [Promise!Next]_(Promise!promised)
<1>1. /\ TypeInv /\ ContextTypeOK /\ state \in reb_state_t
      /\ MemoryMirrorsState /\ StarterInhibitedOnlyInBlocked
  BY DEF PromiseInv, DwellInv, TypeInv, ContextTypeOK
<1>2. ASSUME NEW in \in reb_inputs_t, keeps_or_advances(in)
      PROVE  Promise!Next
  BY <1>2, AdvanceKeepsPromise
<1>3. ASSUME NEW in \in reb_inputs_t, returns(in, FALSE)
      PROVE  Promise!Next
  <2>1. PICK first \in nvm_data_t, pnl \in panel_auth_ctx_t : Returning(first, pnl, in, FALSE)
    BY <1>1, <1>3, ReturningSnapshot
  <2>2. /\ act'.derate_pct = DERATE_PCT_INIT /\ ~act'.starter_inhibit_active
        /\ end_of_step(in)
    BY <2>1, ReturnFuel
  <2>3. state' = "IDLE"
    BY <1>1, <2>1, ReturnEffect
  <2>4. state # "IDLE"
    BY <1>3 DEF returns, TheftRemoteUnblocks, TheftSignalFault, TheftOwnerDenies,
       TheftWindowAborts, theft_goes_on, BlockingSignalFault, BlockingRemoteUnblocks,
       BlockingPanelUnblocks, blocking_goes_on, BlockedRemoteUnblocks, BlockedPanelUnblocks
  <2>5. Promise!Observe
    BY <1>1, <2>2, StandstillObserved
  <2> QED BY <1>1, <2>2, <2>3, <2>4, <2>5
          DEF Promise!Next, Promise!Release, Promise!Unrestrained, reb_state_t
<1>4. CASE PowerCycle
  <2>1. PICK d : boot(d) /\ d.last_state = state
    BY <1>1, <1>4 DEF PowerCycle, MemoryMirrorsState, factory_defaults, snapshot
  <2>2. act'.derate_pct = DERATE_PCT_INIT /\ still' = 0
    BY <2>1, BootFuel
  <2>3. state' = state
    BY <2>1 DEF boot
  <2>4. act'.starter_inhibit_active <=> act.starter_inhibit_active
    BY <1>1, <2>3 DEF StarterInhibitedOnlyInBlocked
  <2> QED BY <2>2, <2>3, <2>4 DEF Promise!Next, Promise!Restart
<1>5. CASE FactoryReset
  <2>1. PICK d : boot(d) /\ d.last_state = "IDLE"
    BY <1>5 DEF FactoryReset, factory_defaults, snapshot
  <2>2. act'.derate_pct = DERATE_PCT_INIT /\ still' = 0
    BY <2>1, BootFuel
  <2>3. state' = "IDLE" /\ ~act'.starter_inhibit_active
    BY <2>1 DEF boot, StarterInhibitedOnlyInBlocked
  <2> QED BY <2>2, <2>3 DEF Promise!Next, Promise!Forget, Promise!Unrestrained
<1>6. CASE UNCHANGED vars
  BY <1>6 DEF vars, Promise!promised
<1> QED BY <1>2, <1>3, <1>4, <1>5, <1>6 DEF AnyNext, AnyStep, reb_fsm_step

\* The state machine implements EngineBlocker: modes in order, both restraints
\* let go at once, fuel taken away gradually and held at standstill, the starter
\* inhibited after the whole dwell, and no mode changed by a power cycle.
THEOREM PromiseKept == AnySpec => KeepsPromise
<1>1. Init => Promise!Init
  BY DEF Init, act_init, Promise!Init
<1>2. PromiseInv /\ FuelFollowsRamp /\ (PromiseInv /\ FuelFollowsRamp)' /\ [AnyNext]_vars
         => [Promise!Next]_(Promise!promised)
  BY PromiseStep DEF PromiseInv
<1> QED BY <1>1, <1>2, PromiseInvariant, PTL DEF AnySpec, KeepsPromise, Promise!Spec

-----------------------------------------------------------------------------
(* One cycle on any input, for the compositions *)

\* A cycle of the machine on any input of its type: types are kept, and only a
\* verified command with the right flag is added to the history.
Obeyed(in) ==
    /\ acted' = Append(acted, in.cmd_nonce)
    /\ sec_mgr_verify(last_nonce, in)
    /\ state = "IDLE" => in.auth_blocked_remote
    /\ state # "IDLE" => in.remote_unblock_remote

LEMMA CycleObeys ==
    ASSUME NEW in, reb_fsm_step(in)
    PROVE  acted' = acted \/ Obeyed(in)
<1> USE DEF Obeyed, unblock_accepted, unblock_checked
<1>1. CASE IdleRemoteActivates(in)
  BY <1>1 DEF IdleRemoteActivates, block_accepted
<1>2. CASE keeps_or_advances(in) /\ ~IdleRemoteActivates(in)
  BY <1>2 DEF keeps_or_advances, IdlePanelActivates, IdleSensorsActivate, IdleWatches,
     TheftOwnerConfirms, TheftWindowExpires, TheftWindowRuns, TheftHoldElapses, TheftHolds,
     theft_stays, enter_blocking, BlockingParks, BlockingContinues, BlockedStays
<1>3. CASE TheftRemoteUnblocks(in, FALSE)
  BY <1>3 DEF TheftRemoteUnblocks
<1>4. CASE BlockingRemoteUnblocks(in, FALSE)
  BY <1>4 DEF BlockingRemoteUnblocks, blocking_goes_on
<1>5. CASE BlockedRemoteUnblocks(in, FALSE)
  BY <1>5 DEF BlockedRemoteUnblocks
<1>6. CASE /\ returns(in, FALSE) /\ ~TheftRemoteUnblocks(in, FALSE)
           /\ ~BlockingRemoteUnblocks(in, FALSE) /\ ~BlockedRemoteUnblocks(in, FALSE)
  BY <1>6 DEF returns, TheftSignalFault, TheftOwnerDenies, TheftWindowAborts,
     BlockingSignalFault, BlockingPanelUnblocks, BlockedPanelUnblocks
<1> QED BY <1>1, <1>2, <1>3, <1>4, <1>5, <1>6 DEF reb_fsm_step

LEMMA CycleType ==
    ASSUME TypeInv, acted \in Seq(0..MAX_NONCE), NEW in \in reb_inputs_t, reb_fsm_step(in)
    PROVE  TypeInv' /\ acted' \in Seq(0..MAX_NONCE)
<1>1. ASSUME keeps_or_advances(in) PROVE TypeInv'
  BY <1>1, IdleType, TheftGoesOnType, BlockingGoesOnType, BlockedStaysType
     DEF keeps_or_advances
<1>2. ASSUME returns(in, FALSE) PROVE TypeInv'
  <2>1. PICK first \in nvm_data_t, pnl \in panel_auth_ctx_t : Returning(first, pnl, in, FALSE)
    BY <1>2, ReturningSnapshot
  <2> QED BY <2>1, ReturnType DEF Returning, TypeInv
<1>3. in.cmd_nonce \in 0..MAX_NONCE
  BY DEF reb_inputs_t
<1>4. \A n \in 0..MAX_NONCE : Append(acted, n) \in Seq(0..MAX_NONCE)
  OBVIOUS
<1>5. acted' \in Seq(0..MAX_NONCE)
  BY <1>3, <1>4, CycleObeys DEF Obeyed
<1> QED BY <1>1, <1>2, <1>5 DEF reb_fsm_step

-----------------------------------------------------------------------------
(* All of it, for those who use the machine *)

\* What is proved of the machine when power is lost between cycles only.
MachineIsSafe ==
    /\ []TypeOK
    /\ []StarterInhibitedOnlyInBlocked
    /\ []MemoryMirrorsState
    /\ []FuelNeverBelowFloor
    /\ []FuelFollowsRamp
    /\ []AlertsOnlyForAutomatic
    /\ []ActedNoncesIncrease
    /\ BlockedAfterDwell
    /\ RampStartsFull
    /\ KeepsPromise

\* On any inputs at all the machine has every safety property the runs check of
\* it: starter, memory, fuel, alerts, nonces, dwell, ramp and the abstract promise.
THEOREM MachineCorrect == AnySpec => MachineIsSafe
  BY InputsOnlyNarrow, TypeCorrect, StarterSafe, MemorySafe, FuelSafe, FuelFollows,
     AlertsSafe, NoReplay, DwellSafe, RampSafe, PromiseKept, PTL DEF MachineIsSafe
=============================================================================
