------------------------------ MODULE Actuators ------------------------------
(***************************************************************************)
(* The three output components: the actuator layer (actuator_iface.c), the *)
(* starter control (starter_control.c) and the alert manager               *)
(* (alert_manager.c).  starter_ok is the negation of                       *)
(* starter_inhibit_active after every C function and hmi_code is           *)
(* IMMINENT_BLOCKAGE exactly while alerts_active, so neither is a field.   *)
(***************************************************************************)
EXTENDS Integers

CONSTANTS
    DERATE_PCT_INIT,                    \* 100: no derating
    FUEL_FLOOR_PCT,                     \* the fuel safety floor
    V_STOP,                             \* V_STOP_KMH in tenths of km/h
    RETRANSMIT_BLOCK_TIMEOUT_CYCLES,    \* starter command repeat period
    HORN_HALF_PERIOD_CYCLES             \* half a horn period

ASSUME ActuatorAssumption ==
    /\ DERATE_PCT_INIT \in Nat
    /\ FUEL_FLOOR_PCT \in 0..DERATE_PCT_INIT
    /\ V_STOP \in Nat
    /\ RETRANSMIT_BLOCK_TIMEOUT_CYCLES \in Nat \ {0}
    /\ HORN_HALF_PERIOD_CYCLES \in Nat \ {0}

actuator_output_t ==
    [ derate_pct             : 0..DERATE_PCT_INIT,
      fuel_derating_active   : BOOLEAN,
      starter_inhibit_active : BOOLEAN ]

act_init ==
    [ derate_pct             |-> DERATE_PCT_INIT,
      fuel_derating_active   |-> FALSE,
      starter_inhibit_active |-> FALSE ]

in_motion(speed) == speed > V_STOP

act_apply_derate_sticky(st, speed, pct, out) ==     \* mutant: BLOCKED keeps derating
    IF st = "BLOCKING" THEN [out EXCEPT !.derate_pct = pct,
                                        !.fuel_derating_active = in_motion(speed)]
    ELSE out

\* The safety floor is enforced here whatever percentage the caller computed,
\* but only for a moving vehicle in BLOCKING.
act_apply_derate(st, speed, pct, out) ==
    CASE st = "BLOCKING" /\ in_motion(speed) ->
             [out EXCEPT !.derate_pct = IF pct > FUEL_FLOOR_PCT THEN pct ELSE FUEL_FLOOR_PCT,
                         !.fuel_derating_active = TRUE]
      [] st = "BLOCKING" /\ ~in_motion(speed) ->
             [out EXCEPT !.derate_pct = pct, !.fuel_derating_active = FALSE]
      [] OTHER ->
             [out EXCEPT !.derate_pct = DERATE_PCT_INIT, !.fuel_derating_active = FALSE]

act_set_starter_inhibit(inhibit, out) ==
    [out EXCEPT !.starter_inhibit_active = inhibit]

-----------------------------------------------------------------------------
starter_ctx_t ==
    [ inhibit_active   : BOOLEAN,
      retransmit_timer : 0..(RETRANSMIT_BLOCK_TIMEOUT_CYCLES - 1),
      cmd_pending      : BOOLEAN ]

starter_init ==
    [ inhibit_active |-> FALSE, retransmit_timer |-> 0, cmd_pending |-> FALSE ]

\* starter_step as the state machine calls it, always with STATE_BLOCKED: the
\* first cycle raises the inhibit, later ones repeat the command periodically.
\* (Its calls of act_set_starter_inhibit are in the caller's action.)
starter_step(ctx) ==
    LET due == ctx.retransmit_timer + 1 >= RETRANSMIT_BLOCK_TIMEOUT_CYCLES
    IN  IF ~ctx.inhibit_active
        THEN [ inhibit_active |-> TRUE, retransmit_timer |-> 0, cmd_pending |-> TRUE ]
        ELSE [ inhibit_active   |-> TRUE,
               retransmit_timer |-> IF due THEN 0 ELSE ctx.retransmit_timer + 1,
               cmd_pending      |-> due ]

-----------------------------------------------------------------------------
alert_ctx_t ==
    [ alerts_active : BOOLEAN,
      horn_timer    : 0..(HORN_HALF_PERIOD_CYCLES - 1),
      horn_state    : BOOLEAN ]

alert_mgr_init == [ alerts_active |-> FALSE, horn_timer |-> 0, horn_state |-> FALSE ]

alert_mgr_start == [ alerts_active |-> TRUE, horn_timer |-> 0, horn_state |-> TRUE ]

alert_mgr_stop_horn == [alert_mgr_init EXCEPT !.alerts_active = TRUE]  \* mutant: only the horn stops
\* alert_mgr_stop leaves exactly the initial context.
alert_mgr_stop == alert_mgr_init

alert_mgr_step(ctx) ==
    LET toggles == ctx.horn_timer + 1 >= HORN_HALF_PERIOD_CYCLES
    IN  IF ctx.alerts_active
        THEN [ctx EXCEPT !.horn_timer = IF toggles THEN 0 ELSE @ + 1,
                         !.horn_state = IF toggles THEN ~@ ELSE @]
        ELSE ctx
=============================================================================
