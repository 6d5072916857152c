------------------------------ MODULE CanAdapter ------------------------------
(***************************************************************************)
(* The adapter between the codec and the state machine (can_v3_adapter.c). *)
(* A received message overwrites the input fields it carries and leaves    *)
(* every other field as the messages before it have set it.  Ignition and  *)
(* engine speed only reach powertrain validation, whose verdict is free    *)
(* here, and are left out.  Speeds are in hundredths of km/h, as on the    *)
(* bus, so the division of priv_centi_kmh_to_kmh loses nothing.            *)
(***************************************************************************)
EXTENDS CanCodec

CONSTANT
    SHOCK_PCT   \* accel_peak of a reported shock, 1.0f, in percent of ACCEL_MAX

ASSUME AdapterAssumption == SHOCK_PCT \in Nat

CAN_CMD_TYPE_NOP     == 0
CAN_CMD_TYPE_BLOCK   == 1
CAN_CMD_TYPE_UNBLOCK == 2
CAN_TCU_CMD_ACK      == 0

\* Any command type but NOP counts as signed: the TCU is trusted to have checked.
\* UNBLOCK clears the flag of BLOCK and the other way round.
merge_reb_cmd_sticky(cmd, in) ==    \* mutant: a command does not end the one before
    [in EXCEPT !.cmd_nonce             = cmd.cmd_nonce,
               !.cmd_timestamp_ms      = cmd.cmd_timestamp,
               !.cmd_sig_ok            = cmd.cmd_type # CAN_CMD_TYPE_NOP,
               !.auth_blocked_remote   = @ \/ cmd.cmd_type = CAN_CMD_TYPE_BLOCK,
               !.remote_unblock_remote = @ \/ cmd.cmd_type = CAN_CMD_TYPE_UNBLOCK]
merge_reb_cmd(cmd, in) ==
    [in EXCEPT !.cmd_nonce             = cmd.cmd_nonce,
               !.cmd_timestamp_ms      = cmd.cmd_timestamp,
               !.cmd_sig_ok            = cmd.cmd_type # CAN_CMD_TYPE_NOP,
               !.auth_blocked_remote   = cmd.cmd_type = CAN_CMD_TYPE_BLOCK,
               !.remote_unblock_remote = cmd.cmd_type = CAN_CMD_TYPE_UNBLOCK]

merge_tcu_to_reb(tcu, in) == [in EXCEPT !.tcu_ack = tcu.tcu_cmd = CAN_TCU_CMD_ACK]

\* speed_sig_status becomes SIG_VALID; only a supervisor outside takes it back.
merge_vehicle_state(vs, in) ==
    [in EXCEPT !.vehicle_speed  = vs.vehicle_speed_centi_kmh,
               !.speed_is_valid = TRUE]

\* glass_break is full scale; a shock is 1.0f, which sf_step divides by ACCEL_MAX.
merge_bcm_intrusion(bcm, in) ==
    [in EXCEPT !.accel_peak       = IF bcm.shock_detected # 0 THEN SHOCK_PCT ELSE 0,
               !.glass_break_flag = IF bcm.glass_break # 0 THEN 100 ELSE 0]

\* The nonce of the panel goes where the nonce of the last command was.
merge_panel_auth(pa, in) ==
    [in EXCEPT !.auth_manual_out = pa.auth_request # 0,
               !.cmd_nonce       = pa.auth_nonce]

merge_panel_cancel(pc, in) == [in EXCEPT !.cancel_request = pc.cancel_request # 0]

merged(rx, in) ==
    CASE rx.msg_id = "REB_CMD"              -> merge_reb_cmd(rx.data, in)
      [] rx.msg_id = "TCU_TO_REB"           -> merge_tcu_to_reb(rx.data, in)
      [] rx.msg_id = "VEHICLE_STATE"        -> merge_vehicle_state(rx.data, in)
      [] rx.msg_id = "BCM_INTRUSION_STATUS" -> merge_bcm_intrusion(rx.data, in)
      [] rx.msg_id = "PANEL_AUTH_CMD"       -> merge_panel_auth(rx.data, in)
      [] rx.msg_id = "PANEL_CANCEL_CMD"     -> merge_panel_cancel(rx.data, in)
      [] rx.msg_id \notin RxMessages        -> in

\* The clock of the inputs only advances here.
can_adapter_rx_to_inputs(rx, in, now) == [merged(rx, in) EXCEPT !.sim_time_ms = now]

-----------------------------------------------------------------------------
\* The cast of reb_state_t to can_status_code_t.
status_code(st) ==
    CASE st = "IDLE" -> 0
      [] st = "THEFT_CONFIRMED" -> 1
      [] st = "BLOCKING" -> 2
      [] st = "BLOCKED" -> 3

\* notify_blocked is raised in BLOCKED.
can_adapter_outputs_to_tx_status(st) ==
    [ status_code             |-> status_code(st),
      blocked_flag            |-> IF st = "BLOCKED" THEN 1 ELSE 0,
      vehicle_speed_centi_kmh |-> 0,
      error_code              |-> 0,
      reserved                |-> 0 ]

CAN_DERATE_MODE_OFF          == 0
CAN_DERATE_MODE_GRADUAL_RAMP == 1

\* out is the actuator output; starter_ok is the negation of the inhibit.
can_adapter_outputs_to_tx_derate(out) ==
    [ derate_pct  |-> out.derate_pct,
      derate_mode |-> IF out.fuel_derating_active THEN CAN_DERATE_MODE_GRADUAL_RAMP
                      ELSE CAN_DERATE_MODE_OFF,
      safety_flag |-> IF out.starter_inhibit_active THEN 0 ELSE 1 ]

\* Nothing in the repository calls this one: no output of the machine says when a
\* REB_PREVENT_START is due.
can_adapter_outputs_to_tx_prevent_start(out) ==
    [ prevent_start  |-> IF out.starter_inhibit_active THEN 1 ELSE 0,
      auth_token_lsb |-> 0 ]
=============================================================================
