------------------------------- MODULE CanNode -------------------------------
(***************************************************************************)
(* The controller on its bus: frames arrive at any time, the adapter       *)
(* merges each into one input record that outlives the cycles, and every   *)
(* cycle of the state machine reads that record and sends the frames that  *)
(* are due.  This is the loop can_v3_adapter.h documents for integrators;  *)
(* it does not look at the result of can_rx_process_frame, so a refused    *)
(* frame merges the last accepted message once more.                       *)
(*                                                                         *)
(* RebFsm lets each cycle see any input.  Here an input is what the frames *)
(* of the past have left, together with the fields no frame carries.       *)
(*                                                                         *)
(* Field speed_is_valid of the latched inputs is speed_sig_status being    *)
(* SIG_VALID; whether powertrain validation trusts the signals is free in  *)
(* every cycle.  V_STOP and vehicle_speed are in hundredths of km/h.       *)
(***************************************************************************)
EXTENDS RebFsmProperties, CanAdapter

CONSTANTS
    Frames,         \* the frames the bus may deliver
    Times,          \* the clock readings (bounded; order does not matter)
    Local,          \* the fields of the inputs no frame carries
    Verdicts        \* what powertrain validation may say of a cycle

local_t ==
    [ ip_rx_ok             : BOOLEAN,
      sms_rx_ok            : BOOLEAN,
      auth_block_automatic : {"PENDING", "YES", "NO"},
      password_attempt     : {PANEL_PASSWORD_HASH, "WRONG"} ]

ASSUME CanAssumption ==
    /\ Frames \subseteq can_frame_t
    /\ Times \subseteq Nat
    /\ Local \subseteq local_t
    /\ Verdicts \subseteq BOOLEAN
    /\ MAX_NONCE = BYTE * BYTE - 1
    /\ DERATE_PCT_INIT = CAN_CODEC_DERATE_PCT_MAX

VARIABLES
    rx_msg,         \* the last message can_rx_process_frame accepted
    inputs,         \* the reb_inputs_t the adapter merges into
    bus_status,     \* the last REB_STATUS frame sent since the start, as a set
    bus_derate,     \* the last REB_DERATE_CMD frame sent since the start, likewise
    \* history, read by no action:
    order,          \* type of the last REB_CMD heard, and the nonces heard with or since it
    held,           \* cycles the state has been what it is, up to STATUS_PERIOD_CYCLES
    derating,       \* cycles of derating in a row, up to DERATE_CMD_PERIOD_CYCLES
    intruded        \* cycles in a row in IDLE with a valid speed and both sensors of the
                    \* BCM reporting, up to FUSION_DEBOUNCE_CYCLES

rx_vars  == <<rx_msg, inputs, order>>
tx_vars  == <<bus_status, bus_derate>>
run_vars == <<held, derating, intruded>>
can_vars == <<vars, rx_vars, tx_vars, run_vars>>

\* A reb_inputs_t of zeros.
no_inputs ==
    [ vehicle_speed |-> 0, speed_is_valid |-> FALSE,
      accel_peak |-> 0, glass_break_flag |-> 0,
      ip_rx_ok |-> FALSE, sms_rx_ok |-> FALSE,
      auth_blocked_remote |-> FALSE, auth_block_automatic |-> "PENDING",
      remote_unblock_remote |-> FALSE,
      cmd_nonce |-> 0, cmd_timestamp_ms |-> 0, cmd_sig_ok |-> FALSE, tcu_ack |-> FALSE,
      cancel_request |-> FALSE, auth_manual_out |-> FALSE,
      password_attempt |-> "WRONG", sim_time_ms |-> 0 ]

no_order == [type |-> CAN_CMD_TYPE_NOP, nonces |-> {}]

CanInit ==
    /\ Init
    /\ rx_msg = no_rx_message
    /\ inputs = no_inputs
    /\ bus_status = {}
    /\ bus_derate = {}
    /\ order = no_order
    /\ held = 0
    /\ derating = 0
    /\ intruded = 0

-----------------------------------------------------------------------------
(* Actions *)

order_after(rx) ==
    CASE rx.msg_id = "REB_CMD" -> [type |-> rx.data.cmd_type, nonces |-> {rx.data.cmd_nonce}]
      [] rx.msg_id = "PANEL_AUTH_CMD" -> [order EXCEPT !.nonces = @ \cup {rx.data.auth_nonce}]
      [] rx.msg_id \notin {"REB_CMD", "PANEL_AUTH_CMD"} -> order

\* can_rx_process_frame and can_adapter_rx_to_inputs on one frame.
CanReceive ==
    \E frame \in Frames, now \in Times :
        /\ rx_msg' = can_rx_process_frame(frame, rx_msg)
        /\ inputs' = can_adapter_rx_to_inputs(rx_msg', inputs, now)
        /\ order' = order_after(rx_msg')
        /\ UNCHANGED <<vars, tx_vars, run_vars>>

\* What the integrator writes beside the adapter: the state of the reception
\* channels, the owner's decision, the password typed at the panel, and
\* SIG_TIMEOUT for a speed that stopped coming.
Supervise ==
    /\ \/ \E l \in Local :
              inputs' = [inputs EXCEPT !.ip_rx_ok             = l.ip_rx_ok,
                                       !.sms_rx_ok            = l.sms_rx_ok,
                                       !.auth_block_automatic = l.auth_block_automatic,
                                       !.password_attempt     = l.password_attempt]
       \/ inputs' = [inputs EXCEPT !.speed_is_valid = FALSE]
    /\ UNCHANGED <<vars, rx_msg, order, tx_vars, run_vars>>

seen_with(trusts) == [inputs EXCEPT !.speed_is_valid = @ /\ trusts]

\* The flags at the end of reb_fsm_step: a period has been counted to its end.
reb_status_tx_due  == status_timer' = 0
derate_cmd_tx_due  == /\ state' = "BLOCKING"
                      /\ act'.fuel_derating_active
                      /\ derate_timer' = 0

\* One reb_fsm_step, and the frames that are due.
CanCycle ==
    \E trusts \in Verdicts :
        /\ reb_fsm_step(seen_with(trusts))
        /\ bus_status' = IF reb_status_tx_due
                         THEN can_tx_build_frame("REB_STATUS",
                                  can_adapter_outputs_to_tx_status(state'))
                         ELSE bus_status
        /\ bus_derate' = IF derate_cmd_tx_due
                         THEN can_tx_build_frame("REB_DERATE_CMD",
                                  can_adapter_outputs_to_tx_derate(act'))
                         ELSE bus_derate
        /\ held' = IF state' = state THEN saturate(held + 1, STATUS_PERIOD_CYCLES) ELSE 0
        /\ derating' = IF state' = "BLOCKING" /\ act'.fuel_derating_active
                       THEN saturate(derating + 1, DERATE_CMD_PERIOD_CYCLES) ELSE 0
        /\ intruded' = IF /\ state = "IDLE" /\ state' = "IDLE"
                          /\ seen_with(trusts).speed_is_valid
                          /\ inputs.glass_break_flag > 0 /\ inputs.accel_peak > 0
                       THEN saturate(intruded + 1, FUSION_DEBOUNCE_CYCLES) ELSE 0
        /\ UNCHANGED rx_vars

\* The controller and its loop start again.
can_boot ==
    /\ rx_msg' = no_rx_message
    /\ inputs' = no_inputs
    /\ order' = no_order
    /\ held' = 0
    /\ derating' = 0
    /\ intruded' = 0
    /\ bus_status' = {}
    /\ bus_derate' = {}

CanPowerCycle   == PowerCycle /\ can_boot
CanFactoryReset == FactoryReset /\ can_boot

CanNext == CanReceive \/ Supervise \/ CanCycle \/ CanPowerCycle \/ CanFactoryReset

CanSpec == CanInit /\ [][CanNext]_can_vars

-----------------------------------------------------------------------------
(* Properties *)

rx_message_t == {no_rx_message} \cup {can_rx_message(m, d) : m \in RxMessages, d \in data_t}

CanTypeOK ==
    /\ TypeOK
    /\ inputs \in reb_inputs_t
    /\ rx_msg.msg_id \in RxMessages \cup {"INVALID"}
    /\ bus_status \subseteq can_frame_t
    /\ bus_derate \subseteq can_frame_t
    /\ order.type \in byte /\ order.nonces \subseteq UINT16
    /\ held \in 0..STATUS_PERIOD_CYCLES
    /\ derating \in 0..DERATE_CMD_PERIOD_CYCLES
    /\ intruded \in 0..FUSION_DEBOUNCE_CYCLES

\* The receivers of REB_STATUS are never more than a period behind: once the
\* machine has been in a state for STATUS_PERIOD_CYCLES cycles, the last frame
\* carries that state, although entry_idle and every start clear the counter.
StatusReachesPeers ==
    held >= STATUS_PERIOD_CYCLES =>
        \E frame \in bus_status :
            frame.data[0] = status_code(state)

\* While fuel is being taken away, the fuel pump controller follows: after a
\* period of derating its last command is a gradual ramp, never below the floor
\* and never further ahead than the ramp falls in a period.
FuelCommandReachesPeers ==
    derating >= DERATE_CMD_PERIOD_CYCLES =>
        \E frame \in bus_derate :
            /\ frame.data[1] = CAN_DERATE_MODE_GRADUAL_RAMP
            /\ frame.data[0] >= FUEL_FLOOR_PCT
            /\ frame.data[0] >= act.derate_pct
            /\ frame.data[0] - act.derate_pct
                 <= DERATE_CMD_PERIOD_CYCLES * ((DERATE_STEP + RAMP_SCALE - 1) \div RAMP_SCALE)

\* A remote command that moves the machine is of the type of the last REB_CMD
\* frame, BLOCK out of IDLE and UNBLOCK back to it, and its nonce arrived in that
\* frame or in a panel frame after it: the flags latched in the inputs outlive
\* the cycle they were meant for, but not the next command.
OnlyTheLastOrderIsObeyed ==
    [][acted' # acted /\ Len(acted') > Len(acted) =>
          /\ order.type = IF state = "IDLE" THEN CAN_CMD_TYPE_BLOCK ELSE CAN_CMD_TYPE_UNBLOCK
          /\ acted'[Len(acted')] \in order.nonces]_can_vars

\* An intrusion both sensors of the BCM report for the whole debounce time, while
\* the vehicle is armed, activates the blocker.
IntrusionActivates == intruded < FUSION_DEBOUNCE_CYCLES
=============================================================================
