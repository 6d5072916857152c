----------------------------- MODULE MCRebNode -----------------------------
(***************************************************************************)
(* Input and signal sets for model checking RebNode.  The limits of range, *)
(* jump and alternation in powertrain_validation.c are taken on both       *)
(* sides, one signal at a time.                                            *)
(***************************************************************************)
EXTENDS RebNode

NOW == 10

still_input ==
    [ vehicle_speed |-> 0, speed_is_valid |-> FALSE,
      accel_peak |-> 0, glass_break_flag |-> 0,
      ip_rx_ok |-> TRUE, sms_rx_ok |-> FALSE,
      auth_blocked_remote |-> FALSE, auth_block_automatic |-> "PENDING",
      remote_unblock_remote |-> FALSE,
      cmd_nonce |-> 0, cmd_timestamp_ms |-> NOW, cmd_sig_ok |-> TRUE, tcu_ack |-> FALSE,
      cancel_request |-> FALSE, auth_manual_out |-> FALSE,
      password_attempt |-> "WRONG", sim_time_ms |-> NOW ]

over_sms(in) == [in EXCEPT !.ip_rx_ok = FALSE, !.sms_rx_ok = TRUE]
cut_off(in)  == [in EXCEPT !.ip_rx_ok = FALSE]
block(n)     == [still_input EXCEPT !.auth_blocked_remote = TRUE, !.cmd_nonce = n]
unblock(n)   == [still_input EXCEPT !.remote_unblock_remote = TRUE, !.cmd_nonce = n,
                                    !.tcu_ack = TRUE]
at_panel     == [still_input EXCEPT !.cancel_request = TRUE,
                                    !.password_attempt = PANEL_PASSWORD_HASH]

ListeningInputs == {still_input, over_sms(still_input), cut_off(still_input)}

PressedInputs == {still_input, block(1), at_panel}

BlockingInputs == {still_input, block(1), over_sms(block(1)), unblock(2), at_panel}

steady == [parked_signals EXCEPT !.ignition_state = IGN_ON]

\* Each signal on both sides of its limits while the others are steady, and
\* speeds, pedals and ignitions that can alternate.
WildSignals ==
    { [steady EXCEPT !.vehicle_speed = v] : v \in {0, 21, 42, 201, 2501, NAN} }
      \cup { [steady EXCEPT !.ignition_state = i] : i \in {1, 4} }
      \cup { [steady EXCEPT !.brake_pedal = b] : b \in {6, 101, NAN} }

\* Standing, driving slowly, driving faster than one jump, and no signal.
DrivingSignals ==
    { [steady EXCEPT !.vehicle_speed = v] : v \in {0, 150, 300} }
      \cup { [steady EXCEPT !.speed_sig_status = "TIMEOUT"] }
=============================================================================
