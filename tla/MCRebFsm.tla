------------------------------ MODULE MCRebFsm ------------------------------
(***************************************************************************)
(* Input sets for model checking RebFsm.  Each set exercises some of the   *)
(* ways into and out of the four states; speeds are taken on both sides of *)
(* V_STOP, commands on both sides of the nonce and of the time window, and *)
(* sensor readings on both sides of the two thresholds.                    *)
(***************************************************************************)
EXTENDS RebFsmProperties

NOW == 10   \* the clock of every cycle; only its distance to a stamp matters

\* Nothing happens: the vehicle stands, speed valid, both channels up.
quiet ==
    [ vehicle_speed |-> V_STOP, speed_is_valid |-> TRUE,
      accel_peak |-> 0, glass_break_flag |-> 0,
      ip_rx_ok |-> TRUE, sms_rx_ok |-> TRUE,
      auth_blocked_remote |-> FALSE, auth_block_automatic |-> "PENDING",
      remote_unblock_remote |-> FALSE,
      cmd_nonce |-> 0, cmd_timestamp_ms |-> NOW, cmd_sig_ok |-> TRUE, tcu_ack |-> FALSE,
      cancel_request |-> FALSE, auth_manual_out |-> FALSE,
      password_attempt |-> "WRONG", sim_time_ms |-> NOW ]

\* Standing, moving, and without a valid speed.
Driving(base) ==
    { base,
      [base EXCEPT !.vehicle_speed = V_STOP + 1],
      [base EXCEPT !.speed_is_valid = FALSE] }

\* Block and unblock commands over either channel, or over none.
Commands(base) ==
    { [base EXCEPT !.auth_blocked_remote = b, !.remote_unblock_remote = ~b,
                   !.cmd_nonce = n, !.tcu_ack = a, !.ip_rx_ok = c.ip, !.sms_rx_ok = c.sms] :
        b \in BOOLEAN, n \in 0..MAX_NONCE, a \in BOOLEAN,
        c \in {[ip |-> TRUE, sms |-> FALSE], [ip |-> FALSE, sms |-> TRUE],
               [ip |-> FALSE, sms |-> FALSE]} }

\* Commands refused for their signature or their age, or on the edge of it.
OddCommands(base) ==
    { [c EXCEPT !.cmd_sig_ok = FALSE] : c \in Commands(base) }
      \cup { [c EXCEPT !.cmd_timestamp_ms = t] :
               c \in Commands(base),
               t \in {NOW - NONCE_WINDOW_MS, NOW - NONCE_WINDOW_MS - 1, NOW + 1} }

PanelButtons(base) ==
    { [base EXCEPT !.auth_manual_out = m, !.cancel_request = c, !.password_attempt = p] :
        m \in BOOLEAN, c \in BOOLEAN, p \in {PANEL_PASSWORD_HASH, "WRONG"} }

\* 7000, 6960, 4000 and 3960: the thresholds and just below them.
SensorReadings(base) ==
    { [base EXCEPT !.glass_break_flag = r.glass, !.accel_peak = r.accel] :
        r \in {[glass |-> 100, accel |-> 25], [glass |-> 100, accel |-> 24],
               [glass |-> 0, accel |-> 140], [glass |-> 0, accel |-> 99]} }

OwnerDecisions(base) ==
    { [base EXCEPT !.auth_block_automatic = d] : d \in {"PENDING", "YES", "NO"} }

PanelInputs == UNION { PanelButtons(i) : i \in Driving(quiet) }

AutomaticInputs ==
    UNION { SensorReadings(i) \cup OwnerDecisions(i)
              \cup { [i EXCEPT !.cancel_request = TRUE, !.password_attempt = PANEL_PASSWORD_HASH] }
            : i \in Driving(quiet) }

\* A few inputs of every kind, so that the activation paths meet.
MixedInputs ==
    UNION { {i,
             [i EXCEPT !.glass_break_flag = 100, !.accel_peak = 100],
             [i EXCEPT !.auth_block_automatic = "YES"],
             [i EXCEPT !.auth_block_automatic = "NO"],
             [i EXCEPT !.cancel_request = TRUE],
             [i EXCEPT !.cancel_request = TRUE, !.password_attempt = PANEL_PASSWORD_HASH],
             [i EXCEPT !.auth_manual_out = TRUE, !.password_attempt = PANEL_PASSWORD_HASH]}
              \cup { [i EXCEPT !.auth_blocked_remote = TRUE, !.cmd_nonce = n] : n \in 1..MAX_NONCE }
              \cup { [i EXCEPT !.remote_unblock_remote = TRUE, !.cmd_nonce = n, !.tcu_ack = a] :
                       n \in 1..MAX_NONCE, a \in BOOLEAN }
            : i \in Driving(quiet) }
\* Every button and reading, and some commands: all but the odd commands.
LocalInputs == MixedInputs \cup PanelInputs \cup AutomaticInputs

\* A few inputs of every kind, and the newest command over either channel or
\* none, unsigned, stale and early.
RemoteInputs ==
    MixedInputs
      \cup { c \in Commands(quiet) \cup OddCommands(quiet) : c.tcu_ack /\ c.cmd_nonce = MAX_NONCE }
=============================================================================
